-------------------------- MODULE AuthProxy_proofs --------------------------
(***************************************************************************)
(* Theorems about AuthProxy, for any workers, processes, users,            *)
(* destinations, timeouts and number of tries: the types, and that the     *)
(* proxy implements AuthContract.                                          *)
(*                                                                         *)
(* The contract asks when a right was held last; the proxy only has        *)
(* replies and entries of its caches.  The invariant says how old the      *)
(* truth behind each of them may be: a reply on its way is at most         *)
(* ReqTimeout old and was true when it was given, after the request came;  *)
(* an entry was true at most its timeout and ReqTimeout before it expires. *)
(***************************************************************************)
EXTENDS AuthProxy, TLAPS

Assumptions == WorkersAssumption /\ TimeoutsAssumption /\ TriesAssumption

(* The clock and what is remembered of the rights *)
RightsOK ==
  \A r \in Rights :
    /\ lastHeld[r] <= now /\ lastLacked[r] <= now
    /\ holds[r] => lastHeld[r] = now
    /\ ~ holds[r] => lastLacked[r] = now

TokensOK ==
  \A c \in Caches, u \in Users :
    tokens[c][u].good => lastHeld[u] + (TokenTimeout + ReqTimeout) >= tokens[c][u].expires

ListsOK ==
  \A c \in Caches, u \in Users, d \in Destinations :
    IF d \in lists[c][u].list
    THEN lastHeld[<<u, d>>] + (ListTimeout + ReqTimeout) >= lists[c][u].expires
    ELSE lastLacked[<<u, d>>] + (ListTimeout + ReqTimeout) >= lists[c][u].expires

IsKnown(r) == r.proper /\ lastHeld[r.user] + (TokenTimeout + ReqTimeout) > r.arrived

VerdictOK(w) ==
  /\ verdict[w].says # "nothing" =>
       /\ pc[w] \in {"asktoken", "asklist"}
       /\ request[w].arrived <= verdict[w].at
       /\ verdict[w].at <= now /\ now <= verdict[w].at + ReqTimeout
  /\ verdict[w].says = "good" =>
       pc[w] = "asktoken" /\ request[w].proper /\ lastHeld[User(w)] >= verdict[w].at
  /\ verdict[w].says = "denied" =>
       pc[w] = "asktoken" /\ (~ request[w].proper \/ lastLacked[User(w)] >= verdict[w].at)
  /\ verdict[w].says = "list" =>
       /\ pc[w] = "asklist"
       /\ \A d \in Destinations :
            IF d \in verdict[w].list THEN lastHeld[<<User(w), d>>] >= verdict[w].at
                                     ELSE lastLacked[<<User(w), d>>] >= verdict[w].at

WorkerOK(w) ==
  /\ Busy(w) => request[w].arrived <= now
  /\ pc[w] = "unparsed" => ~ request[w].proper
  /\ pc[w] \in {"authorise", "asklist", "forward"} => IsKnown(request[w])
  /\ pc[w] = "asklist" => request[w].key \in Destinations
  /\ VerdictOK(w)

IInv ==
  /\ TypeOK
  /\ RightsOK
  /\ TokensOK
  /\ ListsOK
  /\ \A w \in Workers : WorkerOK(w)

-----------------------------------------------------------------------------
LEMMA BusyIsStep ==
  ASSUME TypeOK, NEW w \in Workers
  PROVE  /\ Busy(w) <=> pc[w] \in Steps
         /\ Busy(w) => request[w] \in Requests
BY DEF TypeOK, Busy, Steps, Answers

LEMMA InitInv == Assumptions /\ Init => IInv
<1> SUFFICES ASSUME Assumptions, Init PROVE IInv
  OBVIOUS
<1> USE DEF Assumptions, Init
<1>1. TypeOK
  <2>1. /\ now \in Nat
        /\ holds \in [Rights -> BOOLEAN]
        /\ lastHeld \in [Rights -> Nat] /\ lastLacked \in [Rights -> Nat]
    BY DEF RightsInit
  <2>2. tries \in [Workers -> 0..(MaxTries - 1)]
    BY DEF TriesAssumption
  <2>3. pc \in [Workers -> Steps \cup Answers \cup {"idle"}]
    OBVIOUS
  <2>4. request \in [Workers -> Requests \cup {NoRequest}]
    OBVIOUS
  <2>5. \A w \in Workers : ~ Busy(w)
    BY DEF Busy
  <2>6. verdict \in [Workers -> [says : Says, list : SUBSET Destinations, at : Nat]]
    BY DEF NoVerdict, Says
  <2>7. tokens \in [Caches -> [Users -> [expires : Nat, good : BOOLEAN]]]
    BY DEF NoToken
  <2>8. lists \in [Caches -> [Users -> [expires : Nat, list : SUBSET Destinations]]]
    BY DEF NoList
  <2>9. QED BY <2>1, <2>2, <2>3, <2>4, <2>5, <2>6, <2>7, <2>8 DEF TypeOK
<1>2. RightsOK
  BY DEF RightsOK, RightsInit
<1>3. TokensOK
  BY DEF TokensOK, NoToken
<1>4. ListsOK
  <2> SUFFICES ASSUME NEW c \in Caches, NEW u \in Users, NEW d \in Destinations
               PROVE  lists[c][u].list = {} /\ lastLacked[<<u, d>>] + (ListTimeout + ReqTimeout) >= lists[c][u].expires
    BY DEF ListsOK
  <2>1. <<u, d>> \in Rights
    BY DEF Rights
  <2>2. lastLacked[<<u, d>>] = 0
    BY <2>1 DEF RightsInit
  <2>3. QED BY <2>2 DEF NoList, TimeoutsAssumption
<1>5. \A w \in Workers : WorkerOK(w)
  BY DEF WorkerOK, VerdictOK, Busy, NoVerdict
<1>6. QED BY <1>1, <1>2, <1>3, <1>4, <1>5 DEF IInv

-----------------------------------------------------------------------------
(* What a step of a worker leaves alone *)
Frame(w) ==
  /\ UNCHANGED rightsVars
  /\ \A x \in Workers \ {w} :
       pc'[x] = pc[x] /\ request'[x] = request[x] /\ verdict'[x] = verdict[x]

LEMMA FrameInv ==
  ASSUME IInv, NEW w \in Workers, Frame(w), WorkerOK(w)'
  PROVE  RightsOK' /\ \A x \in Workers : WorkerOK(x)'
<1>1. UNCHANGED <<now, holds, lastHeld, lastLacked>>
  BY DEF Frame, rightsVars
<1>2. RightsOK'
  BY <1>1 DEF IInv, RightsOK
<1>3. ASSUME NEW x \in Workers \ {w} PROVE WorkerOK(x)'
  <2>1. WorkerOK(x)
    BY DEF IInv
  <2>2. pc'[x] = pc[x] /\ request'[x] = request[x] /\ verdict'[x] = verdict[x]
    BY DEF Frame
  <2>3. VerdictOK(x)'
    BY <1>1, <2>1, <2>2 DEF WorkerOK, VerdictOK, User
  <2>4. QED BY <1>1, <2>1, <2>2, <2>3 DEF WorkerOK, Busy, IsKnown
<1>4. QED BY <1>2, <1>3

-----------------------------------------------------------------------------
(* The types, by groups of variables *)
RightsTyped ==
  /\ now \in Nat
  /\ holds \in [Rights -> BOOLEAN]
  /\ lastHeld \in [Rights -> Nat] /\ lastLacked \in [Rights -> Nat]

PlacesTyped ==
  /\ pc \in [Workers -> Steps \cup Answers \cup {"idle"}]
  /\ request \in [Workers -> Requests \cup {NoRequest}]
  /\ \A w \in Workers : Busy(w) => request[w] \in Requests

AsksTyped ==
  /\ tries \in [Workers -> 0..(MaxTries - 1)]
  /\ verdict \in [Workers -> [says : Says, list : SUBSET Destinations, at : Nat]]

CachesTyped ==
  /\ tokens \in [Caches -> [Users -> [expires : Nat, good : BOOLEAN]]]
  /\ lists \in [Caches -> [Users -> [expires : Nat, list : SUBSET Destinations]]]

LEMMA TypesAre == TypeOK <=> RightsTyped /\ PlacesTyped /\ AsksTyped /\ CachesTyped
BY DEF TypeOK, RightsTyped, PlacesTyped, AsksTyped, CachesTyped

LEMMA SameRights == RightsTyped /\ UNCHANGED rightsVars => RightsTyped'
BY DEF RightsTyped, rightsVars

LEMMA SameAsks == AsksTyped /\ UNCHANGED askVars => AsksTyped'
BY DEF AsksTyped, askVars

LEMMA SameCaches == CachesTyped /\ UNCHANGED cacheVars => CachesTyped'
BY DEF CachesTyped, cacheVars

LEMMA SamePlaces == PlacesTyped /\ UNCHANGED <<pc, request>> => PlacesTyped'
BY DEF PlacesTyped, Busy

(* A worker of which nothing is asked about moves to another step *)
LEMMA GotoTypes ==
  ASSUME PlacesTyped, NEW w \in Workers, Busy(w), NEW s \in Steps, Goto(w, s)
  PROVE  /\ PlacesTyped'
         /\ pc'[w] = s /\ request' = request
         /\ \A x \in Workers \ {w} : pc'[x] = pc[x] /\ request'[x] = request[x]
<1>1. /\ pc' = [pc EXCEPT ![w] = s] /\ request' = request
  BY DEF Goto
<1>2. /\ pc' \in [Workers -> Steps \cup Answers \cup {"idle"}]
      /\ pc'[w] = s /\ \A x \in Workers \ {w} : pc'[x] = pc[x]
  BY <1>1 DEF PlacesTyped
<1>3. \A x \in Workers : Busy(x)' => request'[x] \in Requests
  BY <1>1, <1>2 DEF PlacesTyped, Busy
<1>4. QED BY <1>1, <1>2, <1>3 DEF PlacesTyped

LEMMA AnswerTypes ==
  ASSUME PlacesTyped, NEW w \in Workers, NEW a \in Answers, Answer(w, a)
  PROVE  /\ PlacesTyped'
         /\ pc'[w] = a /\ request'[w] = NoRequest
         /\ \A x \in Workers \ {w} : pc'[x] = pc[x] /\ request'[x] = request[x]
<1>1. /\ pc' = [pc EXCEPT ![w] = a]
      /\ request' = [request EXCEPT ![w] = NoRequest]
  BY DEF Answer
<1>2. /\ pc' \in [Workers -> Steps \cup Answers \cup {"idle"}]
      /\ pc'[w] = a /\ \A x \in Workers \ {w} : pc'[x] = pc[x]
  BY <1>1 DEF PlacesTyped
<1>3. /\ request' \in [Workers -> Requests \cup {NoRequest}]
      /\ request'[w] = NoRequest
      /\ \A x \in Workers \ {w} : request'[x] = request[x]
  BY <1>1 DEF PlacesTyped
<1>4. \A x \in Workers : Busy(x)' => request'[x] \in Requests
  BY <1>2, <1>3 DEF PlacesTyped, Busy
<1>5. QED BY <1>2, <1>3, <1>4 DEF PlacesTyped

LEMMA ResetTypes ==
  ASSUME Assumptions, AsksTyped, NEW w \in Workers, Reset(w)
  PROVE  /\ AsksTyped'
         /\ verdict'[w] = NoVerdict
         /\ \A x \in Workers \ {w} : verdict'[x] = verdict[x]
<1>1. /\ tries' = [tries EXCEPT ![w] = 0]
      /\ verdict' = [verdict EXCEPT ![w] = NoVerdict]
  BY DEF Reset
<1>2. NoVerdict \in [says : Says, list : SUBSET Destinations, at : Nat]
  BY DEF NoVerdict, Says
<1>3. 0 \in 0..(MaxTries - 1)
  BY DEF Assumptions, TriesAssumption
<1>4. QED BY <1>1, <1>2, <1>3 DEF AsksTyped

LEMMA VerdictTypes ==
  ASSUME RightsTyped, AsksTyped, NEW w \in Workers, NEW v \in Says,
         NEW l \in SUBSET Destinations, Verdict(w, v, l), UNCHANGED tries
  PROVE  /\ AsksTyped'
         /\ verdict'[w] = [says |-> v, list |-> l, at |-> now]
         /\ \A x \in Workers \ {w} : verdict'[x] = verdict[x]
BY DEF Verdict, AsksTyped, RightsTyped

LEMMA MineIsCache == ASSUME Assumptions, NEW w \in Workers PROVE Mine(w) \in Caches
BY DEF Assumptions, WorkersAssumption, Mine

LEMMA MemoizeTokenTypes ==
  ASSUME Assumptions, RightsTyped, CachesTyped, NEW w \in Workers, User(w) \in Users,
         NEW g \in BOOLEAN, MemoizeToken(w, g), UNCHANGED lists
  PROVE  /\ CachesTyped'
         /\ \A c \in Caches, u \in Users :
              tokens'[c][u] = IF c = Mine(w) /\ u = User(w)
                              THEN [expires |-> now + TokenTimeout, good |-> g]
                              ELSE tokens[c][u]
<1> DEFINE entry == [expires |-> now + TokenTimeout, good |-> g]
<1>1. tokens' = [tokens EXCEPT ![Mine(w)][User(w)] = entry]
  BY DEF MemoizeToken
<1>2. entry \in [expires : Nat, good : BOOLEAN]
  BY DEF RightsTyped, Assumptions, TimeoutsAssumption
<1>3. Mine(w) \in Caches
  BY MineIsCache
<1> HIDE DEF entry
<1>4. tokens' \in [Caches -> [Users -> [expires : Nat, good : BOOLEAN]]]
  BY <1>1, <1>2, <1>3 DEF CachesTyped
<1>5. \A c \in Caches, u \in Users :
        tokens'[c][u] = IF c = Mine(w) /\ u = User(w) THEN entry ELSE tokens[c][u]
  BY <1>1, <1>3 DEF CachesTyped
<1>6. QED BY <1>4, <1>5 DEF CachesTyped, entry

LEMMA MemoizeListTypes ==
  ASSUME Assumptions, RightsTyped, AsksTyped, CachesTyped, NEW w \in Workers,
         User(w) \in Users, MemoizeList(w), UNCHANGED tokens
  PROVE  /\ CachesTyped'
         /\ \A c \in Caches, u \in Users :
              lists'[c][u] = IF c = Mine(w) /\ u = User(w)
                             THEN [expires |-> now + ListTimeout, list |-> verdict[w].list]
                             ELSE lists[c][u]
<1> DEFINE entry == [expires |-> now + ListTimeout, list |-> verdict[w].list]
<1>1. lists' = [lists EXCEPT ![Mine(w)][User(w)] = entry]
  BY DEF MemoizeList
<1>2. entry \in [expires : Nat, list : SUBSET Destinations]
  BY DEF RightsTyped, AsksTyped, Assumptions, TimeoutsAssumption
<1>3. Mine(w) \in Caches
  BY MineIsCache
<1> HIDE DEF entry
<1>4. lists' \in [Caches -> [Users -> [expires : Nat, list : SUBSET Destinations]]]
  BY <1>1, <1>2, <1>3 DEF CachesTyped
<1>5. \A c \in Caches, u \in Users :
        lists'[c][u] = IF c = Mine(w) /\ u = User(w) THEN entry ELSE lists[c][u]
  BY <1>1, <1>3 DEF CachesTyped
<1>6. QED BY <1>4, <1>5 DEF CachesTyped, entry

-----------------------------------------------------------------------------
(* A step of one worker, for the invariant and for the contract *)
LEMMA WorkerStep ==
  ASSUME IInv, NEW w \in Workers, Frame(w), WorkerOK(w)',
         PlacesTyped', AsksTyped', CachesTyped', TokensOK', ListsOK'
  PROVE  IInv'
<1>1. RightsOK' /\ \A x \in Workers : WorkerOK(x)'
  BY FrameInv
<1>2. RightsTyped'
  BY SameRights, TypesAre DEF IInv, Frame
<1>3. TypeOK'
  BY <1>2 DEF TypeOK, RightsTyped, PlacesTyped, AsksTyped, CachesTyped
<1>4. QED BY <1>1, <1>3 DEF IInv

LEMMA SameEvidence ==
  ASSUME IInv, UNCHANGED rightsVars, UNCHANGED cacheVars
  PROVE  TokensOK' /\ ListsOK' /\ CachesTyped'
<1>1. TokensOK' /\ ListsOK'
  BY DEF IInv, TokensOK, ListsOK, rightsVars, cacheVars
<1>2. CachesTyped'
  BY SameCaches, TypesAre DEF IInv
<1>3. QED BY <1>1, <1>2

CStep == [Contract!Next]_(Contract!contractVars)

LEMMA CState ==
  ASSUME NEW w \in Workers, Frame(w)
  PROVE  [x \in Workers |-> State(x)]' = [[x \in Workers |-> State(x)] EXCEPT ![w] = State(w)']
<1>1. \A x \in Workers \ {w} : State(x)' = State(x)
  BY DEF Frame, State, Busy
<1>2. QED BY <1>1

LEMMA CStutter ==
  ASSUME NEW w \in Workers, Frame(w), UNCHANGED request, State(w)' = State(w)
  PROVE  CStep
<1>1. [x \in Workers |-> State(x)]' = [x \in Workers |-> State(x)]
  BY CState
<1>2. UNCHANGED Contract!contractVars
  BY <1>1 DEF Contract!contractVars, Contract!rightsVars, Frame, rightsVars
<1>3. QED BY <1>2 DEF CStep

LEMMA CAnswer ==
  ASSUME PlacesTyped, NEW w \in Workers, NEW a \in Answers, Frame(w), Answer(w, a)
  PROVE  Contract!Answer(w, a)
<1>1. State(w)' = a
  BY AnswerTypes DEF State, Busy, Answers
<1>2. [x \in Workers |-> State(x)]' = [[x \in Workers |-> State(x)] EXCEPT ![w] = a]
  BY <1>1, CState
<1>3. request' = [request EXCEPT ![w] = Contract!NoRequest]
  BY DEF Answer, NoRequest, Contract!NoRequest
<1>4. UNCHANGED Contract!rightsVars
  BY DEF Frame, rightsVars, Contract!rightsVars
<1>5. QED BY <1>2, <1>3, <1>4 DEF Contract!Answer

LEMMA CNext ==
  ASSUME NEW w \in Workers,
         \/ Contract!Admit(w) \/ Contract!Refuse(w) \/ Contract!Finish(w)
         \/ \E u \in Users, p \in BOOLEAN : Contract!Arrive(w, u, p)
         \/ \E k \in Contract!Keys : Contract!ReadKey(w, k)
  PROVE  CStep
BY DEF Contract!Next, CStep

(* A failure ends a request at any step *)
LEMMA CFails ==
  ASSUME PlacesTyped, NEW w \in Workers, NEW a \in {"400", "404", "500", "503"},
         Frame(w), Answer(w, a), Busy(w)
  PROVE  CStep
<1>1. a \in Answers
  BY DEF Answers
<1>2. State(w) \in {"pending", "admitted"}
  BY DEF State
<1>3. Contract!Answer(w, a)
  BY <1>1, CAnswer
<1>4. Contract!Finish(w)
  BY <1>2, <1>3 DEF Contract!Finish
<1>5. QED BY <1>4, CNext

(* An answer of a worker leaves nothing to be true of it *)
LEMMA AnsweredOK ==
  ASSUME PlacesTyped, NEW w \in Workers, NEW a \in Answers, Answer(w, a),
         verdict'[w].says = "nothing"
  PROVE  WorkerOK(w)'
BY AnswerTypes DEF WorkerOK, VerdictOK, Busy, Answers

LEMMA Quiet ==
  ASSUME IInv, NEW w \in Workers, pc[w] \notin {"asktoken", "asklist"}
  PROVE  verdict[w].says = "nothing"
BY DEF IInv, WorkerOK, VerdictOK

-----------------------------------------------------------------------------
(* The steps, one by one: each keeps the invariant and is a step, or none, *)
(* of the contract                                                         *)
LEMMA ArriveInv ==
  ASSUME Assumptions, IInv, NEW w \in Workers, NEW u \in Users,
         NEW scheme \in Schemes, NEW type \in Types, Arrive(w, u, scheme, type)
  PROVE  IInv' /\ CStep
<1> DEFINE p == Proper(scheme, type)
           r == [user |-> u, key |-> "unread", proper |-> p, arrived |-> now]
           s == IF Parses(scheme, type) THEN "authenticate" ELSE "unparsed"
<1>1. /\ pc[w] = "idle"
      /\ pc' = [pc EXCEPT ![w] = s]
      /\ request' = [request EXCEPT ![w] = r]
      /\ UNCHANGED <<rightsVars, askVars, cacheVars>>
  BY DEF Arrive
<1>2. RightsTyped /\ PlacesTyped /\ AsksTyped /\ CachesTyped
  BY TypesAre DEF IInv
<1>3. p \in BOOLEAN
  BY DEF Proper, Parses
<1>4. r \in Requests /\ s \in Steps
  BY <1>2, <1>3 DEF Requests, RightsTyped, Steps
<1>5. ~ Parses(scheme, type) => ~ p
  BY DEF Proper
<1> HIDE DEF p
<1>6. /\ pc'[w] = s /\ request'[w] = r /\ verdict' = verdict
      /\ \A x \in Workers \ {w} : pc'[x] = pc[x] /\ request'[x] = request[x]
  BY <1>1, <1>2 DEF PlacesTyped, askVars
<1>7. Frame(w)
  BY <1>1, <1>6 DEF Frame
<1>8. PlacesTyped'
  <2>1. pc' \in [Workers -> Steps \cup Answers \cup {"idle"}]
    BY <1>1, <1>2, <1>4 DEF PlacesTyped
  <2>2. request' \in [Workers -> Requests \cup {NoRequest}]
    BY <1>1, <1>2, <1>4 DEF PlacesTyped
  <2>3. \A x \in Workers : Busy(x)' => request'[x] \in Requests
    BY <1>2, <1>4, <1>6 DEF PlacesTyped, Busy
  <2>4. QED BY <2>1, <2>2, <2>3 DEF PlacesTyped
<1>9. WorkerOK(w)'
  <2>1. verdict'[w].says = "nothing"
    BY <1>1, <1>6, Quiet
  <2>2. VerdictOK(w)'
    BY <2>1 DEF VerdictOK
  <2>3. now' = now
    BY <1>1 DEF rightsVars
  <2>4. s = "unparsed" => ~ r.proper
    BY <1>5
  <2>5. request'[w].arrived <= now'
    BY <1>2, <1>6, <2>3 DEF RightsTyped
  <2>6. QED BY <1>6, <2>2, <2>4, <2>5 DEF WorkerOK
<1>10. IInv'
  BY <1>1, <1>2, <1>7, <1>8, <1>9, WorkerStep, SameEvidence, SameAsks
<1>11. CStep
  <2>1. State(w) = "idle"
    BY <1>1 DEF State, Busy
  <2>2. State(w)' = "pending"
    BY <1>6 DEF State, Busy, Answers
  <2>3. [x \in Workers |-> State(x)]' = [[x \in Workers |-> State(x)] EXCEPT ![w] = "pending"]
    BY <1>7, <2>2, CState
  <2>4. UNCHANGED Contract!rightsVars
    BY <1>1 DEF rightsVars, Contract!rightsVars
  <2>5. Contract!Arrive(w, u, p)
    BY <1>1, <2>1, <2>3, <2>4 DEF Contract!Arrive
  <2>6. QED BY <1>3, <2>5, CNext
<1>12. QED BY <1>10, <1>11

LEMMA RefuseHeadersInv ==
  ASSUME Assumptions, IInv, NEW w \in Workers, RefuseHeaders(w)
  PROVE  IInv' /\ CStep
<1>1. /\ pc[w] = "unparsed" /\ Answer(w, "401")
      /\ UNCHANGED <<rightsVars, askVars, cacheVars>>
  BY DEF RefuseHeaders
<1>2. RightsTyped /\ PlacesTyped /\ AsksTyped /\ CachesTyped
  BY TypesAre DEF IInv
<1>3. "401" \in Answers
  BY DEF Answers
<1>4. Frame(w)
  BY <1>1, <1>2, <1>3, AnswerTypes DEF Frame, askVars
<1>5. verdict'[w].says = "nothing"
  BY <1>1, Quiet DEF askVars
<1>6. IInv'
  BY <1>1, <1>2, <1>3, <1>4, <1>5, AnswerTypes, AnsweredOK, WorkerStep, SameEvidence, SameAsks
<1>7. ~ request[w].proper
  BY <1>1 DEF IInv, WorkerOK
<1>8. State(w) = "pending"
  BY <1>1 DEF State, Busy, Answers
<1>9. Contract!Answer(w, "401")
  BY <1>1, <1>2, <1>3, <1>4, CAnswer
<1>10. Contract!Refuse(w)
  BY <1>7, <1>8, <1>9 DEF Contract!Refuse
<1>11. QED BY <1>6, <1>10, CNext

(* A step of a busy worker that answers, without a reply to forget *)
LEMMA PlainFailure ==
  ASSUME IInv, NEW w \in Workers, Busy(w), pc[w] \notin {"asktoken", "asklist"},
         NEW a \in {"400", "404", "500", "503"}, Answer(w, a),
         UNCHANGED <<rightsVars, askVars, cacheVars>>
  PROVE  IInv' /\ CStep
<1>1. RightsTyped /\ PlacesTyped /\ AsksTyped /\ CachesTyped
  BY TypesAre DEF IInv
<1>2. a \in Answers
  BY DEF Answers
<1>3. Frame(w)
  BY <1>1, <1>2, AnswerTypes DEF Frame, askVars
<1>4. verdict'[w].says = "nothing"
  BY Quiet DEF askVars
<1>5. IInv'
  BY <1>1, <1>2, <1>3, <1>4, AnswerTypes, AnsweredOK, WorkerStep, SameEvidence, SameAsks
<1>6. QED BY <1>1, <1>3, <1>5, CFails

(* A step of a worker that goes on, between two steps that are no wait and *)
(* of the same kind for the contract                                       *)
LEMMA PlainMove ==
  ASSUME IInv, NEW w \in Workers, pc[w] \in Steps \ {"forward", "asktoken", "asklist"},
         NEW s \in Steps \ {"forward", "unparsed"}, Goto(w, s),
         s \in {"authorise", "asklist"} => IsKnown(request[w]),
         s = "asklist" => request[w].key \in Destinations,
         UNCHANGED <<rightsVars, askVars, cacheVars>>
  PROVE  IInv' /\ CStep
<1>1. RightsTyped /\ PlacesTyped /\ AsksTyped /\ CachesTyped
  BY TypesAre DEF IInv
<1>2. Busy(w)
  BY DEF Busy, Steps, Answers
<1>3. /\ pc'[w] = s /\ request' = request /\ verdict' = verdict /\ PlacesTyped'
      /\ \A x \in Workers \ {w} : pc'[x] = pc[x] /\ request'[x] = request[x]
  BY <1>1, <1>2, GotoTypes DEF askVars
<1>4. Frame(w)
  BY <1>3 DEF Frame
<1>5. UNCHANGED <<now, lastHeld, lastLacked>>
  BY DEF rightsVars
<1>6. WorkerOK(w)'
  <2>1. verdict'[w].says = "nothing"
    BY <1>3, Quiet
  <2>2. VerdictOK(w)'
    BY <2>1 DEF VerdictOK
  <2>3. request'[w].arrived <= now'
    BY <1>2, <1>3, <1>5 DEF IInv, WorkerOK
  <2>4. s \in {"authorise", "asklist", "forward"} => IsKnown(request[w])'
    BY <1>3, <1>5 DEF IsKnown
  <2>5. QED BY <1>3, <2>2, <2>3, <2>4 DEF WorkerOK
<1>7. IInv'
  BY <1>1, <1>3, <1>4, <1>6, WorkerStep, SameEvidence, SameAsks
<1>8. State(w) = "pending" /\ State(w)' = "pending"
  BY <1>2, <1>3 DEF State, Busy, Steps, Answers
<1>9. QED BY <1>3, <1>4, <1>7, <1>8, CStutter

LEMMA CheckTokenInv ==
  ASSUME Assumptions, IInv, NEW w \in Workers, CheckToken(w)
  PROVE  IInv' /\ CStep
<1> DEFINE entry == tokens[Mine(w)][User(w)]
<1>1. pc[w] = "authenticate" /\ UNCHANGED <<rightsVars, askVars, cacheVars>>
  BY DEF CheckToken
<1>2. Busy(w) /\ pc[w] \in Steps
  BY <1>1 DEF Busy, Answers, Steps
<1>3. TypeOK /\ request[w] \in Requests
  BY <1>2, BusyIsStep DEF IInv
<1>4. CASE request[w].proper /\ Fresh(entry) /\ entry.good /\ Goto(w, "authorise")
  <2>1. Mine(w) \in Caches /\ User(w) \in Users
    BY <1>3, MineIsCache DEF User, Requests
  <2>2. lastHeld[User(w)] + (TokenTimeout + ReqTimeout) >= entry.expires
    BY <1>4, <2>1 DEF IInv, TokensOK
  <2>3. request[w].arrived <= now /\ entry.expires > now
    BY <1>2, <1>4 DEF IInv, WorkerOK, Fresh
  <2>4. User(w) \in Rights
    BY <2>1 DEF Rights
  <2>5. entry.expires \in Nat /\ lastHeld[User(w)] \in Nat /\ now \in Nat /\ request[w].arrived \in Nat
    BY <1>3, <2>1, <2>4 DEF TypeOK, Requests
  <2> HIDE DEF entry
  <2>6. lastHeld[User(w)] + (TokenTimeout + ReqTimeout) > request[w].arrived
    BY <2>2, <2>3, <2>5 DEF Assumptions, TimeoutsAssumption
  <2>7. IsKnown(request[w])
    BY <1>4, <2>6 DEF IsKnown, User
  <2>8. QED BY <1>1, <1>2, <1>4, <2>7, PlainMove DEF Steps
<1>5. CASE Answer(w, "500")
  BY <1>1, <1>2, <1>5, PlainFailure
<1>6. CASE Goto(w, "asktoken")
  BY <1>1, <1>2, <1>6, PlainMove DEF Steps
<1>7. QED BY <1>4, <1>5, <1>6 DEF CheckToken

LEMMA UserHasRights ==
  ASSUME TypeOK, NEW w \in Workers, Busy(w)
  PROVE  /\ User(w) \in Users /\ User(w) \in Rights
         /\ \A d \in Destinations : <<User(w), d>> \in Rights
         /\ now \in Nat /\ request[w].arrived \in Nat
         /\ \A r \in Rights : lastHeld[r] \in Nat /\ lastLacked[r] \in Nat
<1>1. request[w] \in Requests
  BY BusyIsStep
<1>2. User(w) \in Users /\ request[w].arrived \in Nat
  BY <1>1 DEF User, Requests
<1>3. User(w) \in Rights /\ \A d \in Destinations : <<User(w), d>> \in Rights
  BY <1>2 DEF Rights
<1>4. QED BY <1>2, <1>3 DEF TypeOK

LEMMA JudgeTokenInv ==
  ASSUME Assumptions, IInv, NEW w \in Workers, JudgeToken(w)
  PROVE  IInv' /\ CStep
<1> DEFINE v == IF request[w].proper /\ holds[User(w)] THEN "good" ELSE "denied"
<1>1. /\ pc[w] = "asktoken" /\ Verdict(w, v, {})
      /\ UNCHANGED <<rightsVars, pc, request, tries, cacheVars>>
  BY DEF JudgeToken
<1>2. RightsTyped /\ PlacesTyped /\ AsksTyped /\ CachesTyped /\ TypeOK
  BY TypesAre DEF IInv
<1>3. v \in Says /\ {} \in SUBSET Destinations
  BY DEF Says
<1>4. Busy(w)
  BY <1>1 DEF Busy, Answers
<1>5. /\ AsksTyped'
      /\ verdict'[w] = [says |-> v, list |-> {}, at |-> now]
      /\ \A x \in Workers \ {w} : verdict'[x] = verdict[x]
  BY <1>1, <1>2, <1>3, VerdictTypes
<1>6. Frame(w)
  BY <1>1, <1>5 DEF Frame
<1>7. UNCHANGED <<now, holds, lastHeld, lastLacked>>
  BY <1>1 DEF rightsVars
<1>8. User(w)' = User(w)
  BY <1>1 DEF User
<1>9. /\ v = "good" => request[w].proper /\ lastHeld[User(w)] = now
      /\ v = "denied" => ~ request[w].proper \/ lastLacked[User(w)] = now
  BY <1>2, <1>4, UserHasRights DEF IInv, RightsOK
<1>10. now <= now + ReqTimeout /\ now >= now
  BY <1>2 DEF RightsTyped, Assumptions, TimeoutsAssumption
<1>11. v # "list"
  OBVIOUS
<1>12. request[w].arrived <= now
  BY <1>4 DEF IInv, WorkerOK
<1> HIDE DEF v
<1>13. VerdictOK(w)'
  BY <1>1, <1>5, <1>7, <1>8, <1>9, <1>10, <1>11, <1>12 DEF VerdictOK
<1>14. WorkerOK(w)'
  BY <1>1, <1>4, <1>7, <1>12, <1>13 DEF WorkerOK
<1>15. PlacesTyped'
  BY <1>1, <1>2, SamePlaces
<1>16. IInv'
  BY <1>1, <1>5, <1>6, <1>14, <1>15, WorkerStep, SameEvidence
<1>17. State(w)' = State(w)
  BY <1>1 DEF State, Busy
<1>18. QED BY <1>1, <1>6, <1>16, <1>17, CStutter

LEMMA RetryInv ==
  ASSUME Assumptions, IInv, NEW w \in Workers, Retry(w)
  PROVE  IInv' /\ CStep
<1>1. pc[w] = "asktoken" /\ UNCHANGED <<rightsVars, cacheVars>>
  BY DEF Retry
<1>2. RightsTyped /\ PlacesTyped /\ AsksTyped /\ CachesTyped
  BY TypesAre DEF IInv
<1>3. Busy(w)
  BY <1>1 DEF Busy, Answers
<1>4. UNCHANGED <<now, holds, lastHeld, lastLacked>>
  BY <1>1 DEF rightsVars
<1>5. CASE /\ tries[w] + 1 < MaxTries
           /\ tries' = [tries EXCEPT ![w] = @ + 1]
           /\ verdict' = [verdict EXCEPT ![w] = NoVerdict]
           /\ UNCHANGED <<pc, request>>
  <2>1. tries[w] + 1 \in 0..(MaxTries - 1)
    BY <1>2, <1>5 DEF AsksTyped, Assumptions, TriesAssumption
  <2>2. tries' \in [Workers -> 0..(MaxTries - 1)]
    BY <1>2, <1>5, <2>1 DEF AsksTyped
  <2>3. NoVerdict \in [says : Says, list : SUBSET Destinations, at : Nat]
    BY DEF NoVerdict, Says
  <2>4. /\ verdict' \in [Workers -> [says : Says, list : SUBSET Destinations, at : Nat]]
        /\ verdict'[w] = NoVerdict
        /\ \A x \in Workers \ {w} : verdict'[x] = verdict[x]
    BY <1>2, <1>5, <2>3 DEF AsksTyped
  <2>5. Frame(w)
    BY <1>1, <1>5, <2>4 DEF Frame
  <2>6. VerdictOK(w)'
    BY <2>4 DEF VerdictOK, NoVerdict
  <2>7. WorkerOK(w)'
    BY <1>1, <1>3, <1>4, <1>5, <2>6 DEF IInv, WorkerOK
  <2>8. AsksTyped' /\ PlacesTyped'
    BY <1>2, <1>5, <2>2, <2>4, SamePlaces DEF AsksTyped
  <2>9. IInv'
    BY <1>1, <2>5, <2>7, <2>8, WorkerStep, SameEvidence
  <2>10. State(w)' = State(w)
    BY <1>5 DEF State, Busy
  <2>11. QED BY <1>5, <2>5, <2>9, <2>10, CStutter
<1>6. CASE Answer(w, "500") /\ Reset(w)
  <2>1. "500" \in Answers
    BY DEF Answers
  <2>2. Frame(w)
    BY <1>1, <1>2, <1>6, <2>1, AnswerTypes, ResetTypes DEF Frame
  <2>3. verdict'[w].says = "nothing"
    BY <1>2, <1>6, ResetTypes DEF NoVerdict
  <2>4. IInv'
    BY <1>1, <1>2, <1>6, <2>1, <2>2, <2>3, AnswerTypes, AnsweredOK, ResetTypes, WorkerStep, SameEvidence
  <2>5. QED BY <1>2, <1>3, <1>6, <2>2, <2>4, CFails
<1>7. QED BY <1>5, <1>6 DEF Retry

(* A reply is forgotten and the caches are right: the worker has answered  *)
LEMMA AnswerAfterReply ==
  ASSUME Assumptions, IInv, NEW w \in Workers, NEW a \in Answers, Answer(w, a), Reset(w),
         UNCHANGED rightsVars, CachesTyped', TokensOK', ListsOK'
  PROVE  IInv' /\ Frame(w)
<1>1. RightsTyped /\ PlacesTyped /\ AsksTyped
  BY TypesAre DEF IInv
<1>2. Frame(w)
  BY <1>1, AnswerTypes, ResetTypes DEF Frame
<1>3. verdict'[w].says = "nothing"
  BY <1>1, ResetTypes DEF NoVerdict
<1>4. QED
  BY <1>1, <1>2, <1>3, AnswerTypes, AnsweredOK, ResetTypes, WorkerStep

(* ... or goes on, of a user who is known *)
LEMMA MoveAfterReply ==
  ASSUME Assumptions, IInv, NEW w \in Workers, Busy(w), NEW s \in {"authorise", "forward"},
         Goto(w, s), Reset(w), IsKnown(request[w]),
         UNCHANGED rightsVars, CachesTyped', TokensOK', ListsOK'
  PROVE  IInv' /\ Frame(w) /\ request' = request /\ pc'[w] = s
<1>1. RightsTyped /\ PlacesTyped /\ AsksTyped
  BY TypesAre DEF IInv
<1>2. s \in Steps
  BY DEF Steps
<1>3. /\ PlacesTyped' /\ pc'[w] = s /\ request' = request
      /\ \A x \in Workers \ {w} : pc'[x] = pc[x] /\ request'[x] = request[x]
  BY <1>1, <1>2, GotoTypes
<1>4. Frame(w)
  BY <1>1, <1>3, ResetTypes DEF Frame
<1>5. UNCHANGED <<now, lastHeld, lastLacked>>
  BY DEF rightsVars
<1>6. WorkerOK(w)'
  <2>1. VerdictOK(w)'
    BY <1>1, ResetTypes DEF VerdictOK, NoVerdict
  <2>2. request'[w].arrived <= now'
    BY <1>3, <1>5 DEF IInv, WorkerOK
  <2>3. IsKnown(request[w])'
    BY <1>3, <1>5 DEF IsKnown
  <2>4. QED BY <1>3, <2>1, <2>2, <2>3 DEF WorkerOK
<1>7. IInv'
  BY <1>1, <1>3, <1>4, <1>6, ResetTypes, WorkerStep
<1>8. QED BY <1>3, <1>4, <1>7

LEMMA ReceiveTokenInv ==
  ASSUME Assumptions, IInv, NEW w \in Workers, ReceiveToken(w)
  PROVE  IInv' /\ CStep
<1>1. pc[w] = "asktoken" /\ Reset(w) /\ UNCHANGED <<rightsVars, lists>>
  BY DEF ReceiveToken
<1>2. RightsTyped /\ PlacesTyped /\ AsksTyped /\ CachesTyped /\ TypeOK
  BY TypesAre DEF IInv
<1>3. Busy(w) /\ State(w) = "pending"
  BY <1>1 DEF State, Busy, Answers
<1>4. UNCHANGED <<now, lastHeld, lastLacked>>
  BY <1>1 DEF rightsVars
<1>5. VerdictOK(w) /\ request[w].arrived <= now
  BY <1>3 DEF IInv, WorkerOK
<1>6. verdict[w].at \in Nat
  BY <1>2 DEF AsksTyped
<1>7. "401" \in Answers /\ "500" \in Answers
  BY DEF Answers
<1>8. ListsOK'
  BY <1>1, <1>4 DEF IInv, ListsOK
<1>9. ASSUME verdict[w].says = "good", NEW g \in BOOLEAN, MemoizeToken(w, g)
      PROVE  CachesTyped' /\ TokensOK'
  <2>1. User(w) \in Users
    BY <1>2, <1>3, UserHasRights
  <2>2. /\ CachesTyped'
        /\ \A c \in Caches, u \in Users :
             tokens'[c][u] = IF c = Mine(w) /\ u = User(w)
                             THEN [expires |-> now + TokenTimeout, good |-> g]
                             ELSE tokens[c][u]
    BY <1>1, <1>2, <1>9, <2>1, MemoizeTokenTypes
  <2>3. lastHeld[User(w)] + (TokenTimeout + ReqTimeout) >= now + TokenTimeout
    <3>1. lastHeld[User(w)] >= verdict[w].at /\ now <= verdict[w].at + ReqTimeout
      BY <1>5, <1>9 DEF VerdictOK
    <3>2. lastHeld[User(w)] \in Nat /\ now \in Nat
      BY <1>2, <1>3, UserHasRights
    <3>3. QED BY <1>6, <3>1, <3>2 DEF Assumptions, TimeoutsAssumption
  <2>4. ASSUME NEW c \in Caches, NEW u \in Users, tokens'[c][u].good
        PROVE  lastHeld'[u] + (TokenTimeout + ReqTimeout) >= tokens'[c][u].expires
    <3>1. CASE c = Mine(w) /\ u = User(w)
      <4>1. tokens'[c][u].expires = now + TokenTimeout
        BY <2>2, <3>1
      <4>2. QED BY <1>4, <2>3, <3>1, <4>1
    <3>2. CASE ~ (c = Mine(w) /\ u = User(w))
      <4>1. tokens'[c][u] = tokens[c][u]
        BY <2>2, <3>2
      <4>2. QED BY <1>4, <2>4, <4>1 DEF IInv, TokensOK
    <3>3. QED BY <3>1, <3>2
  <2>5. QED BY <2>2, <2>4 DEF TokensOK
<1>10. CASE verdict[w].says = "good" /\ MemoizeToken(w, TRUE) /\ Goto(w, "authorise")
  <2>1. IsKnown(request[w])
    <3>1. request[w].proper /\ lastHeld[User(w)] >= verdict[w].at
      BY <1>5, <1>10 DEF VerdictOK
    <3>2. request[w].arrived <= verdict[w].at
      BY <1>5, <1>10 DEF VerdictOK
    <3>3. lastHeld[User(w)] \in Nat /\ request[w].arrived \in Nat
      BY <1>2, <1>3, UserHasRights
    <3>4. lastHeld[User(w)] + (TokenTimeout + ReqTimeout) > request[w].arrived
      BY <1>6, <3>1, <3>2, <3>3 DEF Assumptions, TimeoutsAssumption
    <3>5. QED BY <3>1, <3>4 DEF IsKnown, User
  <2>2. CachesTyped' /\ TokensOK'
    BY <1>9, <1>10
  <2>3. IInv' /\ Frame(w) /\ request' = request /\ pc'[w] = "authorise"
    BY <1>1, <1>3, <1>8, <1>10, <2>1, <2>2, MoveAfterReply
  <2>4. State(w)' = State(w)
    BY <1>3, <2>3 DEF State, Busy, Answers
  <2>5. QED BY <2>3, <2>4, CStutter
<1>11. CASE verdict[w].says = "good" /\ MemoizeToken(w, FALSE) /\ Answer(w, "500")
  <2>1. CachesTyped' /\ TokensOK'
    BY <1>9, <1>11
  <2>2. IInv' /\ Frame(w)
    BY <1>1, <1>7, <1>8, <1>11, <2>1, AnswerAfterReply
  <2>3. QED BY <1>2, <1>3, <1>11, <2>2, CFails
<1>12. CASE UNCHANGED tokens
  <2>1. TokensOK' /\ CachesTyped'
    BY <1>1, <1>12, SameEvidence DEF cacheVars
  <2>2. CASE verdict[w].says = "denied" /\ Answer(w, "401")
    <3>1. IInv' /\ Frame(w)
      BY <1>1, <1>7, <1>8, <2>1, <2>2, AnswerAfterReply
    <3>2. ~ request[w].proper \/ lastLacked[User(w)] >= request[w].arrived
      <4>1. /\ ~ request[w].proper \/ lastLacked[User(w)] >= verdict[w].at
            /\ request[w].arrived <= verdict[w].at
        BY <1>5, <2>2 DEF VerdictOK
      <4>2. lastLacked[User(w)] \in Nat /\ request[w].arrived \in Nat
        BY <1>2, <1>3, UserHasRights
      <4>3. QED BY <1>6, <4>1, <4>2
    <3>3. Contract!Answer(w, "401")
      BY <1>2, <1>7, <2>2, <3>1, CAnswer
    <3>4. Contract!Refuse(w)
      BY <1>3, <3>2, <3>3 DEF Contract!Refuse, User
    <3>5. QED BY <3>1, <3>4, CNext
  <2>3. CASE Answer(w, "500")
    <3>1. IInv' /\ Frame(w)
      BY <1>1, <1>7, <1>8, <2>1, <2>3, AnswerAfterReply
    <3>2. QED BY <1>2, <1>3, <2>3, <3>1, CFails
  <2>4. QED BY <1>10, <1>11, <2>2, <2>3 DEF ReceiveToken
<1>13. QED BY <1>10, <1>11, <1>12 DEF ReceiveToken

LEMMA ReadKeyInv ==
  ASSUME Assumptions, IInv, NEW w \in Workers, ReadKey(w)
  PROVE  IInv' /\ CStep
<1>1. /\ pc[w] = "authorise" /\ request[w].key = "unread"
      /\ UNCHANGED <<rightsVars, askVars, cacheVars>>
  BY DEF ReadKey
<1>2. RightsTyped /\ PlacesTyped /\ AsksTyped /\ CachesTyped /\ TypeOK
  BY TypesAre DEF IInv
<1>3. Busy(w) /\ State(w) = "pending" /\ request[w] \in Requests
  BY <1>1, <1>2, BusyIsStep DEF State, Busy, Answers
<1>4. ASSUME NEW a \in {"400", "500"}, Answer(w, a) PROVE IInv' /\ CStep
  BY <1>1, <1>3, <1>4, PlainFailure
<1>5. ASSUME NEW k \in Keys,
             request' = [request EXCEPT ![w].key = k], UNCHANGED pc
      PROVE  IInv' /\ CStep
  <2>1. /\ request'[w] = [request[w] EXCEPT !.key = k]
        /\ \A x \in Workers \ {w} : request'[x] = request[x]
    BY <1>2, <1>5 DEF PlacesTyped
  <2>2. [request[w] EXCEPT !.key = k] \in Requests
    BY <1>3 DEF Requests
  <2>3. PlacesTyped'
    BY <1>2, <1>5, <2>1, <2>2 DEF PlacesTyped, Busy
  <2>4. Frame(w)
    BY <1>1, <1>5, <2>1 DEF Frame, askVars
  <2>5. /\ request'[w].user = request[w].user /\ request'[w].proper = request[w].proper
        /\ request'[w].arrived = request[w].arrived
    BY <1>3, <2>1 DEF Requests
  <2>6. UNCHANGED <<now, lastHeld, lastLacked, verdict>>
    BY <1>1 DEF rightsVars, askVars
  <2>7. WorkerOK(w)'
    <3>1. verdict'[w].says = "nothing"
      BY <1>1, <2>6, Quiet
    <3>2. VerdictOK(w)'
      BY <3>1 DEF VerdictOK
    <3>3. IsKnown(request[w]) /\ request[w].arrived <= now
      BY <1>1, <1>3 DEF IInv, WorkerOK
    <3>4. IsKnown(request[w])' /\ request'[w].arrived <= now'
      BY <2>5, <2>6, <3>3 DEF IsKnown
    <3>5. QED BY <1>1, <1>5, <3>2, <3>4 DEF WorkerOK
  <2>8. IInv'
    BY <1>1, <1>2, <2>3, <2>4, <2>7, WorkerStep, SameEvidence, SameAsks
  <2>9. [x \in Workers |-> State(x)]' = [x \in Workers |-> State(x)]
    BY <1>5 DEF State, Busy
  <2>10. UNCHANGED Contract!rightsVars
    BY <1>1 DEF rightsVars, Contract!rightsVars
  <2>11. Contract!ReadKey(w, k)
    BY <1>1, <1>3, <1>5, <2>9, <2>10 DEF Contract!ReadKey
  <2>12. k \in Contract!Keys
    BY DEF Keys, Contract!Keys
  <2>13. QED BY <2>8, <2>11, <2>12, CNext
<1>6. QED BY <1>4, <1>5 DEF ReadKey

(* What the contract asks for an admission and for a refusal *)
MayRead(w) ==
  /\ request[w].key \in Destinations
  /\ lastHeld[<<User(w), request[w].key>>] + (ListTimeout + ReqTimeout) > request[w].arrived
MayNotRead(w) ==
  /\ request[w].key \in Destinations
  /\ lastLacked[<<User(w), request[w].key>>] + (ListTimeout + ReqTimeout) > request[w].arrived

LEMMA CAdmit ==
  ASSUME NEW w \in Workers, Frame(w), UNCHANGED request, State(w) = "pending",
         pc'[w] = "forward", IsKnown(request[w]), request[w].key = "open" \/ MayRead(w)
  PROVE  CStep
<1>1. State(w)' = "admitted"
  BY DEF State
<1>2. [x \in Workers |-> State(x)]' = [[x \in Workers |-> State(x)] EXCEPT ![w] = "admitted"]
  BY <1>1, CState
<1>3. Contract!Known(request[w]) /\ (request[w].key = "open" \/ Contract!Allowed(request[w]))
  BY DEF IsKnown, MayRead, User, Contract!Known, Contract!Allowed
<1>4. UNCHANGED Contract!rightsVars
  BY DEF Frame, rightsVars, Contract!rightsVars
<1>5. Contract!Admit(w)
  BY <1>2, <1>3, <1>4 DEF Contract!Admit
<1>6. QED BY <1>5, CNext

LEMMA CForbid ==
  ASSUME PlacesTyped, NEW w \in Workers, Frame(w), Answer(w, "403"), State(w) = "pending",
         IsKnown(request[w]), request[w].key = "closed" \/ MayNotRead(w)
  PROVE  CStep
<1>1. Contract!Answer(w, "403")
  BY CAnswer DEF Answers
<1>2. Contract!Known(request[w]) /\ (request[w].key = "closed" \/ Contract!NotAllowed(request[w]))
  BY DEF IsKnown, MayNotRead, User, Contract!Known, Contract!NotAllowed
<1>3. Contract!Refuse(w)
  BY <1>1, <1>2 DEF Contract!Refuse
<1>4. QED BY <1>3, CNext

LEMMA AuthoriseInv ==
  ASSUME Assumptions, IInv, NEW w \in Workers, Authorise(w)
  PROVE  IInv' /\ CStep
<1> DEFINE entry == lists[Mine(w)][User(w)]
           key == request[w].key
<1>1. pc[w] = "authorise" /\ UNCHANGED <<rightsVars, askVars, cacheVars>>
  BY DEF Authorise
<1>2. RightsTyped /\ PlacesTyped /\ AsksTyped /\ CachesTyped /\ TypeOK
  BY TypesAre DEF IInv
<1>3. Busy(w) /\ State(w) = "pending" /\ pc[w] \in Steps
  BY <1>1 DEF State, Busy, Answers, Steps
<1>4. IsKnown(request[w]) /\ request[w].arrived <= now
  BY <1>1, <1>3 DEF IInv, WorkerOK
<1>5. verdict'[w].says = "nothing"
  BY <1>1, Quiet DEF askVars
<1>6. UNCHANGED <<now, lastHeld, lastLacked, verdict>>
  BY <1>1 DEF rightsVars, askVars
<1>7. ASSUME Goto(w, "forward") PROVE IInv' /\ Frame(w) /\ request' = request /\ pc'[w] = "forward"
  <2>1. /\ PlacesTyped' /\ pc'[w] = "forward" /\ request' = request
        /\ \A x \in Workers \ {w} : pc'[x] = pc[x] /\ request'[x] = request[x]
    BY <1>2, <1>3, <1>7, GotoTypes DEF Steps
  <2>2. Frame(w)
    BY <1>1, <1>6, <2>1 DEF Frame
  <2>3. VerdictOK(w)'
    BY <1>5 DEF VerdictOK
  <2>4. IsKnown(request[w])' /\ request'[w].arrived <= now'
    BY <1>4, <1>6, <2>1 DEF IsKnown
  <2>5. WorkerOK(w)'
    BY <2>1, <2>3, <2>4 DEF WorkerOK
  <2>6. IInv'
    BY <1>1, <1>2, <2>1, <2>2, <2>5, WorkerStep, SameEvidence, SameAsks
  <2>7. QED BY <2>1, <2>2, <2>6
<1>8. ASSUME Answer(w, "403") PROVE IInv' /\ Frame(w)
  <2>1. "403" \in Answers
    BY DEF Answers
  <2>2. Frame(w)
    BY <1>1, <1>2, <1>6, <1>8, <2>1, AnswerTypes DEF Frame
  <2>3. QED
    BY <1>1, <1>2, <1>5, <1>8, <2>1, <2>2, AnswerTypes, AnsweredOK, WorkerStep, SameEvidence, SameAsks
<1>9. CASE key = "open" /\ Goto(w, "forward")
  BY <1>3, <1>4, <1>7, <1>9, CAdmit
<1>10. CASE key = "closed" /\ Answer(w, "403")
  BY <1>2, <1>3, <1>4, <1>8, <1>10, CForbid
<1>11. CASE key \in Destinations /\ Fresh(entry) /\ Decide(w, entry.list)
  <2>1. Mine(w) \in Caches /\ User(w) \in Users /\ <<User(w), key>> \in Rights
    BY <1>2, <1>3, <1>11, MineIsCache, UserHasRights
  <2>2. /\ entry.expires \in Nat /\ now \in Nat /\ request[w].arrived \in Nat
        /\ lastHeld[<<User(w), key>>] \in Nat /\ lastLacked[<<User(w), key>>] \in Nat
    BY <1>2, <1>3, <2>1, UserHasRights DEF CachesTyped
  <2>3. entry.expires > now
    BY <1>11 DEF Fresh
  <2>4. IF key \in entry.list
        THEN lastHeld[<<User(w), key>>] + (ListTimeout + ReqTimeout) >= entry.expires
        ELSE lastLacked[<<User(w), key>>] + (ListTimeout + ReqTimeout) >= entry.expires
    BY <1>11, <2>1 DEF IInv, ListsOK
  <2>5. CASE key \in entry.list
    <3>1. lastHeld[<<User(w), key>>] + (ListTimeout + ReqTimeout) > request[w].arrived
      <4> HIDE DEF entry, key
      <4>1. QED BY <1>4, <2>2, <2>3, <2>4, <2>5 DEF Assumptions, TimeoutsAssumption
    <3>2. MayRead(w)
      BY <1>11, <3>1 DEF MayRead
    <3>3. Goto(w, "forward")
      BY <1>11, <2>5 DEF Decide
    <3>4. QED BY <1>3, <1>4, <1>7, <3>2, <3>3, CAdmit
  <2>6. CASE key \notin entry.list
    <3>1. lastLacked[<<User(w), key>>] + (ListTimeout + ReqTimeout) > request[w].arrived
      <4> HIDE DEF entry, key
      <4>1. QED BY <1>4, <2>2, <2>3, <2>4, <2>6 DEF Assumptions, TimeoutsAssumption
    <3>2. MayNotRead(w)
      BY <1>11, <3>1 DEF MayNotRead
    <3>3. Answer(w, "403")
      BY <1>11, <2>6 DEF Decide
    <3>4. QED BY <1>2, <1>3, <1>4, <1>8, <3>2, <3>3, CForbid
  <2>7. QED BY <2>5, <2>6
<1>12. CASE key \in Destinations /\ Goto(w, "asklist")
  BY <1>1, <1>3, <1>4, <1>12, PlainMove DEF Steps
<1>13. QED BY <1>9, <1>10, <1>11, <1>12 DEF Authorise

LEMMA JudgeListInv ==
  ASSUME Assumptions, IInv, NEW w \in Workers, JudgeList(w)
  PROVE  IInv' /\ CStep
<1>1. /\ pc[w] = "asklist"
      /\ UNCHANGED <<rightsVars, pc, request, tries, cacheVars>>
  BY DEF JudgeList
<1>2. PICK v \in {"list", "unknown"}, l \in SUBSET Destinations :
        Verdict(w, v, l) /\ (v = "list" => l = Granted(User(w)))
  <2>1. Granted(User(w)) \in SUBSET Destinations /\ {} \in SUBSET Destinations
    BY DEF Granted
  <2>2. QED BY <2>1 DEF JudgeList
<1>3. RightsTyped /\ PlacesTyped /\ AsksTyped /\ CachesTyped /\ TypeOK
  BY TypesAre DEF IInv
<1>4. Busy(w)
  BY <1>1 DEF Busy, Answers
<1>5. /\ AsksTyped'
      /\ verdict'[w] = [says |-> v, list |-> l, at |-> now]
      /\ \A x \in Workers \ {w} : verdict'[x] = verdict[x]
  BY <1>1, <1>2, <1>3, VerdictTypes DEF Says
<1>6. Frame(w)
  BY <1>1, <1>5 DEF Frame
<1>7. UNCHANGED <<now, holds, lastHeld, lastLacked>>
  BY <1>1 DEF rightsVars
<1>8. User(w)' = User(w)
  BY <1>1 DEF User
<1>9. \A d \in Destinations :
        v = "list" => IF d \in l THEN lastHeld[<<User(w), d>>] = now
                                 ELSE lastLacked[<<User(w), d>>] = now
  BY <1>2, <1>3, <1>4, UserHasRights DEF IInv, RightsOK, Granted
<1>10. now <= now + ReqTimeout /\ now >= now
  BY <1>3 DEF RightsTyped, Assumptions, TimeoutsAssumption
<1>11. request[w].arrived <= now
  BY <1>4 DEF IInv, WorkerOK
<1>12. VerdictOK(w)'
  <2>1. /\ request'[w].arrived <= verdict'[w].at
        /\ verdict'[w].at <= now' /\ now' <= verdict'[w].at + ReqTimeout
    BY <1>1, <1>5, <1>7, <1>10, <1>11
  <2>2. verdict'[w].says # "good" /\ verdict'[w].says # "denied"
    BY <1>5
  <2>3. verdict'[w].says = "list" =>
          \A d \in Destinations :
            IF d \in verdict'[w].list THEN lastHeld'[<<User(w)', d>>] >= verdict'[w].at
                                      ELSE lastLacked'[<<User(w)', d>>] >= verdict'[w].at
    BY <1>5, <1>7, <1>8, <1>9, <1>10
  <2>4. QED BY <1>1, <2>1, <2>2, <2>3 DEF VerdictOK
<1>13. WorkerOK(w)'
  <2>1. WorkerOK(w)
    BY DEF IInv
  <2>2. QED BY <1>1, <1>4, <1>7, <1>12, <2>1 DEF WorkerOK, IsKnown
<1>14. PlacesTyped'
  BY <1>1, <1>3, SamePlaces
<1>15. IInv'
  BY <1>1, <1>5, <1>6, <1>13, <1>14, WorkerStep, SameEvidence
<1>16. State(w)' = State(w)
  BY <1>1 DEF State, Busy
<1>17. QED BY <1>1, <1>6, <1>15, <1>16, CStutter

LEMMA ReceiveListInv ==
  ASSUME Assumptions, IInv, NEW w \in Workers, ReceiveList(w)
  PROVE  IInv' /\ CStep
<1> DEFINE key == request[w].key
<1>1. pc[w] = "asklist" /\ Reset(w) /\ UNCHANGED <<rightsVars, tokens>>
  BY DEF ReceiveList
<1>2. RightsTyped /\ PlacesTyped /\ AsksTyped /\ CachesTyped /\ TypeOK
  BY TypesAre DEF IInv
<1>3. Busy(w) /\ State(w) = "pending"
  BY <1>1 DEF State, Busy, Answers
<1>4. UNCHANGED <<now, lastHeld, lastLacked>>
  BY <1>1 DEF rightsVars
<1>5. /\ VerdictOK(w) /\ request[w].arrived <= now /\ IsKnown(request[w])
      /\ key \in Destinations
  BY <1>1, <1>3 DEF IInv, WorkerOK
<1>6. verdict[w].at \in Nat
  BY <1>2 DEF AsksTyped
<1>7. "403" \in Answers
  BY DEF Answers
<1>8. TokensOK'
  BY <1>1, <1>4 DEF IInv, TokensOK
<1>9. CASE verdict[w].says = "list" /\ MemoizeList(w) /\ Decide(w, verdict[w].list)
  <2>1. User(w) \in Users /\ now \in Nat /\ request[w].arrived \in Nat
    BY <1>2, <1>3, UserHasRights
  <2>2. /\ CachesTyped'
        /\ \A c \in Caches, u \in Users :
             lists'[c][u] = IF c = Mine(w) /\ u = User(w)
                            THEN [expires |-> now + ListTimeout, list |-> verdict[w].list]
                            ELSE lists[c][u]
    BY <1>1, <1>2, <1>9, <2>1, MemoizeListTypes
  <2>3. /\ request[w].arrived <= verdict[w].at /\ now <= verdict[w].at + ReqTimeout
        /\ \A d \in Destinations :
             IF d \in verdict[w].list THEN lastHeld[<<User(w), d>>] >= verdict[w].at
                                      ELSE lastLacked[<<User(w), d>>] >= verdict[w].at
    BY <1>5, <1>9 DEF VerdictOK
  <2>4. \A d \in Destinations :
          lastHeld[<<User(w), d>>] \in Nat /\ lastLacked[<<User(w), d>>] \in Nat
    BY <1>2, <1>3, UserHasRights
  <2>5. ASSUME NEW d \in Destinations
        PROVE  /\ d \in verdict[w].list =>
                    /\ lastHeld[<<User(w), d>>] + (ListTimeout + ReqTimeout) >= now + ListTimeout
                    /\ lastHeld[<<User(w), d>>] + (ListTimeout + ReqTimeout) > request[w].arrived
               /\ d \notin verdict[w].list =>
                    /\ lastLacked[<<User(w), d>>] + (ListTimeout + ReqTimeout) >= now + ListTimeout
                    /\ lastLacked[<<User(w), d>>] + (ListTimeout + ReqTimeout) > request[w].arrived
    <3>1. CASE d \in verdict[w].list
      <4>1. lastHeld[<<User(w), d>>] >= verdict[w].at /\ lastHeld[<<User(w), d>>] \in Nat
        BY <2>3, <2>4, <3>1
      <4>2. QED BY <1>6, <2>1, <2>3, <3>1, <4>1 DEF Assumptions, TimeoutsAssumption
    <3>2. CASE d \notin verdict[w].list
      <4>1. lastLacked[<<User(w), d>>] >= verdict[w].at /\ lastLacked[<<User(w), d>>] \in Nat
        BY <2>3, <2>4, <3>2
      <4>2. QED BY <1>6, <2>1, <2>3, <3>2, <4>1 DEF Assumptions, TimeoutsAssumption
    <3>3. QED BY <3>1, <3>2
  <2>6. ListsOK'
    <3> SUFFICES ASSUME NEW c \in Caches, NEW u \in Users, NEW d \in Destinations
                 PROVE  IF d \in lists'[c][u].list
                        THEN lastHeld'[<<u, d>>] + (ListTimeout + ReqTimeout) >= lists'[c][u].expires
                        ELSE lastLacked'[<<u, d>>] + (ListTimeout + ReqTimeout) >= lists'[c][u].expires
      BY DEF ListsOK
    <3>1. CASE c = Mine(w) /\ u = User(w)
      <4>1. lists'[c][u].list = verdict[w].list /\ lists'[c][u].expires = now + ListTimeout
        BY <2>2, <3>1
      <4>2. QED BY <1>4, <2>5, <3>1, <4>1
    <3>2. CASE ~ (c = Mine(w) /\ u = User(w))
      <4>1. lists'[c][u] = lists[c][u]
        BY <2>2, <3>2
      <4>2. QED BY <1>4, <4>1 DEF IInv, ListsOK
    <3>3. QED BY <3>1, <3>2
  <2>7. CASE key \in verdict[w].list
    <3>1. Goto(w, "forward")
      BY <1>9, <2>7 DEF Decide
    <3>2. MayRead(w)
      BY <1>5, <2>5, <2>7 DEF MayRead
    <3>3. IInv' /\ Frame(w) /\ request' = request /\ pc'[w] = "forward"
      BY <1>1, <1>3, <1>5, <1>8, <2>2, <2>6, <3>1, MoveAfterReply
    <3>4. QED BY <1>3, <1>5, <3>2, <3>3, CAdmit
  <2>8. CASE key \notin verdict[w].list
    <3>1. Answer(w, "403")
      BY <1>9, <2>8 DEF Decide
    <3>2. MayNotRead(w)
      BY <1>5, <2>5, <2>8 DEF MayNotRead
    <3>3. IInv' /\ Frame(w)
      BY <1>1, <1>7, <1>8, <2>2, <2>6, <3>1, AnswerAfterReply
    <3>4. QED BY <1>2, <1>3, <1>5, <3>1, <3>2, <3>3, CForbid
  <2>9. QED BY <2>7, <2>8
<1>10. ASSUME NEW a \in {"404", "500", "503"}, Answer(w, a), UNCHANGED lists
       PROVE  IInv' /\ CStep
  <2>1. ListsOK' /\ CachesTyped'
    BY <1>1, <1>10, SameEvidence DEF cacheVars
  <2>2. a \in Answers
    BY DEF Answers
  <2>3. IInv' /\ Frame(w)
    BY <1>1, <1>8, <1>10, <2>1, <2>2, AnswerAfterReply
  <2>4. QED BY <1>2, <1>3, <1>10, <2>3, CFails
<1>11. QED BY <1>9, <1>10 DEF ReceiveList

LEMMA ForwardInv ==
  ASSUME Assumptions, IInv, NEW w \in Workers, Forward(w)
  PROVE  IInv' /\ CStep
<1>1. pc[w] = "forward" /\ UNCHANGED <<rightsVars, askVars, cacheVars>>
  BY DEF Forward
<1>2. RightsTyped /\ PlacesTyped /\ AsksTyped /\ CachesTyped
  BY TypesAre DEF IInv
<1>3. Busy(w) /\ State(w) = "admitted"
  BY <1>1 DEF State, Busy, Answers
<1>4. PICK a \in {"200", "400", "503", "500"} : Answer(w, a)
  BY DEF Forward
<1>5. CASE a # "200"
  BY <1>1, <1>3, <1>4, <1>5, PlainFailure
<1>6. CASE a = "200"
  <2>1. a \in Answers
    BY DEF Answers
  <2>2. Frame(w)
    BY <1>1, <1>2, <1>4, <2>1, AnswerTypes DEF Frame, askVars
  <2>3. verdict'[w].says = "nothing"
    BY <1>1, Quiet DEF askVars
  <2>4. IInv'
    BY <1>1, <1>2, <1>4, <2>1, <2>2, <2>3, AnswerTypes, AnsweredOK, WorkerStep, SameEvidence, SameAsks
  <2>5. Contract!Answer(w, a)
    BY <1>2, <1>4, <2>1, <2>2, CAnswer
  <2>6. Contract!Finish(w)
    BY <1>3, <1>6, <2>5 DEF Contract!Finish
  <2>7. QED BY <2>4, <2>6, CNext
<1>7. QED BY <1>5, <1>6

-----------------------------------------------------------------------------
(* A restart: the entries of the process and the replies to its workers    *)
(* are gone, with the requests they had                                    *)
LEMMA RestartInv ==
  ASSUME Assumptions, IInv, NEW c \in Caches, Restart(c)
  PROVE  IInv' /\ CStep
<1> DEFINE S == {w \in Workers : Mine(w) = c}
           hit == {w \in S : Busy(w)}
<1>1. /\ pc' = [w \in Workers |-> IF w \in hit THEN "dropped" ELSE pc[w]]
      /\ request' = [w \in Workers |-> IF w \in hit THEN NoRequest ELSE request[w]]
      /\ tries' = [w \in Workers |-> IF w \in S THEN 0 ELSE tries[w]]
      /\ verdict' = [w \in Workers |-> IF w \in S THEN NoVerdict ELSE verdict[w]]
      /\ tokens' = [tokens EXCEPT ![c] = [u \in Users |-> NoToken]]
      /\ lists' = [lists EXCEPT ![c] = [u \in Users |-> NoList]]
      /\ UNCHANGED rightsVars
  BY DEF Restart
<1>2. RightsTyped /\ PlacesTyped /\ AsksTyped /\ CachesTyped /\ TypeOK
  BY TypesAre DEF IInv
<1>3. UNCHANGED <<now, holds, lastHeld, lastLacked>>
  BY <1>1 DEF rightsVars
<1>4. PlacesTyped'
  <2>1. pc' \in [Workers -> Steps \cup Answers \cup {"idle"}]
    BY <1>1, <1>2 DEF PlacesTyped, Answers
  <2>2. request' \in [Workers -> Requests \cup {NoRequest}]
    BY <1>1, <1>2 DEF PlacesTyped
  <2>3. ASSUME NEW w \in Workers, Busy(w)' PROVE request'[w] \in Requests
    <3>1. w \notin hit /\ Busy(w)
      BY <1>1, <2>3 DEF Busy, Answers
    <3>2. QED BY <1>1, <1>2, <3>1 DEF PlacesTyped
  <2>4. QED BY <2>1, <2>2, <2>3 DEF PlacesTyped
<1>5. AsksTyped'
  <2>1. NoVerdict \in [says : Says, list : SUBSET Destinations, at : Nat]
    BY DEF NoVerdict, Says
  <2>2. 0 \in 0..(MaxTries - 1)
    BY DEF Assumptions, TriesAssumption
  <2>3. tries' \in [Workers -> 0..(MaxTries - 1)]
    BY <1>1, <1>2, <2>2 DEF AsksTyped
  <2>4. verdict' \in [Workers -> [says : Says, list : SUBSET Destinations, at : Nat]]
    BY <1>1, <1>2, <2>1 DEF AsksTyped
  <2>5. QED BY <2>3, <2>4 DEF AsksTyped
<1>6. CachesTyped'
  <2>1. [u \in Users |-> NoToken] \in [Users -> [expires : Nat, good : BOOLEAN]]
    BY DEF NoToken
  <2>2. [u \in Users |-> NoList] \in [Users -> [expires : Nat, list : SUBSET Destinations]]
    BY DEF NoList
  <2>3. QED BY <1>1, <1>2, <2>1, <2>2 DEF CachesTyped
<1>7. TypeOK'
  <2>1. RightsTyped'
    BY <1>1, <1>2, SameRights
  <2>2. QED BY <1>4, <1>5, <1>6, <2>1 DEF TypeOK, RightsTyped, PlacesTyped, AsksTyped, CachesTyped
<1>8. RightsOK'
  BY <1>3 DEF IInv, RightsOK
<1>9. TokensOK'
  <2> SUFFICES ASSUME NEW d \in Caches, NEW u \in Users, tokens'[d][u].good
               PROVE  lastHeld'[u] + (TokenTimeout + ReqTimeout) >= tokens'[d][u].expires
    BY DEF TokensOK
  <2>1. d # c
    BY <1>1, <1>2 DEF CachesTyped, NoToken
  <2>2. tokens'[d] = tokens[d]
    BY <1>1, <1>2, <2>1 DEF CachesTyped
  <2>3. QED BY <1>3, <2>2 DEF IInv, TokensOK
<1>10. ListsOK'
  <2> SUFFICES ASSUME NEW e \in Caches, NEW u \in Users, NEW d \in Destinations
               PROVE  IF d \in lists'[e][u].list
                      THEN lastHeld'[<<u, d>>] + (ListTimeout + ReqTimeout) >= lists'[e][u].expires
                      ELSE lastLacked'[<<u, d>>] + (ListTimeout + ReqTimeout) >= lists'[e][u].expires
    BY DEF ListsOK
  <2>1. CASE e = c
    <3>1. lists'[e][u] = NoList
      BY <1>1, <1>2, <2>1 DEF CachesTyped
    <3>2. d \notin lists'[e][u].list /\ lists'[e][u].expires = 0
      BY <3>1 DEF NoList
    <3>3. <<u, d>> \in Rights
      BY DEF Rights
    <3>4. lastLacked'[<<u, d>>] \in Nat
      BY <1>2, <1>3, <3>3 DEF RightsTyped
    <3>5. QED BY <3>2, <3>4 DEF Assumptions, TimeoutsAssumption
  <2>2. CASE e # c
    <3>1. lists'[e] = lists[e]
      BY <1>1, <1>2, <2>2 DEF CachesTyped
    <3>2. QED BY <1>3, <3>1 DEF IInv, ListsOK
  <2>3. QED BY <2>1, <2>2
<1>11. ASSUME NEW w \in Workers PROVE WorkerOK(w)'
  <2>1. WorkerOK(w)
    BY DEF IInv
  <2>2. CASE w \in hit
    <3>1. pc'[w] = "dropped" /\ verdict'[w].says = "nothing"
      BY <1>1, <2>2 DEF NoVerdict
    <3>2. QED BY <3>1 DEF WorkerOK, VerdictOK, Busy, Answers
  <2>3. CASE w \notin hit
    <3>1. pc'[w] = pc[w] /\ request'[w] = request[w]
      BY <1>1, <2>3
    <3>2. verdict'[w] = verdict[w] \/ verdict'[w].says = "nothing"
      BY <1>1 DEF NoVerdict
    <3>3. VerdictOK(w)'
      BY <1>3, <2>1, <3>1, <3>2 DEF WorkerOK, VerdictOK, User
    <3>4. QED BY <1>3, <2>1, <3>1, <3>3 DEF WorkerOK, Busy, IsKnown
  <2>4. QED BY <2>2, <2>3
<1>12. CStep
  <2> DEFINE state == [w \in Workers |-> State(w)]
             struck == {w \in S : state[w] \in {"pending", "admitted"}}
  <2>1. struck = hit
    <3>1. ASSUME NEW w \in Workers
          PROVE  State(w) \in {"pending", "admitted"} <=> Busy(w)
      BY <1>2 DEF State, Busy, Answers, PlacesTyped, Steps
    <3>2. QED BY <3>1
  <2>2. \A w \in Workers : State(w)' = IF w \in hit THEN "dropped" ELSE State(w)
    <3>1. ASSUME NEW w \in hit PROVE State(w)' = "dropped"
      BY <1>1 DEF State, Busy, Answers
    <3>2. ASSUME NEW w \in Workers, w \notin hit PROVE State(w)' = State(w)
      <4>1. pc'[w] = pc[w]
        BY <1>1, <3>2
      <4>2. QED BY <4>1 DEF State, Busy
    <3>3. QED BY <3>1, <3>2
  <2>3. state' = [w \in Workers |-> IF w \in struck THEN "dropped" ELSE state[w]]
    BY <2>1, <2>2
  <2>4. request' = [w \in Workers |-> IF w \in struck THEN Contract!NoRequest ELSE request[w]]
    BY <1>1, <2>1 DEF NoRequest, Contract!NoRequest
  <2>5. UNCHANGED Contract!rightsVars
    BY <1>1 DEF rightsVars, Contract!rightsVars
  <2>6. Contract!Drop(S)
    BY <2>3, <2>4, <2>5 DEF Contract!Drop
  <2>7. S \in SUBSET Workers
    OBVIOUS
  <2>8. QED BY <2>6, <2>7 DEF Contract!Next, CStep
<1>13. QED BY <1>7, <1>8, <1>9, <1>10, <1>11, <1>12 DEF IInv

-----------------------------------------------------------------------------
(* Time and the rights go on while nobody works: the evidence only gets    *)
(* newer, as long as no reply is on its way for longer than ReqTimeout     *)
LEMMA NewerEvidence ==
  ASSUME Assumptions, IInv, UNCHANGED <<workerVars, cacheVars>>,
         RightsTyped', RightsOK', now <= now',
         \A r \in Rights : lastHeld[r] <= lastHeld'[r] /\ lastLacked[r] <= lastLacked'[r],
         \A w \in Workers : verdict[w].says # "nothing" => now' <= verdict[w].at + ReqTimeout
  PROVE  IInv'
<1>1. UNCHANGED <<pc, request, tries, verdict, tokens, lists>>
  BY DEF workerVars, askVars, cacheVars
<1>2. RightsTyped /\ PlacesTyped /\ AsksTyped /\ CachesTyped /\ TypeOK
  BY TypesAre DEF IInv
<1>3. TypeOK'
  <2>1. PlacesTyped' /\ AsksTyped' /\ CachesTyped'
    BY <1>1, <1>2, SamePlaces, SameAsks, SameCaches DEF askVars, cacheVars
  <2>2. QED BY <2>1 DEF TypeOK, RightsTyped, PlacesTyped, AsksTyped, CachesTyped
<1>4. \A r \in Rights : /\ lastHeld[r] \in Nat /\ lastHeld'[r] \in Nat
                        /\ lastLacked[r] \in Nat /\ lastLacked'[r] \in Nat
  BY <1>2 DEF RightsTyped
<1>5. TokensOK'
  <2> SUFFICES ASSUME NEW c \in Caches, NEW u \in Users, tokens[c][u].good
               PROVE  lastHeld'[u] + (TokenTimeout + ReqTimeout) >= tokens[c][u].expires
    BY <1>1 DEF TokensOK
  <2>1. u \in Rights /\ tokens[c][u].expires \in Nat
    BY <1>2 DEF Rights, CachesTyped
  <2>2. lastHeld[u] + (TokenTimeout + ReqTimeout) >= tokens[c][u].expires
    BY DEF IInv, TokensOK
  <2>3. QED BY <1>4, <2>1, <2>2 DEF Assumptions, TimeoutsAssumption
<1>6. ListsOK'
  <2> SUFFICES ASSUME NEW c \in Caches, NEW u \in Users, NEW d \in Destinations
               PROVE  IF d \in lists[c][u].list
                      THEN lastHeld'[<<u, d>>] + (ListTimeout + ReqTimeout) >= lists[c][u].expires
                      ELSE lastLacked'[<<u, d>>] + (ListTimeout + ReqTimeout) >= lists[c][u].expires
    BY <1>1 DEF ListsOK
  <2>1. <<u, d>> \in Rights /\ lists[c][u].expires \in Nat
    BY <1>2 DEF Rights, CachesTyped
  <2>2. IF d \in lists[c][u].list
        THEN lastHeld[<<u, d>>] + (ListTimeout + ReqTimeout) >= lists[c][u].expires
        ELSE lastLacked[<<u, d>>] + (ListTimeout + ReqTimeout) >= lists[c][u].expires
    BY DEF IInv, ListsOK
  <2>3. CASE d \in lists[c][u].list
    BY <1>4, <2>1, <2>2, <2>3 DEF Assumptions, TimeoutsAssumption
  <2>4. CASE d \notin lists[c][u].list
    BY <1>4, <2>1, <2>2, <2>4 DEF Assumptions, TimeoutsAssumption
  <2>5. QED BY <2>3, <2>4
<1>7. ASSUME NEW w \in Workers PROVE WorkerOK(w)'
  <2>1. WorkerOK(w) /\ VerdictOK(w)
    BY DEF IInv, WorkerOK
  <2>2. verdict[w].at \in Nat /\ now \in Nat /\ now' \in Nat
    BY <1>2 DEF AsksTyped, RightsTyped
  <2>3. ASSUME Busy(w)
        PROVE  /\ User(w) \in Rights /\ request[w].arrived \in Nat
               /\ \A d \in Destinations : <<User(w), d>> \in Rights
    BY <1>2, <2>3 DEF PlacesTyped, Requests, User, Rights
  <2>4. VerdictOK(w)'
    <3>1. CASE verdict[w].says = "nothing"
      BY <1>1, <3>1 DEF VerdictOK
    <3>2. CASE verdict[w].says # "nothing"
      <4>1. Busy(w)
        BY <2>1, <3>2 DEF VerdictOK, Busy, Answers
      <4>2. /\ pc[w] \in {"asktoken", "asklist"}
            /\ request[w].arrived <= verdict[w].at
            /\ verdict[w].at <= now' /\ now' <= verdict[w].at + ReqTimeout
        BY <2>1, <2>2, <3>2 DEF VerdictOK
      <4>3. verdict[w].says = "good" =>
              pc[w] = "asktoken" /\ request[w].proper /\ lastHeld'[User(w)] >= verdict[w].at
        BY <1>4, <2>1, <2>2, <2>3, <4>1 DEF VerdictOK
      <4>4. verdict[w].says = "denied" =>
              pc[w] = "asktoken" /\ (~ request[w].proper \/ lastLacked'[User(w)] >= verdict[w].at)
        BY <1>4, <2>1, <2>2, <2>3, <4>1 DEF VerdictOK
      <4>5. ASSUME verdict[w].says = "list"
            PROVE  /\ pc[w] = "asklist"
                   /\ \A d \in Destinations :
                        IF d \in verdict[w].list THEN lastHeld'[<<User(w), d>>] >= verdict[w].at
                                                 ELSE lastLacked'[<<User(w), d>>] >= verdict[w].at
        <5>1. ASSUME NEW d \in Destinations
              PROVE  IF d \in verdict[w].list THEN lastHeld'[<<User(w), d>>] >= verdict[w].at
                                              ELSE lastLacked'[<<User(w), d>>] >= verdict[w].at
          <6>1. <<User(w), d>> \in Rights
            BY <2>3, <4>1
          <6>2. IF d \in verdict[w].list THEN lastHeld[<<User(w), d>>] >= verdict[w].at
                                         ELSE lastLacked[<<User(w), d>>] >= verdict[w].at
            BY <2>1, <4>5 DEF VerdictOK
          <6>3. CASE d \in verdict[w].list
            BY <1>4, <2>2, <6>1, <6>2, <6>3
          <6>4. CASE d \notin verdict[w].list
            BY <1>4, <2>2, <6>1, <6>2, <6>4
          <6>5. QED BY <6>3, <6>4
        <5>2. QED BY <2>1, <4>5, <5>1 DEF VerdictOK
      <4>6. QED BY <1>1, <4>2, <4>3, <4>4, <4>5 DEF VerdictOK, User
    <3>3. QED BY <3>1, <3>2
  <2>5. Busy(w) => request[w].arrived <= now'
    BY <2>1, <2>2, <2>3 DEF WorkerOK
  <2>6. pc[w] \in {"authorise", "asklist", "forward"} => IsKnown(request[w])'
    <3> SUFFICES ASSUME pc[w] \in {"authorise", "asklist", "forward"}
                 PROVE  IsKnown(request[w])'
      OBVIOUS
    <3>1. Busy(w)
      BY DEF Busy, Answers
    <3>2. User(w) \in Rights /\ request[w].arrived \in Nat
      BY <2>3, <3>1
    <3>3. request[w].proper /\ lastHeld[User(w)] + (TokenTimeout + ReqTimeout) > request[w].arrived
      BY <2>1 DEF WorkerOK, IsKnown, User
    <3>4. lastHeld'[User(w)] + (TokenTimeout + ReqTimeout) > request[w].arrived
      BY <1>4, <3>2, <3>3 DEF Assumptions, TimeoutsAssumption
    <3>5. QED BY <1>1, <3>3, <3>4 DEF IsKnown, User
  <2>7. QED BY <1>1, <2>1, <2>4, <2>5, <2>6 DEF WorkerOK, Busy
<1>8. QED BY <1>3, <1>5, <1>6, <1>7 DEF IInv

LEMMA CSameStates ==
  ASSUME UNCHANGED workerVars
  PROVE  UNCHANGED <<[w \in Workers |-> State(w)], request>>
BY DEF workerVars, State, Busy

(* A reply on its way is not older than ReqTimeout *)
LEMMA InTime ==
  ASSUME IInv, NEW w \in Workers, verdict[w].says # "nothing"
  PROVE  now <= verdict[w].at + ReqTimeout
BY DEF IInv, WorkerOK, VerdictOK

LEMMA ChangeInv ==
  ASSUME Assumptions, IInv, NEW r \in Rights, Change(r), UNCHANGED <<workerVars, cacheVars>>
  PROVE  IInv' /\ CStep
<1>1. RightsTyped /\ RightsOK
  BY TypesAre DEF IInv
<1>2. /\ holds' = [holds EXCEPT ![r] = ~ @]
      /\ lastHeld' = [lastHeld EXCEPT ![r] = now]
      /\ lastLacked' = [lastLacked EXCEPT ![r] = now]
      /\ now' = now
  BY DEF Change
<1>3. RightsTyped'
  BY <1>1, <1>2 DEF RightsTyped
<1>4. ASSUME NEW q \in Rights
      PROVE  /\ holds'[q] = (IF q = r THEN ~ holds[q] ELSE holds[q])
             /\ lastHeld'[q] = IF q = r THEN now ELSE lastHeld[q]
             /\ lastLacked'[q] = IF q = r THEN now ELSE lastLacked[q]
  BY <1>1, <1>2 DEF RightsTyped
<1>5. now \in Nat /\ now <= now
  BY <1>1 DEF RightsTyped
<1>6. \A q \in Rights : /\ lastHeld[q] \in Nat /\ lastLacked[q] \in Nat
                        /\ lastHeld[q] <= now /\ lastLacked[q] <= now
  BY <1>1 DEF RightsTyped, RightsOK
<1>7. RightsOK'
  BY <1>1, <1>2, <1>4, <1>5 DEF RightsOK
<1>8. \A q \in Rights : lastHeld[q] <= lastHeld'[q] /\ lastLacked[q] <= lastLacked'[q]
  BY <1>4, <1>6
<1>9. \A w \in Workers : verdict[w].says # "nothing" => now' <= verdict[w].at + ReqTimeout
  BY <1>2, InTime
<1>10. IInv'
  BY <1>2, <1>3, <1>5, <1>7, <1>8, <1>9, NewerEvidence
<1>11. Contract!Change(r) /\ r \in Contract!Rights
  BY DEF Change, Contract!Change, Rights, Contract!Rights
<1>12. CStep
  BY <1>11, CSameStates DEF Contract!Next, CStep
<1>13. QED BY <1>10, <1>12

LEMMA AdvanceInv ==
  ASSUME Assumptions, IInv, Advance
  PROVE  IInv' /\ CStep
<1>1. RightsTyped /\ RightsOK /\ AsksTyped
  BY TypesAre DEF IInv
<1>2. /\ now' = now + 1 /\ holds' = holds
      /\ lastHeld' = [r \in Rights |-> IF holds[r] THEN now + 1 ELSE lastHeld[r]]
      /\ lastLacked' = [r \in Rights |-> IF holds[r] THEN lastLacked[r] ELSE now + 1]
      /\ UNCHANGED <<workerVars, cacheVars>>
  BY DEF Advance, Tick
<1>3. now \in Nat
  BY <1>1 DEF RightsTyped
<1>4. RightsTyped'
  BY <1>1, <1>2 DEF RightsTyped
<1>5. \A r \in Rights :
        /\ lastHeld'[r] = IF holds[r] THEN now + 1 ELSE lastHeld[r]
        /\ lastLacked'[r] = IF holds[r] THEN lastLacked[r] ELSE now + 1
        /\ lastHeld[r] \in Nat /\ lastLacked[r] \in Nat
        /\ lastHeld[r] <= now /\ lastLacked[r] <= now
  BY <1>1, <1>2 DEF RightsTyped, RightsOK
<1>6. RightsOK'
  BY <1>2, <1>3, <1>5 DEF RightsOK
<1>7. \A r \in Rights : lastHeld[r] <= lastHeld'[r] /\ lastLacked[r] <= lastLacked'[r]
  BY <1>3, <1>5
<1>8. ASSUME NEW w \in Workers, verdict[w].says # "nothing"
      PROVE  now' <= verdict[w].at + ReqTimeout
  <2>1. verdict[w] # NoVerdict
    BY <1>8 DEF NoVerdict
  <2>2. now < verdict[w].at + ReqTimeout
    BY <2>1 DEF Advance
  <2>3. verdict[w].at \in Nat
    BY <1>1 DEF AsksTyped
  <2>4. QED BY <1>2, <1>3, <2>2, <2>3 DEF Assumptions, TimeoutsAssumption
<1>9. now <= now'
  BY <1>2, <1>3
<1>10. IInv'
  BY <1>2, <1>4, <1>6, <1>7, <1>8, <1>9, NewerEvidence
<1>11. Contract!Tick
  BY DEF Advance, Tick, Contract!Tick, Rights, Contract!Rights
<1>12. CStep
  BY <1>2, <1>11, CSameStates DEF Contract!Next, CStep
<1>13. QED BY <1>10, <1>12

-----------------------------------------------------------------------------
LEMMA ServeInv ==
  ASSUME Assumptions, IInv, NEW w \in Workers, Serve(w)
  PROVE  IInv' /\ CStep
BY RefuseHeadersInv, CheckTokenInv, JudgeTokenInv, RetryInv, ReceiveTokenInv,
   ReadKeyInv, AuthoriseInv, JudgeListInv, ReceiveListInv, ForwardInv DEF Serve

LEMMA NextInv ==
  ASSUME Assumptions, IInv, Next
  PROVE  IInv' /\ CStep
<1>1. ASSUME NEW w \in Workers, NEW u \in Users, NEW scheme \in Schemes, NEW type \in Types,
             Arrive(w, u, scheme, type)
      PROVE  IInv' /\ CStep
  BY <1>1, ArriveInv
<1>2. ASSUME NEW w \in Workers, Serve(w)
      PROVE  IInv' /\ CStep
  BY <1>2, ServeInv
<1>3. ASSUME NEW c \in Caches, Restart(c)
      PROVE  IInv' /\ CStep
  BY <1>3, RestartInv
<1>4. ASSUME NEW r \in Rights, Change(r), UNCHANGED <<workerVars, cacheVars>>
      PROVE  IInv' /\ CStep
  BY <1>4, ChangeInv
<1>5. CASE Advance
  BY <1>5, AdvanceInv
<1>6. QED BY <1>1, <1>2, <1>3, <1>4, <1>5 DEF Next

LEMMA StutterInv ==
  ASSUME IInv, UNCHANGED vars
  PROVE  IInv' /\ CStep
<1>1. /\ UNCHANGED rightsVars /\ UNCHANGED workerVars /\ UNCHANGED cacheVars
  BY DEF vars
<1>2. UNCHANGED <<now, holds, lastHeld, lastLacked>>
  BY <1>1 DEF rightsVars
<1>3. UNCHANGED <<pc, request, tries, verdict, tokens, lists>>
  BY <1>1 DEF workerVars, askVars, cacheVars
<1>4. TypeOK'
  BY <1>2, <1>3 DEF IInv, TypeOK, Busy
<1>5. RightsOK' /\ TokensOK' /\ ListsOK'
  BY <1>2, <1>3 DEF IInv, RightsOK, TokensOK, ListsOK
<1>6. ASSUME NEW w \in Workers PROVE WorkerOK(w)'
  <2>1. WorkerOK(w) /\ VerdictOK(w)
    BY DEF IInv, WorkerOK
  <2>2. VerdictOK(w)'
    BY <1>2, <1>3, <2>1 DEF VerdictOK, User
  <2>3. QED BY <1>2, <1>3, <2>1, <2>2 DEF WorkerOK, Busy, IsKnown
<1>7. CStep
  BY <1>1, <1>2, CSameStates DEF CStep, Contract!contractVars, Contract!rightsVars
<1>8. QED BY <1>4, <1>5, <1>6, <1>7 DEF IInv

LEMMA InitInContract == Init => Contract!Init
<1> SUFFICES ASSUME Init PROVE Contract!Init
  OBVIOUS
<1>1. Contract!RightsInit
  BY DEF Init, RightsInit, Contract!RightsInit, Rights, Contract!Rights
<1>2. [w \in Workers |-> State(w)] = [w \in Workers |-> "idle"]
  BY DEF Init, State, Busy
<1>3. request = [w \in Workers |-> Contract!NoRequest]
  BY DEF Init, NoRequest, Contract!NoRequest
<1>4. QED BY <1>1, <1>2, <1>3 DEF Contract!Init

LEMMA TheAssumptions == Assumptions
BY WorkersAssumption, TimeoutsAssumption, TriesAssumption DEF Assumptions

LEMMA Invariant == Spec => []IInv
<1>1. Init => IInv
  BY InitInv, TheAssumptions
<1>2. IInv /\ [Next]_vars => IInv'
  BY NextInv, StutterInv, TheAssumptions
<1>3. QED BY <1>1, <1>2, PTL DEF Spec

(* The variables of aviso-auth keep their types: a request is tried at most *)
(* MaxTries times, and whoever works has a request.                         *)
THEOREM TypeCorrect == Spec => []TypeOK
<1>1. IInv => TypeOK
  BY DEF IInv
<1>2. QED BY <1>1, Invariant, PTL

(* aviso-auth with its caches, late replies, retries and restarts is a     *)
(* proxy that admits and refuses only for reasons that were true at most a *)
(* cache timeout and a request timeout before the request arrived.         *)
THEOREM ProxyKeepsContract == Spec => ImplementsContract
<1>1. Init => Contract!Init
  BY InitInContract
<1>2. IInv /\ [Next]_vars => [Contract!Next]_(Contract!contractVars)
  BY NextInv, StutterInv, TheAssumptions DEF CStep
<1>3. QED BY <1>1, <1>2, Invariant, PTL DEF Spec, ImplementsContract, Contract!Spec
=============================================================================
