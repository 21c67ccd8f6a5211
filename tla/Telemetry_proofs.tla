-------------------------- MODULE Telemetry_proofs --------------------------
(***************************************************************************)
(* Proofs about Telemetry, for any users, threads of scrapes and bounds.   *)
(***************************************************************************)
EXTENDS Telemetry, TLAPS

LEMMA InsideOne ==
  ASSUME NEW d, d.kind # "users"
  PROVE  Inside({d}) = d.items
BY DEF Inside

LEMMA InsideFacts ==
  ASSUME NEW A \in SUBSET Datagrams, NEW B \in SUBSET Datagrams
  PROVE  /\ Inside(A) \subseteq Samples \cup Users
         /\ Inside(A \cup B) = Inside(A) \cup Inside(B)
         /\ Inside(A) \subseteq Inside(B) \cup Inside(A \ B)
         /\ Inside({}) = {}
<1>1. \A D \in SUBSET Datagrams : \A i :
        i \in Inside(D) <=> \E d \in D : d.kind # "users" /\ i \in d.items
  BY DEF Inside
<1>2. \A d \in Datagrams : d.items \subseteq Samples \cup Users
  BY DEF Datagrams
<1>3. A \cup B \in SUBSET Datagrams /\ A \ B \in SUBSET Datagrams /\ {} \in SUBSET Datagrams
  OBVIOUS
<1>4. Inside(A) \subseteq Samples \cup Users
  BY <1>1, <1>2
<1>5. Inside(A \cup B) = Inside(A) \cup Inside(B)
  BY <1>1, <1>3
<1>6. Inside(A) \subseteq Inside(B) \cup Inside(A \ B)
  BY <1>1, <1>3
<1>7. Inside({}) = {}
  BY <1>1, <1>3
<1> QED
  BY <1>4, <1>5, <1>6, <1>7

LEMMA InitTypeOK == Init => TypeOK
<1> SUFFICES ASSUME Init PROVE TypeOK
  OBVIOUS
<1>1. job \in Steps \X Reported
  BY DEF Init, Idle, Steps, Reported
<1> QED
  BY <1>1, BoundsAssumption
     DEF Init, TypeOK, Collected, Reported, Kinds, Tokens, Datagrams

LEMMA MessageType ==
  ASSUME TypeOK, NEW k \in Collected
  PROVE  Message(k) \in Datagrams
BY BoundsAssumption DEF TypeOK, Message, Datagrams, Kinds, Collected

LEMMA NextTypeOK == TypeOK /\ [Next]_vars => TypeOK'
<1> SUFFICES ASSUME TypeOK, [Next]_vars PROVE TypeOK'
  OBVIOUS
<1> USE DEF TypeOK, collectorVars, receiverVars, jobVars
<1>j. \A s \in Steps, k \in Reported : <<s, k>> \in Steps \X Reported
  OBVIOUS
<1>k. /\ "time" \in Reported /\ "error" \in Reported
      /\ {"copy", "clear", "login", "post", "relogin"} = Steps
      /\ "time" \in Kinds /\ "error" \in Kinds /\ "users" \in Kinds
      /\ Reported \subseteq Kinds /\ Collected \subseteq Kinds
      /\ "time" \in Collected /\ "users" \in Collected
  BY DEF Reported, Steps, Kinds, Collected
<1>n. MaxSamples \in Nat /\ MaxTime \in Nat /\ MaxExpiries \in Nat
  BY BoundsAssumption
<1>i. \A D \in SUBSET Datagrams : Inside(D) \subseteq Samples \cup Users
  BY InsideFacts
<1>1. CASE CollectTime
  <2>1. made + 1 \in Samples /\ made' \in 0..MaxSamples
    BY <1>1, <1>n DEF CollectTime, Samples
  <2>2. buffer' \in [Collected -> SUBSET (Samples \cup Users)]
    BY <1>1, <2>1 DEF CollectTime
  <2> QED
    BY <1>1, <2>1, <2>2 DEF CollectTime
<1>2. CASE LogError
  <2>1. made + 1 \in Samples /\ made' \in 0..MaxSamples
    BY <1>2, <1>n DEF LogError, Samples
  <2>2. [kind |-> "error", items |-> {made + 1}, time |-> 0] \in Datagrams
    BY <2>1, <1>k DEF Datagrams
  <2> QED
    BY <1>2, <2>1, <2>2 DEF LogError
<1>3. ASSUME NEW u \in Users, CollectUser(u) PROVE TypeOK'
  <2>1. visits' \in 0..MaxSamples
    BY <1>3, <1>n DEF CollectUser
  <2>2. buffer' \in [Collected -> SUBSET (Samples \cup Users)]
    BY <1>3 DEF CollectUser
  <2> QED
    BY <1>3, <2>1, <2>2 DEF CollectUser
<1>4. ASSUME NEW k \in Collected, CopyBuffer(k) PROVE TypeOK'
  BY <1>4 DEF CopyBuffer
<1>5. ASSUME NEW k \in Collected, NEW sent \in BOOLEAN, Transmit(k, sent) PROVE TypeOK'
  <2>1. Message(k) \in Datagrams
    BY MessageType
  <2>2. network' \subseteq Datagrams /\ gone' \subseteq Samples \cup Users
    <3>1. Inside({Message(k)}) \subseteq Samples \cup Users
      BY <2>1, <1>i
    <3> QED
      BY <1>5, <2>1, <3>1 DEF Transmit
  <2>3. /\ buffer' \in [Collected -> SUBSET (Samples \cup Users)]
        /\ sending' \in [Collected -> SUBSET (Samples \cup Users)]
        /\ tx' \in [Collected -> {"wait", "copied"}]
        /\ exposed' \subseteq Samples \cup Users
    BY <1>5 DEF Transmit
  <2> QED
    BY <1>5, <2>2, <2>3 DEF Transmit
<1>6. ASSUME NEW d \in network, Lose(d) PROVE TypeOK'
  <2>1. Inside({d}) \subseteq Samples \cup Users
    BY <1>i
  <2> QED
    BY <1>6, <2>1 DEF Lose
<1>7. ASSUME NEW d \in network, Receive(d) PROVE TypeOK'
  BY <1>7 DEF Receive
<1>8. ASSUME NEW d \in held, Append(d) PROVE TypeOK'
  <2>1. d \in Datagrams /\ d.kind \in Kinds
    BY DEF Datagrams
  <2>2. incoming' \in [Kinds -> SUBSET Datagrams]
    BY <1>8, <2>1 DEF Append
  <2> QED
    BY <1>8, <2>1, <2>2 DEF Append
<1>9. ASSUME NEW s \in Scrapers, FilterUsers(s) PROVE TypeOK'
  <2>1. {d \in incoming["users"] : InWindow(d)} \in SUBSET Datagrams
    BY <1>k
  <2> QED
    BY <1>9, <2>1 DEF FilterUsers
<1>10. ASSUME NEW s \in Scrapers, SetUsers(s) PROVE TypeOK'
  <2>1. scrape[s].list \in SUBSET Datagrams
    OBVIOUS
  <2>2. incoming' \in [Kinds -> SUBSET Datagrams]
    BY <1>10, <2>1 DEF SetUsers
  <2>3. fresh' \in BOOLEAN
    BY <1>10 DEF SetUsers
  <2>4. scrape' \in [Scrapers -> [pending : BOOLEAN, list : SUBSET Datagrams]]
    BY <1>10 DEF SetUsers
  <2> QED
    BY <1>10, <2>2, <2>3, <2>4 DEF SetUsers
<1>11. ASSUME NEW k \in Reported, CopyIncoming(k) PROVE TypeOK'
  BY <1>11, <1>j, <1>k DEF CopyIncoming
<1>12. ASSUME NEW k \in Reported, ClearIncoming(k) PROVE TypeOK'
  <2>1. incoming[k] \ taken[k] \in SUBSET Datagrams
    BY <1>k
  <2>2. exposed' \subseteq Samples \cup Users
    BY <1>12, <1>i, <2>1 DEF ClearIncoming
  <2>3. job' \in Steps \X Reported
    BY <1>12, <1>j, <1>k DEF ClearIncoming
  <2>4. incoming' \in [Kinds -> SUBSET Datagrams]
    BY <1>12, <1>k DEF ClearIncoming
  <2> QED
    BY <1>12, <2>2, <2>3, <2>4 DEF ClearIncoming
<1>13. CASE Login
  <2>1. taken["time"] \cup taken["error"] \in SUBSET Datagrams
    BY <1>k
  <2>2. Inside(taken["time"] \cup taken["error"]) \subseteq Samples \cup Users
    BY <2>1, <1>i
  <2>3. CASE GiveUp
    BY <1>13, <2>2, <2>3, <1>j, <1>k DEF Login, GiveUp, Idle
  <2>4. ASSUME NEW t \in Tokens, UseToken(t) PROVE TypeOK'
    BY <1>13, <2>4, <1>j, <1>k DEF Login, UseToken
  <2> QED
    BY <1>13, <2>3, <2>4 DEF Login, Tokens
<1>14. ASSUME NEW k \in Reported, Post(k) PROVE TypeOK'
  <2>1. Inside(taken[k]) \subseteq Samples \cup Users
    BY <1>i
  <2>2. Posted(k) => /\ taken' \in [Reported -> SUBSET Datagrams]
                     /\ job' \in Steps \X Reported
                     /\ trying' \in Tokens
    BY <1>j, <1>k DEF Posted, Idle
  <2> QED
    BY <1>14, <2>1, <2>2, <1>j, <1>k DEF Post
<1>15. ASSUME NEW k \in Reported, Relogin(k) PROVE TypeOK'
  <2>1. Inside(taken[k]) \subseteq Samples \cup Users
    BY <1>i
  <2>2. Posted(k) => /\ taken' \in [Reported -> SUBSET Datagrams]
                     /\ job' \in Steps \X Reported
                     /\ trying' \in Tokens
    BY <1>j, <1>k DEF Posted, Idle
  <2>3. "valid" \in Tokens
    BY DEF Tokens
  <2> QED
    BY <1>15, <2>1, <2>2, <2>3, <1>j, <1>k DEF Relogin
<1>16. CASE ExpireTokens
  <2>1. expiries' \in 0..MaxExpiries
    BY <1>16, <1>n DEF ExpireTokens
  <2> QED
    BY <1>16, <2>1 DEF ExpireTokens, Tokens
<1>17. CASE Tick
  BY <1>17, <1>n DEF Tick
<1>18. CASE UNCHANGED vars
  BY <1>18 DEF vars
<1> QED
  BY <1>1, <1>2, <1>3, <1>4, <1>5, <1>6, <1>7, <1>8, <1>9, <1>10, <1>11, <1>12,
     <1>13, <1>14, <1>15, <1>16, <1>17, <1>18
     DEF Next, Collector, Transmitter, UdpServer, Scraper, Reporter

(* The variables of Telemetry have their types. *)
THEOREM TypeCorrect == Spec => []TypeOK
BY InitTypeOK, NextTypeOK, PTL DEF Spec

-----------------------------------------------------------------------------
(***************************************************************************)
(* The users.  A datagram of kept is not only in the list of the Receiver: *)
(* it is also in the list of every scrape that is about to replace it.     *)
(***************************************************************************)
KeptInv ==
  \A d \in kept :
    /\ d.kind = "users"
    /\ InWindow(d) => /\ d \in incoming["users"]
                      /\ \A s \in Scrapers : scrape[s].pending => d \in scrape[s].list

LEMMA NextKeptInv == TypeOK /\ KeptInv /\ [Next]_vars => KeptInv'
<1> SUFFICES ASSUME TypeOK, KeptInv, [Next]_vars PROVE KeptInv'
  OBVIOUS
<1> USE DEF KeptInv, InWindow, collectorVars, receiverVars, jobVars
<1>1. CASE UNCHANGED <<incoming, kept, scrape, now>>
  BY <1>1
<1>2. ASSUME NEW d \in held, Append(d) PROVE KeptInv'
  <2>1. d.kind \in Kinds /\ incoming \in [Kinds -> SUBSET Datagrams]
    BY DEF TypeOK, Datagrams
  <2>2. /\ UNCHANGED <<scrape, now>>
        /\ incoming["users"] \subseteq incoming'["users"]
        /\ fresh /\ d.kind = "users" => d \in incoming'["users"]
    <3>1. UNCHANGED <<scrape, now>>
      BY <1>2 DEF Append
    <3>2. "users" \in Kinds
      BY DEF Kinds, Collected
    <3>3. CASE fresh
      <4>1. incoming' = [incoming EXCEPT ![d.kind] = @ \cup {d}]
        BY <1>2, <3>3 DEF Append
      <4> QED
        BY <4>1, <2>1, <3>1, <3>2
    <3>4. CASE ~ fresh
      BY <1>2, <3>1, <3>4 DEF Append
    <3> QED
      BY <3>3, <3>4, <2>1 DEF TypeOK
  <2>3. ASSUME NEW e \in kept'
        PROVE  \/ e \in kept
               \/ e = d /\ fresh /\ d.kind = "users" /\ \A s \in Scrapers : ~ scrape[s].pending
    BY <1>2 DEF Append
  <2> QED
    BY <2>2, <2>3
<1>3. ASSUME NEW s \in Scrapers, FilterUsers(s) PROVE KeptInv'
  BY <1>3 DEF FilterUsers, TypeOK
<1>4. ASSUME NEW s \in Scrapers, SetUsers(s) PROVE KeptInv'
  <2>1. incoming'["users"] = scrape[s].list
    BY <1>4 DEF SetUsers, TypeOK, Kinds, Collected
  <2>2. \A r \in Scrapers : scrape'[r].pending => scrape'[r] = scrape[r]
    BY <1>4 DEF SetUsers, TypeOK
  <2> QED
    BY <1>4, <2>1, <2>2 DEF SetUsers
<1>5. ASSUME NEW k \in Reported, ClearIncoming(k) PROVE KeptInv'
  BY <1>5 DEF ClearIncoming, TypeOK, Kinds, Reported, Collected
<1>6. CASE Tick
  BY <1>6, BoundsAssumption DEF Tick, TypeOK, Datagrams
<1>7. ASSUME NEW d \in network, Lose(d) \/ Receive(d) PROVE UNCHANGED <<incoming, kept, scrape, now>>
  BY <1>7 DEF Lose, Receive
<1>8. ASSUME NEW k \in Collected, NEW sent \in BOOLEAN, CopyBuffer(k) \/ Transmit(k, sent)
      PROVE UNCHANGED <<incoming, kept, scrape, now>>
  BY <1>8 DEF CopyBuffer, Transmit
<1>9. ASSUME NEW k \in Reported, CopyIncoming(k) \/ Post(k) \/ Relogin(k)
      PROVE UNCHANGED <<incoming, kept, scrape, now>>
  BY <1>9 DEF CopyIncoming, Post, Relogin
<1>10. CASE CollectTime \/ LogError \/ Login \/ ExpireTokens \/ UNCHANGED vars
  BY <1>10, <1>1 DEF CollectTime, LogError, Login, ExpireTokens, vars
<1>11. ASSUME NEW u \in Users, CollectUser(u) PROVE UNCHANGED <<incoming, kept, scrape, now>>
  BY <1>11 DEF CollectUser
<1> HIDE DEF KeptInv
<1> QED
  BY <1>1, <1>2, <1>3, <1>4, <1>5, <1>6, <1>7, <1>8, <1>9, <1>10, <1>11
     DEF Next, Collector, Transmitter, UdpServer, Scraper, Reporter

(* For any number of scrapes at once: a users' datagram that came while    *)
(* none was running is in the list until it leaves the retention window    *)
(* (UsersCounter.metric, Receiver.set_incoming_tlms).                      *)
THEOREM NoUserIsMissed == Spec => []NoUserMissed
<1>1. Init => KeptInv
  BY DEF Init, KeptInv
<1>2. KeptInv => NoUserMissed
  BY DEF KeptInv, NoUserMissed
<1> QED
  BY TypeCorrect, <1>1, <1>2, NextKeptInv, PTL DEF Spec

-----------------------------------------------------------------------------
(***************************************************************************)
(* The times and the errors.  What makes Conserved inductive is that a     *)
(* list taken by the reporter is posted before the next one is taken.      *)
(***************************************************************************)
TakenInv ==
  /\ job \in {<<"copy", "time">>, <<"clear", "time">>, <<"copy", "error">>} => taken["error"] = {}
  /\ job = <<"copy", "time">> => taken["time"] = {}
  /\ job[1] \in {"post", "relogin"} /\ job[2] = "error" => taken["time"] = {}
  /\ job[1] = "login" => job[2] = "time"

(* What the server thread holds is one datagram, and only a list of users   *)
(* is ever replaced                                                         *)
HeldInv ==
  /\ \A d, e \in held : d = e
  /\ fresh \/ \A d \in held : d.kind = "users"

LEMMA NextHeldInv == HeldInv /\ [Next]_vars => HeldInv'
<1> SUFFICES ASSUME HeldInv, [Next]_vars PROVE HeldInv'
  OBVIOUS
<1> USE DEF HeldInv, collectorVars, receiverVars, jobVars
<1>1. CASE UNCHANGED <<held, fresh>>
  BY <1>1
<1>2. ASSUME NEW d \in network, Receive(d) PROVE HeldInv'
  BY <1>2 DEF Receive
<1>3. ASSUME NEW d \in held, Append(d) PROVE HeldInv'
  BY <1>3 DEF Append
<1>4. ASSUME NEW s \in Scrapers, SetUsers(s) PROVE HeldInv'
  <2>1. UNCHANGED held /\ fresh' = (fresh /\ \A d \in held : d.kind # "users")
    BY <1>4 DEF SetUsers
  <2>2. CASE fresh'
    BY <2>1, <2>2
  <2>3. CASE ~ fresh'
    <3>1. \/ ~ fresh
          \/ \E d \in held : d.kind = "users"
      BY <2>1, <2>3
    <3> QED
      BY <2>1, <3>1
  <2> QED
    BY <2>2, <2>3
<1>5. CASE ~ (UdpServer \/ \E s \in Scrapers : SetUsers(s))
  BY <1>1, <1>5 DEF Next, Collector, Transmitter, UdpServer, Scraper, Reporter, CollectTime,
     LogError, CollectUser, CopyBuffer, Transmit, Lose, FilterUsers, CopyIncoming,
     ClearIncoming, Login, Post, Relogin, ExpireTokens, Tick, vars
<1> HIDE DEF HeldInv
<1> QED
  BY <1>2, <1>3, <1>4, <1>5 DEF UdpServer

LEMMA NextTakenInv == TypeOK /\ TakenInv /\ [Next]_vars => TakenInv'
<1> SUFFICES ASSUME TypeOK, TakenInv, [Next]_vars PROVE TakenInv'
  OBVIOUS
<1> USE DEF TakenInv, TypeOK, collectorVars, receiverVars, jobVars, Reported
<1>1. CASE UNCHANGED <<job, taken>>
  BY <1>1
<1>2. ASSUME NEW k \in Reported, CopyIncoming(k) PROVE TakenInv'
  BY <1>2 DEF CopyIncoming
<1>3. ASSUME NEW k \in Reported, ClearIncoming(k) PROVE TakenInv'
  BY <1>3 DEF ClearIncoming
<1>4. CASE Login
  BY <1>4 DEF Login, UseToken, GiveUp, Idle
<1>5. ASSUME NEW k \in Reported, Post(k) PROVE TakenInv'
  BY <1>5 DEF Post, Posted, Idle
<1>6. ASSUME NEW k \in Reported, Relogin(k) PROVE TakenInv'
  BY <1>6 DEF Relogin, Posted, Idle
<1>7. ASSUME ~ Reporter PROVE UNCHANGED <<job, taken>>
  BY <1>7 DEF Next, Collector, Transmitter, UdpServer, Scraper, CollectTime, LogError,
     CollectUser, CopyBuffer, Transmit, Lose, Receive, Append, FilterUsers, SetUsers,
     ExpireTokens, Tick, vars
<1> HIDE DEF TakenInv
<1> QED
  BY <1>1, <1>2, <1>3, <1>4, <1>5, <1>6, <1>7 DEF Reporter

(* The places one by one; the lists taken count once they have been cleared *)
LEMMA PlaceOf ==
  ASSUME NEW i
  PROVE  i \in UNION {Places[p] : p \in DOMAIN Places} <=>
           \/ i \in buffer["time"] \/ i \in Inside(network) \/ i \in Inside(held)
           \/ i \in Inside(incoming["time"] \cup incoming["error"])
           \/ \E k \in Reported : job # <<"clear", k>> /\ i \in Inside(taken[k])
           \/ i \in reported \/ i \in exposed \/ i \in gone
<1>1. DOMAIN Places = {"buffer", "network", "held", "incoming", "taken", "reported", "exposed", "gone"}
  BY DEF Places
<1>2. /\ Places["buffer"] = buffer["time"] /\ Places["network"] = Inside(network)
      /\ Places["held"] = Inside(held)
      /\ Places["incoming"] = Inside(incoming["time"] \cup incoming["error"])
      /\ Places["taken"] = UNION {Inside(taken[k]) : k \in Extracted}
      /\ Places["reported"] = reported /\ Places["exposed"] = exposed /\ Places["gone"] = gone
  BY DEF Places
<1>3. i \in UNION {Places[p] : p \in DOMAIN Places} <=> \E p \in DOMAIN Places : i \in Places[p]
  OBVIOUS
<1>4. i \in Places["taken"] <=> \E k \in Reported : job # <<"clear", k>> /\ i \in Inside(taken[k])
  BY <1>2 DEF Extracted
<1> HIDE DEF Places
<1> QED
  BY <1>1, <1>2, <1>3, <1>4

(* Where a sample is, as the proof of Conserved splits it *)
At(i) ==
  \/ i \in buffer["time"] \/ i \in Inside(network) \/ i \in Inside(held)
  \/ i \in Inside(incoming["time"]) \/ i \in Inside(incoming["error"])
  \/ job # <<"clear", "time">> /\ i \in Inside(taken["time"])
  \/ job # <<"clear", "error">> /\ i \in Inside(taken["error"])
  \/ i \in reported \/ i \in exposed \/ i \in gone

LEMMA ConservedAt == TypeOK => (Conserved <=> \A i \in 1..made : At(i))
<1> SUFFICES ASSUME TypeOK PROVE Conserved <=> \A i \in 1..made : At(i)
  OBVIOUS
<1>1. incoming["time"] \in SUBSET Datagrams /\ incoming["error"] \in SUBSET Datagrams
  BY DEF TypeOK, Kinds, Collected, Reported
<1>2. Inside(incoming["time"] \cup incoming["error"]) =
        Inside(incoming["time"]) \cup Inside(incoming["error"])
  BY <1>1, InsideFacts
<1>3. \A i : At(i) <=> i \in UNION {Places[p] : p \in DOMAIN Places}
  BY <1>2, PlaceOf DEF At, Reported
<1> QED
  BY <1>3 DEF Conserved

LEMMA NextAt ==
  ASSUME TypeOK, TakenInv, HeldInv, [Next]_vars, NEW i \in Nat, i \in 1..made => At(i), i \in 1..made'
  PROVE  At(i)'
<1> USE DEF At, collectorVars, receiverVars, jobVars
<1>t. /\ made \in Nat
      /\ incoming \in [Kinds -> SUBSET Datagrams] /\ taken \in [Reported -> SUBSET Datagrams]
      /\ network \in SUBSET Datagrams /\ held \in SUBSET Datagrams
      /\ buffer \in [Collected -> SUBSET (Samples \cup Users)]
      /\ sending \in [Collected -> SUBSET (Samples \cup Users)]
  BY DEF TypeOK
<1>k. /\ Collected = {"time", "users"} /\ Reported = {"time", "error"}
      /\ Kinds = {"time", "users", "error"}
  BY DEF Collected, Reported, Kinds
<1>u. \A A, B \in SUBSET Datagrams : /\ Inside(A \cup B) = Inside(A) \cup Inside(B)
                                     /\ Inside(A) \subseteq Inside(B) \cup Inside(A \ B)
                                     /\ Inside({}) = {}
  BY InsideFacts
<1>1. CASE CollectTime
  BY <1>1, <1>t, <1>k DEF CollectTime
<1>2. CASE LogError
  <2> DEFINE d == [kind |-> "error", items |-> {made + 1}, time |-> 0]
  <2>1. i \in 1..made \/ i \in Inside({d})
    <3>1. d.kind # "users" /\ d.items = {made + 1}
      OBVIOUS
    <3>2. Inside({d}) = {made + 1}
      BY <3>1, InsideOne
    <3>3. i \in 1..made \/ i = made + 1
      BY <1>2, <1>t DEF LogError
    <3> QED
      BY <3>2, <3>3
  <2>2. made + 1 \in Samples
    BY <1>2, BoundsAssumption DEF LogError, Samples, TypeOK
  <2>3. {d} \in SUBSET Datagrams
    BY <2>2, <1>k DEF Datagrams
  <2>4. Inside(network') = Inside(network) \cup Inside({d})
    BY <1>2, <1>u, <1>t, <2>3 DEF LogError
  <2> HIDE DEF d
  <2> QED
    BY <1>2, <2>1, <2>4 DEF LogError
<1>3. ASSUME NEW u \in Users, CollectUser(u) PROVE At(i)'
  BY <1>3, <1>t, <1>k DEF CollectUser
<1>4. ASSUME NEW k \in Collected, CopyBuffer(k) PROVE At(i)'
  BY <1>4 DEF CopyBuffer
<1>5. ASSUME NEW k \in Collected, NEW sent \in BOOLEAN, Transmit(k, sent) PROVE At(i)'
  <2>1. {Message(k)} \in SUBSET Datagrams
    BY MessageType
  <2>2. k = "time" => Inside({Message(k)}) = sending["time"]
    <3>1. Message(k).kind = k /\ Message(k).items = sending[k]
      BY DEF Message
    <3> QED
      BY <3>1, InsideOne
  <2>3. \/ gone' = gone \cup Inside({Message(k)}) /\ network' = network
        \/ gone' = gone /\ network' = network \cup {Message(k)}
    BY <1>5 DEF Transmit
  <2>4. Inside(network \cup {Message(k)}) = Inside(network) \cup Inside({Message(k)})
    BY <2>1, <1>u, <1>t
  <2>5. /\ Inside({Message(k)}) \subseteq gone' \cup Inside(network')
        /\ gone \subseteq gone' /\ Inside(network) \subseteq Inside(network')
    <3>1. CASE gone' = gone \cup Inside({Message(k)}) /\ network' = network
      BY <3>1
    <3>2. CASE gone' = gone /\ network' = network \cup {Message(k)}
      BY <3>2, <2>4
    <3> QED
      BY <2>3, <3>1, <3>2
  <2>6. CASE k = "time"
    <3>1. buffer["time"] \subseteq exposed' \cup sending["time"]
      BY <1>5, <2>6 DEF Transmit
    <3>2. UNCHANGED <<made, held, incoming, taken, job, reported>> /\ exposed \subseteq exposed'
      BY <1>5 DEF Transmit
    <3> QED
      BY <3>1, <3>2, <2>2, <2>5, <2>6
  <2>7. CASE k = "users"
    <3>1. UNCHANGED <<made, held, incoming, taken, job, reported, exposed>>
      BY <1>5, <2>7 DEF Transmit
    <3>2. buffer'["time"] = buffer["time"]
      BY <1>5, <2>7, <1>t, <1>k DEF Transmit
    <3> QED
      BY <3>1, <3>2, <2>5
  <2> QED
    BY <2>6, <2>7, <1>k
<1>6. ASSUME NEW d \in network, Lose(d) PROVE At(i)'
  <2>1. {d} \in SUBSET Datagrams /\ network' = network \ {d} /\ gone' = gone \cup Inside({d})
    BY <1>6, <1>t DEF Lose
  <2>2. Inside(network) \subseteq Inside({d}) \cup Inside(network')
    BY <2>1, <1>u, <1>t
  <2> QED
    BY <1>6, <2>1, <2>2 DEF Lose
<1>7. ASSUME NEW d \in network, Receive(d) PROVE At(i)'
  <2>1. {d} \in SUBSET Datagrams /\ network' = network \ {d} /\ held = {} /\ held' = {d}
    BY <1>7, <1>t DEF Receive
  <2>2. Inside(network) \subseteq Inside(held') \cup Inside(network') /\ Inside(held) = {}
    BY <2>1, <1>u, <1>t
  <2> QED
    BY <1>7, <2>1, <2>2 DEF Receive
<1>8. ASSUME NEW d \in held, Append(d) PROVE At(i)'
  <2>1. d \in Datagrams /\ d.kind \in Kinds /\ held' = {} /\ held = {d}
    BY <1>8, <1>t DEF Append, Datagrams, HeldInv
  <2>2. CASE d.kind = "users"
    <3>1. Inside(held) = {}
      BY <2>1, <2>2 DEF Inside
    <3>2. incoming'["time"] = incoming["time"] /\ incoming'["error"] = incoming["error"]
      BY <1>8, <2>2, <1>t DEF Append
    <3> QED
      BY <1>8, <3>1, <3>2 DEF Append
  <2>3. CASE d.kind # "users"
    <3>1. incoming' = [incoming EXCEPT ![d.kind] = @ \cup {d}]
      BY <1>8, <2>1, <2>3 DEF Append, HeldInv
    <3>2. incoming'[d.kind] = incoming[d.kind] \cup {d}
      BY <3>1, <2>1, <1>t
    <3>3. Inside(incoming'[d.kind]) = Inside(incoming[d.kind]) \cup Inside(held)
      <4>1. incoming[d.kind] \in SUBSET Datagrams /\ {d} \in SUBSET Datagrams
        BY <2>1, <1>t
      <4>2. Inside(incoming[d.kind] \cup {d}) = Inside(incoming[d.kind]) \cup Inside({d})
        BY <4>1, <1>u
      <4> QED
        BY <3>2, <4>2, <2>1
    <3>4. \A k \in Reported : Inside(incoming[k]) \subseteq Inside(incoming'[k])
      BY <3>1, <3>3, <1>t, <1>k
    <3>5. Inside(held) \subseteq Inside(incoming'["time"]) \cup Inside(incoming'["error"])
      BY <3>3, <2>1, <2>3, <1>k
    <3> QED
      BY <1>8, <3>4, <3>5, <1>k DEF Append
  <2> QED
    BY <2>2, <2>3
<1>9. ASSUME NEW s \in Scrapers, FilterUsers(s) \/ SetUsers(s) PROVE At(i)'
  <2>1. incoming'["time"] = incoming["time"] /\ incoming'["error"] = incoming["error"]
    BY <1>9, <1>t, <1>k DEF FilterUsers, SetUsers
  <2> QED
    BY <1>9, <2>1 DEF FilterUsers, SetUsers
<1>10. ASSUME NEW k \in Reported, CopyIncoming(k) PROVE At(i)'
  <2>1. Inside(taken[k]) = {}
    BY <1>10, <1>k, <1>u, <1>t DEF CopyIncoming, TakenInv
  <2>2. \A j \in Reported : j # k => taken'[j] = taken[j]
    BY <1>10, <1>t DEF CopyIncoming
  <2>3. job = <<"copy", k>> /\ job' = <<"clear", k>>
    BY <1>10 DEF CopyIncoming
  <2> QED
    BY <1>10, <2>1, <2>2, <2>3, <1>k DEF CopyIncoming
<1>11. ASSUME NEW k \in Reported, ClearIncoming(k) PROVE At(i)'
  <2>1. job = <<"clear", k>> /\ job' # <<"clear", k>> /\ taken' = taken
    BY <1>11, <1>k DEF ClearIncoming
  <2>2. Inside(incoming[k]) \subseteq Inside(taken[k]) \cup exposed'
    <3>1. incoming[k] \in SUBSET Datagrams /\ taken[k] \in SUBSET Datagrams
      BY <1>t, <1>k
    <3> QED
      BY <1>11, <1>u, <3>1 DEF ClearIncoming
  <2>3. \A j \in Reported : j # k => incoming'[j] = incoming[j] /\ job' # <<"clear", j>>
    BY <1>11, <1>t, <1>k DEF ClearIncoming
  <2>4. exposed \subseteq exposed'
    BY <1>11 DEF ClearIncoming
  <2> QED
    BY <1>11, <2>1, <2>2, <2>3, <2>4, <1>k DEF ClearIncoming
<1>12. CASE Login
  <2>1. job = <<"login", "time">> /\ job' # <<"clear", "time">> /\ job' # <<"clear", "error">>
    BY <1>12 DEF Login, UseToken, GiveUp, Idle
  <2>2. Inside(taken["time"] \cup taken["error"]) = Inside(taken["time"]) \cup Inside(taken["error"])
    BY <1>u, <1>t, <1>k
  <2>3. CASE GiveUp
    BY <1>12, <2>1, <2>2, <2>3 DEF Login, GiveUp
  <2>4. ASSUME NEW t \in Tokens, UseToken(t) PROVE At(i)'
    BY <1>12, <2>1, <2>4 DEF Login, UseToken
  <2> QED
    BY <1>12, <2>3, <2>4 DEF Login, Tokens, TypeOK
<1>13. ASSUME NEW k \in Reported, Posted(k), Inside(taken[k]) \subseteq reported' \cup gone'
       PROVE  /\ job' # <<"clear", "time">> /\ job' # <<"clear", "error">>
              /\ \A j \in Reported : i \in Inside(taken[j]) =>
                    i \in Inside(taken'[j]) \/ i \in reported' \/ i \in gone'
  <2>1. job' # <<"clear", "time">> /\ job' # <<"clear", "error">>
    BY <1>13 DEF Posted, Idle
  <2>2. \A j \in Reported : j # k => taken'[j] = taken[j]
    BY <1>13, <1>t DEF Posted
  <2> QED
    BY <1>13, <2>1, <2>2
<1>14. ASSUME NEW k \in Reported, Post(k) PROVE At(i)'
  <2>1. CASE UNCHANGED taken
    BY <1>14, <2>1, <1>k DEF Post, Posted, Idle
  <2>2. CASE Posted(k) /\ Inside(taken[k]) \subseteq reported' \cup gone'
    <3>1. reported \subseteq reported' /\ gone \subseteq gone'
      BY <1>14 DEF Post
    <3>2. UNCHANGED <<buffer, network, held, incoming, exposed, made>>
      BY <1>14 DEF Post
    <3> QED
      BY <1>13, <2>2, <3>1, <3>2, <1>k
  <2> QED
    BY <1>14, <2>1, <2>2 DEF Post
<1>15. ASSUME NEW k \in Reported, Relogin(k) PROVE At(i)'
  <2>1. CASE UNCHANGED taken /\ job' = <<"post", k>>
    BY <1>15, <2>1 DEF Relogin
  <2>2. CASE Posted(k) /\ Inside(taken[k]) \subseteq reported' \cup gone'
    <3>1. UNCHANGED <<buffer, network, held, incoming, exposed, made, reported>> /\ gone \subseteq gone'
      BY <1>15 DEF Relogin
    <3> QED
      BY <1>13, <2>2, <3>1, <1>k
  <2> QED
    BY <1>15, <2>1, <2>2 DEF Relogin
<1>16. CASE ExpireTokens \/ Tick \/ UNCHANGED vars
  BY <1>16 DEF ExpireTokens, Tick, vars
<1> QED
  BY <1>1, <1>2, <1>3, <1>4, <1>5, <1>6, <1>7, <1>8, <1>9, <1>10, <1>11, <1>12, <1>14, <1>15, <1>16
     DEF Next, Collector, Transmitter, UdpServer, Scraper, Reporter

(* A response time or an error that is lost was lost in the two windows    *)
(* between a copy and a clear, or by a fault: transmitter_cycle,           *)
(* process_message, extract_incoming_tlms and run lose no other.           *)
THEOREM NothingElseIsLost == Spec => []Conserved
<1>1. Init => TakenInv /\ HeldInv /\ Conserved
  <2>1. ASSUME Init PROVE made = 0
    BY <2>1 DEF Init
  <2> QED
    BY <2>1 DEF Init, TakenInv, HeldInv, Conserved, Idle, Reported
<1>2. TypeOK /\ TypeOK' /\ TakenInv /\ HeldInv /\ Conserved /\ [Next]_vars => Conserved'
  <2> SUFFICES ASSUME TypeOK, TypeOK', TakenInv, HeldInv, Conserved, [Next]_vars PROVE Conserved'
    OBVIOUS
  <2>1. \A i \in 1..made : At(i)
    BY ConservedAt
  <2>2. ASSUME NEW i \in 1..made' PROVE At(i)'
    <3>1. i \in Nat
      BY DEF TypeOK
    <3> QED
      BY NextAt, <2>1, <3>1
  <2>3. (TypeOK => (Conserved <=> \A i \in 1..made : At(i)))'
    BY ConservedAt, PTL
  <2> QED
    BY <2>2, <2>3
<1> QED
  BY TypeCorrect, <1>1, <1>2, NextTakenInv, NextHeldInv, PTL DEF Spec
-----------------------------------------------------------------------------
(***************************************************************************)
(* Every time and every error is counted once.  The datagrams on their way,*)
(* in the server thread, in the lists and with the reporter share nothing: *)
(* each was made from what its transmitter had just taken out of a buffer. *)
(***************************************************************************)
Carried == network \cup held \cup incoming["time"] \cup incoming["error"]
             \cup taken["time"] \cup taken["error"]

Unshared(D) ==
  \A d, e \in D :
     (d.kind # "users" /\ e.kind # "users" /\ d.items \cap e.items # {}) => d = e

LedgerInv ==
  /\ Unshared(Carried)
  /\ \A k \in Reported : \A d \in incoming[k] \cup taken[k] : d.kind = k
  /\ buffer["time"] \cup Inside(Carried) \cup reported \cup exposed \cup gone \subseteq 1..made
  /\ tx["time"] = "copied" => sending["time"] \subseteq buffer["time"]
  /\ \A k \in Reported : job = <<"clear", k>> => taken[k] \subseteq incoming[k]

LEMMA InsideMember ==
  ASSUME NEW D, NEW i
  PROVE  i \in Inside(D) <=> \E d \in D : d.kind # "users" /\ i \in d.items
BY DEF Inside

(* Parts of a set of datagrams that share nothing have nothing in common   *)
LEMMA PartsApart ==
  ASSUME NEW D, Unshared(D), NEW A, NEW B, A \subseteq D, B \subseteq D, A \cap B = {}
  PROVE  Inside(A) \cap Inside(B) = {}
BY InsideMember DEF Unshared

(* What is counted once stays so when the contents of a place shrink, when *)
(* something new is added to one, and when parts of one move to two others *)
Disjoint(P) == \A x, y \in DOMAIN P : x # y => P[x] \cap P[y] = {}

LEMMA Shrunk ==
  ASSUME NEW P, NEW Q, DOMAIN Q = DOMAIN P, Disjoint(P),
         \A x \in DOMAIN P : Q[x] \subseteq P[x]
  PROVE  Disjoint(Q)
BY DEF Disjoint

LEMMA Added ==
  ASSUME NEW P, NEW Q, DOMAIN Q = DOMAIN P, Disjoint(P), NEW q \in DOMAIN P, NEW i,
         \A x \in DOMAIN P : i \notin P[x],
         \A x \in DOMAIN P \ {q} : Q[x] \subseteq P[x], Q[q] \subseteq P[q] \cup {i}
  PROVE  Disjoint(Q)
BY DEF Disjoint

LEMMA Moved ==
  ASSUME NEW P, NEW Q, DOMAIN Q = DOMAIN P, Disjoint(P),
         NEW p \in DOMAIN P, NEW q \in DOMAIN P, NEW r \in DOMAIN P, p # q, p # r, q # r,
         NEW M, NEW N, M \subseteq P[p], N \subseteq P[p], M \cap N = {},
         Q[p] \subseteq P[p] \ (M \cup N), Q[q] \subseteq P[q] \cup M, Q[r] \subseteq P[r] \cup N,
         \A x \in DOMAIN P \ {p, q, r} : Q[x] \subseteq P[x]
  PROVE  Disjoint(Q)
<1>1. \A x, y \in DOMAIN P : \A i : x # y => ~ (i \in P[x] /\ i \in P[y])
  BY DEF Disjoint
<1>2. ASSUME NEW x \in DOMAIN P, NEW i, i \in Q[x]
      PROVE  \/ i \in P[x] /\ (x = p => i \notin M /\ i \notin N)
             \/ x = q /\ i \in M
             \/ x = r /\ i \in N
  BY <1>2
<1>3. \A i : (i \in M => i \in P[p]) /\ (i \in N => i \in P[p]) /\ ~ (i \in M /\ i \in N)
  OBVIOUS
<1>4. ASSUME NEW x \in DOMAIN P, NEW y \in DOMAIN P, x # y, NEW i, i \in Q[x], i \in Q[y]
      PROVE  FALSE
  BY <1>1, <1>2, <1>3, <1>4
<1> QED
  BY <1>4 DEF Disjoint

LEMMA MovedToOne ==
  ASSUME NEW P, NEW Q, DOMAIN Q = DOMAIN P, Disjoint(P),
         NEW p \in DOMAIN P, NEW q \in DOMAIN P, p # q, NEW M, M \subseteq P[p],
         Q[p] \subseteq P[p] \ M, Q[q] \subseteq P[q] \cup M,
         \A x \in DOMAIN P \ {p, q} : Q[x] \subseteq P[x]
  PROVE  Disjoint(Q)
BY DEF Disjoint

(* The places, one by one *)
Out(k) == IF job = <<"clear", k>> THEN {} ELSE Inside(taken[k])

LEMMA PlacesAre ==
  /\ DOMAIN Places = {"buffer", "network", "held", "incoming", "taken", "reported", "exposed", "gone"}
  /\ Places["buffer"] = buffer["time"]
  /\ Places["network"] = Inside(network)
  /\ Places["held"] = Inside(held)
  /\ Places["incoming"] = Inside(incoming["time"]) \cup Inside(incoming["error"])
  /\ Places["taken"] = Out("time") \cup Out("error")
  /\ Places["reported"] = reported
  /\ Places["exposed"] = exposed
  /\ Places["gone"] = gone
<1>1. Inside(incoming["time"] \cup incoming["error"]) =
        Inside(incoming["time"]) \cup Inside(incoming["error"])
  BY InsideMember
<1>2. UNION {Inside(taken[k]) : k \in Extracted} = Out("time") \cup Out("error")
  BY DEF Extracted, Reported, Out
<1> QED
  BY <1>1, <1>2 DEF Places

(* What is carried is in one of four places: a list that has been copied   *)
(* and not cleared is still in its place                                   *)
LEMMA CarriedFacts ==
  ASSUME TypeOK, LedgerInv
  PROVE  /\ Carried \in SUBSET Datagrams
         /\ Inside(Carried) \subseteq Places["network"] \cup Places["held"]
                                        \cup Places["incoming"] \cup Places["taken"]
         /\ Inside(incoming["time"]) \cap Inside(incoming["error"]) = {}
         /\ Inside(taken["time"]) \cap Inside(taken["error"]) = {}
<1>1. /\ incoming \in [Kinds -> SUBSET Datagrams] /\ taken \in [Reported -> SUBSET Datagrams]
      /\ network \in SUBSET Datagrams /\ held \in SUBSET Datagrams
      /\ Reported = {"time", "error"} /\ Kinds = {"time", "users", "error"}
  BY DEF TypeOK, Kinds, Collected, Reported
<1>2. \A k \in Reported : Inside(taken[k]) \subseteq Out(k) \cup Inside(incoming[k])
  <2> SUFFICES ASSUME NEW k \in Reported
               PROVE  Inside(taken[k]) \subseteq Out(k) \cup Inside(incoming[k])
    OBVIOUS
  <2>1. CASE job = <<"clear", k>>
    <3>1. taken[k] \subseteq incoming[k]
      BY <2>1 DEF LedgerInv
    <3> QED
      BY <3>1, InsideMember
  <2>2. CASE job # <<"clear", k>>
    BY <2>2 DEF Out
  <2> QED
    BY <2>1, <2>2
<1>3. Inside(Carried) = Inside(network) \cup Inside(held) \cup Inside(incoming["time"])
        \cup Inside(incoming["error"]) \cup Inside(taken["time"]) \cup Inside(taken["error"])
  BY InsideMember DEF Carried
<1>4. \A A, B : A \subseteq Carried /\ B \subseteq Carried /\ A \cap B = {}
                  => Inside(A) \cap Inside(B) = {}
  BY PartsApart DEF LedgerInv
<1>5. incoming["time"] \cap incoming["error"] = {} /\ taken["time"] \cap taken["error"] = {}
  BY <1>1 DEF LedgerInv
<1>6. Inside(incoming["time"]) \cap Inside(incoming["error"]) = {}
  BY <1>4, <1>5 DEF Carried
<1>7. Inside(taken["time"]) \cap Inside(taken["error"]) = {}
  BY <1>4, <1>5 DEF Carried
<1>8. Inside(Carried) \subseteq Places["network"] \cup Places["held"]
                                  \cup Places["incoming"] \cup Places["taken"]
  BY <1>1, <1>2, <1>3, PlacesAre
<1>9. Carried \in SUBSET Datagrams
  BY <1>1 DEF Carried
<1> QED
  BY <1>6, <1>7, <1>8, <1>9

LEMMA NextCountedOnce ==
  ASSUME TypeOK, TakenInv, HeldInv, LedgerInv, CountedOnce, [Next]_vars
  PROVE  CountedOnce'
<1> USE DEF collectorVars, receiverVars, jobVars
<1>t. /\ made \in Nat
      /\ incoming \in [Kinds -> SUBSET Datagrams] /\ taken \in [Reported -> SUBSET Datagrams]
      /\ network \in SUBSET Datagrams /\ held \in SUBSET Datagrams
      /\ buffer \in [Collected -> SUBSET (Samples \cup Users)]
      /\ sending \in [Collected -> SUBSET (Samples \cup Users)]
  BY DEF TypeOK
<1>k. /\ Collected = {"time", "users"} /\ Reported = {"time", "error"}
      /\ Kinds = {"time", "users", "error"}
  BY DEF Collected, Reported, Kinds
<1>p. PICK P : P = Places
  OBVIOUS
<1>q. PICK Q : Q = Places'
  OBVIOUS
<1>a. /\ DOMAIN P = {"buffer", "network", "held", "incoming", "taken", "reported", "exposed", "gone"}
      /\ P["buffer"] = buffer["time"]
      /\ P["network"] = Inside(network)
      /\ P["held"] = Inside(held)
      /\ P["incoming"] = Inside(incoming["time"]) \cup Inside(incoming["error"])
      /\ P["taken"] = Out("time") \cup Out("error")
      /\ P["reported"] = reported
      /\ P["exposed"] = exposed
      /\ P["gone"] = gone
  BY <1>p, PlacesAre
<1>b. /\ DOMAIN Q = DOMAIN P
      /\ Q["buffer"] = buffer'["time"]
      /\ Q["network"] = Inside(network')
      /\ Q["held"] = Inside(held')
      /\ Q["incoming"] = Inside(incoming'["time"]) \cup Inside(incoming'["error"])
      /\ Q["taken"] = Out("time")' \cup Out("error")'
      /\ Q["reported"] = reported'
      /\ Q["exposed"] = exposed'
      /\ Q["gone"] = gone'
  <2>1. /\ (DOMAIN Places = {"buffer", "network", "held", "incoming", "taken", "reported", "exposed", "gone"})'
        /\ (Places["buffer"] = buffer["time"])'
        /\ (Places["network"] = Inside(network))'
        /\ (Places["held"] = Inside(held))'
        /\ (Places["incoming"] = Inside(incoming["time"]) \cup Inside(incoming["error"]))'
        /\ (Places["taken"] = Out("time") \cup Out("error"))'
        /\ (Places["reported"] = reported)'
        /\ (Places["exposed"] = exposed)'
        /\ (Places["gone"] = gone)'
    BY PlacesAre, PTL
  <2>2. Inside(network)' = Inside(network') /\ Inside(held)' = Inside(held')
    BY DEF Inside
  <2>3. Inside(incoming["time"])' = Inside(incoming'["time"])
        /\ Inside(incoming["error"])' = Inside(incoming'["error"])
    BY DEF Inside
  <2> QED
    BY <1>a, <1>q, <2>1, <2>2, <2>3
<1>d. Disjoint(P)
  BY <1>p DEF CountedOnce, Disjoint
<1>g. Disjoint(Q) => CountedOnce'
  BY <1>q DEF CountedOnce, Disjoint
<1>o. /\ job' = job => Out("time")' = IF job = <<"clear", "time">> THEN {} ELSE Inside(taken'["time"])
      /\ job' = job => Out("error")' = IF job = <<"clear", "error">> THEN {} ELSE Inside(taken'["error"])
      /\ Out("time")' \subseteq Inside(taken'["time"])
      /\ Out("error")' \subseteq Inside(taken'["error"])
      /\ job' = job /\ taken' = taken => Q["taken"] = P["taken"]
  BY <1>a, <1>b DEF Out, Inside
<1>m. \A D, i : i \in Inside(D) <=> \E d \in D : d.kind # "users" /\ i \in d.items
  BY InsideMember
<1>u. \A A, B : A \subseteq Carried /\ B \subseteq Carried /\ A \cap B = {}
                  => Inside(A) \cap Inside(B) = {}
  BY PartsApart DEF LedgerInv
<1>c. /\ Inside(incoming["time"]) \cap Inside(incoming["error"]) = {}
      /\ Inside(taken["time"]) \cap Inside(taken["error"]) = {}
  BY CarriedFacts
<1>n. \A x \in DOMAIN P : P[x] \subseteq 1..made
  <2>1. \A i : i \in P["network"] \/ i \in P["held"] \/ i \in P["incoming"] \/ i \in P["taken"]
               => i \in Inside(Carried)
    BY <1>a, <1>m DEF Carried, Out
  <2> QED
    BY <1>a, <2>1 DEF LedgerInv
<1>s. ASSUME \A x \in DOMAIN P : Q[x] \subseteq P[x] PROVE CountedOnce'
  BY <1>s, <1>b, <1>d, <1>g, Shrunk
<1> HIDE <1>p, <1>q
<1>1. CASE CollectTime
  <2>1. Q["buffer"] \subseteq P["buffer"] \cup {made + 1}
    BY <1>1, <1>a, <1>b, <1>t, <1>k DEF CollectTime
  <2>2. \A x \in DOMAIN P \ {"buffer"} : Q[x] \subseteq P[x]
    BY <1>1, <1>a, <1>b, <1>o DEF CollectTime
  <2>3. \A x \in DOMAIN P : made + 1 \notin P[x]
    BY <1>n, <1>t
  <2> QED
    BY <2>1, <2>2, <2>3, <1>a, <1>b, <1>d, <1>g, Added
<1>2. CASE LogError
  <2>1. Q["network"] \subseteq P["network"] \cup {made + 1}
    BY <1>2, <1>a, <1>b, <1>m DEF LogError
  <2>2. \A x \in DOMAIN P \ {"network"} : Q[x] \subseteq P[x]
    BY <1>2, <1>a, <1>b, <1>o DEF LogError
  <2>3. \A x \in DOMAIN P : made + 1 \notin P[x]
    BY <1>n, <1>t
  <2> QED
    BY <2>1, <2>2, <2>3, <1>a, <1>b, <1>d, <1>g, Added
<1>3. ASSUME NEW u \in Users, CollectUser(u) PROVE CountedOnce'
  BY <1>3, <1>a, <1>b, <1>o, <1>t, <1>k, <1>s DEF CollectUser
<1>4. ASSUME NEW k \in Collected, CopyBuffer(k) PROVE CountedOnce'
  BY <1>4, <1>a, <1>b, <1>o, <1>s DEF CopyBuffer
<1>5. ASSUME NEW k \in Collected, NEW sent \in BOOLEAN, Transmit(k, sent) PROVE CountedOnce'
  <2>1. Message(k).kind = k /\ Message(k).items = sending[k]
    BY DEF Message
  <2>2. UNCHANGED <<held, incoming, job, taken, reported>>
    BY <1>5 DEF Transmit
  <2>3. CASE k = "users"
    <3>1. Inside({Message(k)}) = {}
      BY <1>m, <2>1, <2>3
    <3>2. Inside(network') \subseteq Inside(network)
      BY <1>5, <1>m, <2>1, <2>3 DEF Transmit
    <3>3. buffer'["time"] = buffer["time"] /\ exposed' = exposed /\ gone' = gone
      BY <1>5, <2>3, <3>1, <1>t, <1>k DEF Transmit
    <3> QED
      BY <1>a, <1>b, <1>o, <1>s, <2>2, <3>2, <3>3
  <2>4. CASE k = "time"
    <3>1. Inside({Message(k)}) = sending["time"]
      BY <2>1, <2>4, InsideOne
    <3> DEFINE M == sending["time"]
               N == buffer["time"] \ sending["time"]
    <3>m. M \subseteq P["buffer"] /\ N \subseteq P["buffer"] /\ M \cap N = {}
      <4>1. tx["time"] = "copied"
        BY <1>5, <2>4 DEF Transmit
      <4> QED
        BY <4>1, <1>a DEF LedgerInv
    <3>2. buffer'["time"] = {} /\ exposed' = exposed \cup (buffer["time"] \ sending["time"])
      BY <1>5, <2>4, <1>t, <1>k DEF Transmit
    <3>3. CASE sent
      <4>1. Inside(network') = Inside(network) \cup sending["time"] /\ gone' = gone
        <5>1. network' = network \cup {Message(k)} /\ gone' = gone
          BY <1>5, <3>3 DEF Transmit
        <5>2. Inside(network \cup {Message(k)}) = Inside(network) \cup Inside({Message(k)})
          BY <1>m
        <5> QED
          BY <3>1, <5>1, <5>2
      <4>2. /\ Q["buffer"] \subseteq P["buffer"] \ (M \cup N)
            /\ Q["network"] \subseteq P["network"] \cup M
            /\ Q["exposed"] \subseteq P["exposed"] \cup N
        BY <1>a, <1>b, <3>2, <4>1
      <4>3. \A x \in DOMAIN P \ {"buffer", "network", "exposed"} : Q[x] \subseteq P[x]
        BY <1>a, <1>b, <1>o, <2>2, <4>1
      <4>4. /\ "buffer" \in DOMAIN P /\ "network" \in DOMAIN P /\ "exposed" \in DOMAIN P
            /\ DOMAIN Q = DOMAIN P
        BY <1>a, <1>b
      <4> HIDE DEF M, N
      <4>5. Disjoint(Q)
        BY <4>2, <4>3, <4>4, <3>m, <1>d, Moved
      <4> QED
        BY <4>5, <1>g
    <3>4. CASE ~ sent
      <4>1. network' = network /\ gone' = gone \cup sending["time"]
        BY <1>5, <3>1, <3>4 DEF Transmit
      <4>2. /\ Q["buffer"] \subseteq P["buffer"] \ (M \cup N)
            /\ Q["gone"] \subseteq P["gone"] \cup M
            /\ Q["exposed"] \subseteq P["exposed"] \cup N
        BY <1>a, <1>b, <3>2, <4>1
      <4>3. \A x \in DOMAIN P \ {"buffer", "gone", "exposed"} : Q[x] \subseteq P[x]
        BY <1>a, <1>b, <1>o, <2>2, <4>1
      <4>4. /\ "buffer" \in DOMAIN P /\ "gone" \in DOMAIN P /\ "exposed" \in DOMAIN P
            /\ DOMAIN Q = DOMAIN P
        BY <1>a, <1>b
      <4> HIDE DEF M, N
      <4>5. Disjoint(Q)
        BY <4>2, <4>3, <4>4, <3>m, <1>d, Moved
      <4> QED
        BY <4>5, <1>g
    <3> QED
      BY <3>3, <3>4
  <2> QED
    BY <2>3, <2>4, <1>k
<1>6. ASSUME NEW d \in network, Lose(d) \/ Receive(d) PROVE CountedOnce'
  <2>1. network' = network \ {d} /\ UNCHANGED <<buffer, incoming, job, taken, reported, exposed>>
    BY <1>6 DEF Lose, Receive
  <2>2. Inside(network') \cap Inside({d}) = {} /\ Inside(network') \subseteq Inside(network)
        /\ Inside({d}) \subseteq Inside(network)
    BY <1>u, <1>m, <2>1 DEF Carried
  <2>3. CASE Lose(d)
    <3>1. held' = held /\ gone' = gone \cup Inside({d})
      BY <2>3 DEF Lose
    <3>2. /\ Q["network"] \subseteq P["network"] \ Inside({d}) /\ Inside({d}) \subseteq P["network"]
          /\ Q["gone"] = P["gone"] \cup Inside({d})
          /\ \A x \in DOMAIN P \ {"network", "gone"} : Q[x] \subseteq P[x]
      BY <1>a, <1>b, <1>o, <2>1, <2>2, <3>1
    <3> QED
      BY <3>2, <1>a, <1>b, <1>d, <1>g, MovedToOne
  <2>4. CASE Receive(d)
    <3>1. held' = {d} /\ held = {} /\ gone' = gone
      BY <2>4 DEF Receive
    <3>2. /\ Q["network"] \subseteq P["network"] \ Inside({d}) /\ Inside({d}) \subseteq P["network"]
          /\ Q["held"] \subseteq P["held"] \cup Inside({d})
          /\ \A x \in DOMAIN P \ {"network", "held"} : Q[x] \subseteq P[x]
      BY <1>a, <1>b, <1>o, <2>1, <2>2, <3>1
    <3> QED
      BY <3>2, <1>a, <1>b, <1>d, <1>g, MovedToOne
  <2> QED
    BY <1>6, <2>3, <2>4
<1>8. ASSUME NEW d \in held, Append(d) PROVE CountedOnce'
  <2>1. /\ d.kind \in Kinds /\ held' = {} /\ held = {d}
        /\ UNCHANGED <<buffer, network, job, taken, reported, exposed, gone>>
    BY <1>8, <1>t DEF Append, Datagrams, HeldInv
  <2>2. \A k \in Reported : incoming'[k] \subseteq incoming[k] \cup {d}
    BY <1>8, <2>1, <1>t, <1>k DEF Append
  <2>3. Q["incoming"] \subseteq P["incoming"] \cup Inside(held)
    BY <1>a, <1>b, <1>m, <1>k, <2>1, <2>2
  <2>4. Q["held"] = {}
    BY <1>b, <1>m, <2>1
  <2>5. \A x \in DOMAIN P \ {"held", "incoming"} : Q[x] \subseteq P[x]
    BY <1>a, <1>b, <1>o, <2>1
  <2> QED
    BY <2>3, <2>4, <2>5, <1>a, <1>b, <1>d, <1>g, MovedToOne
<1>9. ASSUME NEW s \in Scrapers, FilterUsers(s) \/ SetUsers(s) PROVE CountedOnce'
  <2>1. incoming'["time"] = incoming["time"] /\ incoming'["error"] = incoming["error"]
    BY <1>9, <1>t, <1>k DEF FilterUsers, SetUsers
  <2> QED
    BY <1>9, <1>a, <1>b, <1>o, <1>s, <2>1 DEF FilterUsers, SetUsers
<1>10. ASSUME NEW k \in Reported, CopyIncoming(k) PROVE CountedOnce'
  <2>1. \A j \in Reported : j # k => taken'[j] = taken[j] /\ job # <<"clear", j>>
    BY <1>10, <1>t, <1>k DEF CopyIncoming
  <2>2. job' = <<"clear", k>>
    BY <1>10 DEF CopyIncoming
  <2>3. Q["taken"] \subseteq P["taken"]
    <3>1. CASE k = "time"
      BY <3>1, <2>1, <2>2, <1>a, <1>b, <1>k, <1>o DEF Out
    <3>2. CASE k = "error"
      BY <3>2, <2>1, <2>2, <1>a, <1>b, <1>k, <1>o DEF Out
    <3> QED
      BY <3>1, <3>2, <1>k
  <2>4. UNCHANGED <<buffer, network, held, incoming, reported, exposed, gone>>
    BY <1>10 DEF CopyIncoming
  <2> QED
    BY <1>a, <1>b, <1>s, <2>3, <2>4
<1>11. ASSUME NEW k \in Reported, ClearIncoming(k) PROVE CountedOnce'
  <2>1. /\ job = <<"clear", k>> /\ taken[k] \subseteq incoming[k]
        /\ incoming'[k] = {} /\ exposed' = exposed \cup Inside(incoming[k] \ taken[k])
        /\ UNCHANGED <<buffer, network, held, taken, reported, gone>>
    BY <1>11, <1>t, <1>k DEF ClearIncoming, LedgerInv
  <2>2. \A j \in Reported : j # k => incoming'[j] = incoming[j] /\ job # <<"clear", j>>
    BY <1>11, <1>t, <1>k DEF ClearIncoming
  <2> DEFINE M == Inside(taken[k])
             N == Inside(incoming[k] \ taken[k])
  <2>3. M \cap N = {}
    <3>1. taken[k] \subseteq Carried /\ incoming[k] \ taken[k] \subseteq Carried
      BY <1>k DEF Carried
    <3> QED
      BY <3>1, <1>u
  <2>4. M \subseteq Inside(incoming[k]) /\ N \subseteq Inside(incoming[k]) /\ Inside({}) = {}
    BY <1>m, <2>1
  <2>5. /\ Q["incoming"] \subseteq P["incoming"] \ (M \cup N)
        /\ M \subseteq P["incoming"] /\ N \subseteq P["incoming"]
    <3>1. CASE k = "time"
      BY <3>1, <2>1, <2>2, <2>4, <1>a, <1>b, <1>c, <1>k
    <3>2. CASE k = "error"
      BY <3>2, <2>1, <2>2, <2>4, <1>a, <1>b, <1>c, <1>k
    <3> QED
      BY <3>1, <3>2, <1>k
  <2>6. Q["taken"] \subseteq P["taken"] \cup M
    <3>1. Out("time")' \subseteq Inside(taken["time"]) /\ Out("error")' \subseteq Inside(taken["error"])
      BY <1>o, <2>1
    <3>2. \A j \in Reported : j # k => Out(j) = Inside(taken[j])
      BY <2>2 DEF Out
    <3> QED
      BY <3>1, <3>2, <1>a, <1>b, <1>k
  <2>7. Q["exposed"] = P["exposed"] \cup N
    BY <2>1, <1>a, <1>b
  <2>8. \A x \in DOMAIN P \ {"incoming", "taken", "exposed"} : Q[x] \subseteq P[x]
    BY <2>1, <1>a, <1>b
  <2>9. /\ "incoming" \in DOMAIN P /\ "taken" \in DOMAIN P /\ "exposed" \in DOMAIN P
        /\ DOMAIN Q = DOMAIN P /\ Q["exposed"] \subseteq P["exposed"] \cup N
    BY <2>7, <1>a, <1>b
  <2> HIDE DEF M, N
  <2>10. Disjoint(Q)
    BY <2>3, <2>5, <2>6, <2>8, <2>9, <1>d, Moved
  <2> QED
    BY <2>10, <1>g
<1>12. CASE Login
  <2>1. /\ job = <<"login", "time">>
        /\ UNCHANGED <<buffer, network, held, incoming, reported, exposed>>
    BY <1>12 DEF Login
  <2>2. P["taken"] = Inside(taken["time"]) \cup Inside(taken["error"])
    BY <2>1, <1>a DEF Out
  <2>3. CASE GiveUp
    <3>1. gone' = gone \cup P["taken"]
      <4>1. Inside(taken["time"] \cup taken["error"]) = P["taken"]
        BY <1>m, <2>2
      <4> QED
        BY <2>3, <4>1 DEF GiveUp
    <3>2. Q["taken"] = {}
      <4>1. taken'["time"] = {} /\ taken'["error"] = {} /\ Inside({}) = {}
        BY <2>3, <1>k, <1>m DEF GiveUp
      <4> QED
        BY <4>1, <1>b, <1>o
    <3>3. \A x \in DOMAIN P \ {"taken", "gone"} : Q[x] \subseteq P[x]
      BY <2>1, <1>a, <1>b
    <3>4. Q["gone"] = P["gone"] \cup P["taken"]
      BY <3>1, <1>a, <1>b
    <3> QED
      BY <3>2, <3>3, <3>4, <1>a, <1>b, <1>d, <1>g, MovedToOne
  <2>4. ASSUME NEW t \in Tokens, UseToken(t) PROVE CountedOnce'
    <3>1. taken' = taken /\ gone' = gone
      BY <2>4 DEF UseToken
    <3>2. Q["taken"] \subseteq P["taken"]
      BY <1>b, <1>o, <2>2, <3>1
    <3> QED
      BY <2>1, <3>1, <3>2, <1>a, <1>b, <1>s
  <2> QED
    BY <1>12, <2>3, <2>4 DEF Login, Tokens, TypeOK
<1>13. ASSUME NEW k \in Reported, Posted(k), job # <<"clear", "time">>, job # <<"clear", "error">>,
              UNCHANGED <<buffer, network, held, incoming, exposed>>,
              \/ reported' = reported \cup Inside(taken[k]) /\ gone' = gone
              \/ gone' = gone \cup Inside(taken[k]) /\ reported' = reported
       PROVE  CountedOnce'
  <2>1. taken'[k] = {} /\ \A j \in Reported : j # k => taken'[j] = taken[j]
    BY <1>13, <1>t DEF Posted
  <2>2. P["taken"] = Inside(taken["time"]) \cup Inside(taken["error"])
    BY <1>13, <1>a DEF Out
  <2>3. /\ Q["taken"] \subseteq P["taken"] \ Inside(taken[k])
        /\ Inside(taken[k]) \subseteq P["taken"]
    <3>1. Inside({}) = {}
      BY <1>m
    <3>2. CASE k = "time"
      BY <3>1, <3>2, <2>1, <2>2, <1>b, <1>c, <1>k, <1>o
    <3>3. CASE k = "error"
      BY <3>1, <3>3, <2>1, <2>2, <1>b, <1>c, <1>k, <1>o
    <3> QED
      BY <3>2, <3>3, <1>k
  <2>4. CASE reported' = reported \cup Inside(taken[k]) /\ gone' = gone
    <3>1. /\ Q["reported"] = P["reported"] \cup Inside(taken[k])
          /\ \A x \in DOMAIN P \ {"taken", "reported"} : Q[x] \subseteq P[x]
      BY <1>13, <2>4, <1>a, <1>b
    <3> QED
      BY <2>3, <3>1, <1>a, <1>b, <1>d, <1>g, MovedToOne
  <2>5. CASE gone' = gone \cup Inside(taken[k]) /\ reported' = reported
    <3>1. /\ Q["gone"] = P["gone"] \cup Inside(taken[k])
          /\ \A x \in DOMAIN P \ {"taken", "gone"} : Q[x] \subseteq P[x]
      BY <1>13, <2>5, <1>a, <1>b
    <3> QED
      BY <2>3, <3>1, <1>a, <1>b, <1>d, <1>g, MovedToOne
  <2> QED
    BY <1>13, <2>4, <2>5
<1>14. ASSUME NEW k \in Reported, Post(k) \/ Relogin(k) PROVE CountedOnce'
  <2>1. /\ job = <<"post", k>> \/ job = <<"relogin", k>>
        /\ UNCHANGED <<buffer, network, held, incoming, exposed>>
    BY <1>14 DEF Post, Relogin
  <2>2. job # <<"clear", "time">> /\ job # <<"clear", "error">>
    BY <2>1
  <2>3. CASE UNCHANGED <<taken, reported, gone>>
    <3>1. Q["taken"] \subseteq P["taken"]
      BY <2>2, <2>3, <1>a, <1>b, <1>o DEF Out
    <3> QED
      BY <2>1, <2>3, <3>1, <1>a, <1>b, <1>s
  <2>4. CASE /\ Posted(k)
             /\ \/ reported' = reported \cup Inside(taken[k]) /\ gone' = gone
                \/ gone' = gone \cup Inside(taken[k]) /\ reported' = reported
    BY <2>1, <2>2, <2>4, <1>13
  <2> QED
    BY <1>14, <2>3, <2>4 DEF Post, Relogin
<1>15. CASE ExpireTokens \/ Tick \/ UNCHANGED vars
  BY <1>15, <1>a, <1>b, <1>o, <1>s DEF ExpireTokens, Tick, vars
<1> QED
  BY <1>1, <1>2, <1>3, <1>4, <1>5, <1>6, <1>8, <1>9, <1>10, <1>11, <1>12, <1>14, <1>15
     DEF Next, Collector, Transmitter, UdpServer, Scraper, Reporter

LEMMA NextSorted ==
  ASSUME TypeOK, [Next]_vars,
         \A k \in Reported : \A d \in incoming[k] \cup taken[k] : d.kind = k
  PROVE  \A k \in Reported : \A d \in incoming'[k] \cup taken'[k] : d.kind = k
<1> USE DEF collectorVars, receiverVars, jobVars
<1>t. /\ incoming \in [Kinds -> SUBSET Datagrams] /\ taken \in [Reported -> SUBSET Datagrams]
      /\ Reported = {"time", "error"} /\ Kinds = {"time", "users", "error"}
  BY DEF TypeOK, Kinds, Collected, Reported
<1>1. ASSUME NEW d \in held, Append(d)
      PROVE  \A k \in Reported : \A e \in incoming'[k] \cup taken'[k] : e.kind = k
  <2>1. taken' = taken /\ \A k \in Kinds : incoming'[k] \subseteq IF k = d.kind THEN incoming[k] \cup {d}
                                                                              ELSE incoming[k]
    BY <1>1, <1>t DEF Append
  <2> QED
    BY <2>1, <1>t
<1>2. ASSUME NEW s \in Scrapers, FilterUsers(s) \/ SetUsers(s)
      PROVE  taken' = taken /\ \A k \in Reported : incoming'[k] = incoming[k]
  BY <1>2, <1>t DEF FilterUsers, SetUsers
<1>3. ASSUME NEW j \in Reported, CopyIncoming(j)
      PROVE  incoming' = incoming /\ \A k \in Reported : taken'[k] \in {taken[k], incoming[k]}
  BY <1>3, <1>t DEF CopyIncoming
<1>4. ASSUME NEW j \in Reported, ClearIncoming(j)
      PROVE  taken' = taken /\ \A k \in Reported : incoming'[k] \in {incoming[k], {}}
  BY <1>4, <1>t DEF ClearIncoming
<1>5. ASSUME NEW j \in Reported, Post(j) \/ Relogin(j)
      PROVE  incoming' = incoming /\ \A k \in Reported : taken'[k] \in {taken[k], {}}
  BY <1>5, <1>t DEF Post, Relogin, Posted
<1>6. CASE Login
  <2>1. incoming' = incoming /\ \A k \in Reported : taken'[k] \in {taken[k], {}}
    BY <1>6, <1>t DEF Login, UseToken, GiveUp
  <2> QED
    BY <2>1
<1>7. CASE UNCHANGED <<incoming, taken>>
  BY <1>7
<1>8. CASE ~ (Reporter \/ (\E d \in held : Append(d)) \/ \E s \in Scrapers : Scraper(s))
  BY <1>7, <1>8 DEF Next, Collector, Transmitter, UdpServer, CollectTime, LogError, CollectUser,
     CopyBuffer, Transmit, Lose, Receive, ExpireTokens, Tick, vars
<1>9. CASE \E s \in Scrapers : Scraper(s)
  BY <1>2, <1>9 DEF Scraper
<1>10. CASE Reporter
  <2>1. ASSUME NEW j \in Reported, CopyIncoming(j) \/ ClearIncoming(j) \/ Post(j) \/ Relogin(j)
        PROVE  \A k \in Reported : \A d \in incoming'[k] \cup taken'[k] : d.kind = k
    BY <2>1, <1>3, <1>4, <1>5
  <2> QED
    BY <2>1, <1>6, <1>10 DEF Reporter
<1> QED
  BY <1>1, <1>8, <1>9, <1>10

(* A buffer grows until its transmitter clears it, and a list until the    *)
(* reporter does                                                           *)
LEMMA NextCopies ==
  ASSUME TypeOK, [Next]_vars,
         tx["time"] = "copied" => sending["time"] \subseteq buffer["time"],
         \A k \in Reported : job = <<"clear", k>> => taken[k] \subseteq incoming[k]
  PROVE  /\ tx'["time"] = "copied" => sending'["time"] \subseteq buffer'["time"]
         /\ \A k \in Reported : job' = <<"clear", k>> => taken'[k] \subseteq incoming'[k]
<1> USE DEF collectorVars, receiverVars, jobVars
<1>t. /\ incoming \in [Kinds -> SUBSET Datagrams] /\ taken \in [Reported -> SUBSET Datagrams]
      /\ buffer \in [Collected -> SUBSET (Samples \cup Users)]
      /\ sending \in [Collected -> SUBSET (Samples \cup Users)]
      /\ tx \in [Collected -> {"wait", "copied"}]
      /\ Reported = {"time", "error"} /\ Kinds = {"time", "users", "error"}
      /\ Collected = {"time", "users"}
  BY DEF TypeOK, Kinds, Collected, Reported
<1>1. tx'["time"] = "copied" => sending'["time"] \subseteq buffer'["time"]
  <2>1. CASE UNCHANGED <<tx, sending, buffer>>
    BY <2>1
  <2>2. CASE CollectTime
    BY <2>2, <1>t DEF CollectTime
  <2>3. ASSUME NEW u \in Users, CollectUser(u)
        PROVE  tx'["time"] = "copied" => sending'["time"] \subseteq buffer'["time"]
    BY <2>3, <1>t DEF CollectUser
  <2>4. ASSUME NEW k \in Collected, CopyBuffer(k)
        PROVE  tx'["time"] = "copied" => sending'["time"] \subseteq buffer'["time"]
    BY <2>4, <1>t DEF CopyBuffer
  <2>5. ASSUME NEW k \in Collected, NEW sent \in BOOLEAN, Transmit(k, sent)
        PROVE  tx'["time"] = "copied" => sending'["time"] \subseteq buffer'["time"]
    BY <2>5, <1>t DEF Transmit
  <2>6. CASE ~ (Collector \/ \E k \in Collected : Transmitter(k))
    BY <2>1, <2>6 DEF Next, UdpServer, Scraper, Reporter, Lose, Receive, Append, FilterUsers,
       SetUsers, CopyIncoming, ClearIncoming, Login, Post, Relogin, ExpireTokens, Tick, vars
  <2>7. CASE LogError
    BY <2>1, <2>7 DEF LogError
  <2> QED
    BY <2>2, <2>3, <2>4, <2>5, <2>6, <2>7 DEF Collector, Transmitter
<1>2. ASSUME NEW k \in Reported, job' = <<"clear", k>> PROVE taken'[k] \subseteq incoming'[k]
  <2>1. CASE UNCHANGED <<job, taken, incoming>>
    BY <1>2, <2>1
  <2>2. ASSUME NEW d \in held, Append(d) PROVE taken'[k] \subseteq incoming'[k]
    <3>1. job' = job /\ taken' = taken
      BY <2>2 DEF Append
    <3>2. incoming[k] \subseteq incoming'[k]
      <4>1. CASE fresh
        <5>1. d.kind \in Kinds
          BY DEF TypeOK, Datagrams
        <5> QED
          BY <2>2, <4>1, <5>1, <1>t DEF Append
      <4>2. CASE ~ fresh
        BY <2>2, <4>2 DEF Append
      <4> QED
        BY <4>1, <4>2
    <3> QED
      BY <1>2, <3>1, <3>2
  <2>3. ASSUME NEW s \in Scrapers, FilterUsers(s) \/ SetUsers(s) PROVE taken'[k] \subseteq incoming'[k]
    <3>1. incoming'[k] = incoming[k] /\ UNCHANGED <<job, taken>>
      BY <2>3, <1>t DEF FilterUsers, SetUsers
    <3> QED
      BY <1>2, <3>1
  <2>4. ASSUME NEW j \in Reported, CopyIncoming(j) PROVE taken'[k] \subseteq incoming'[k]
    BY <1>2, <2>4, <1>t DEF CopyIncoming
  <2>5. ASSUME NEW j \in Reported, ClearIncoming(j) \/ Post(j) \/ Relogin(j) \/ Login PROVE FALSE
    BY <1>2, <2>5, <1>t DEF ClearIncoming, Post, Relogin, Posted, Login, UseToken, GiveUp, Idle
  <2>6. CASE ~ (Reporter \/ (\E d \in held : Append(d)) \/ \E s \in Scrapers : Scraper(s))
    BY <2>1, <2>6 DEF Next, Collector, Transmitter, UdpServer, CollectTime, LogError, CollectUser,
       CopyBuffer, Transmit, Lose, Receive, ExpireTokens, Tick, vars
  <2> QED
    BY <2>2, <2>3, <2>4, <2>5, <2>6, <1>t DEF Reporter, Scraper
<1> QED
  BY <1>1, <1>2

(* What there is to count is made once and only moves: nothing else gets   *)
(* into a datagram, and a new datagram shares nothing with the others      *)
Ledger == buffer["time"] \cup Inside(Carried) \cup reported \cup exposed \cup gone

LEMMA NextLedger ==
  ASSUME TypeOK, HeldInv, LedgerInv, CountedOnce, [Next]_vars
  PROVE  Unshared(Carried') /\ Ledger' \subseteq 1..made'
<1> USE DEF collectorVars, receiverVars, jobVars
<1>t. /\ made \in Nat
      /\ incoming \in [Kinds -> SUBSET Datagrams] /\ taken \in [Reported -> SUBSET Datagrams]
      /\ network \in SUBSET Datagrams /\ held \in SUBSET Datagrams
      /\ buffer \in [Collected -> SUBSET (Samples \cup Users)]
      /\ sending \in [Collected -> SUBSET (Samples \cup Users)]
      /\ Collected = {"time", "users"} /\ Reported = {"time", "error"}
      /\ Kinds = {"time", "users", "error"}
  BY DEF TypeOK, Collected, Reported, Kinds
<1>c. Carried' = network' \cup held' \cup incoming'["time"] \cup incoming'["error"]
                   \cup taken'["time"] \cup taken'["error"]
  BY DEF Carried
<1>l. /\ Ledger \subseteq 1..made /\ Unshared(Carried)
      /\ Ledger' = buffer'["time"] \cup Inside(Carried') \cup reported' \cup exposed' \cup gone'
  BY DEF LedgerInv, Ledger, Inside
<1>m. \A D, i : i \in Inside(D) <=> \E d \in D : d.kind # "users" /\ i \in d.items
  BY InsideMember
<1>s. ASSUME Carried' \subseteq Carried, made' = made, reported' \cup exposed' \cup gone' \subseteq Ledger,
             buffer'["time"] \subseteq Ledger
      PROVE  Unshared(Carried') /\ Ledger' \subseteq 1..made'
  <2>1. Inside(Carried') \subseteq Inside(Carried)
    BY <1>s, <1>m
  <2>2. Unshared(Carried')
    BY <1>s, <1>l DEF Unshared
  <2>3. Ledger' \subseteq 1..made
    BY <1>s, <1>l, <2>1 DEF Ledger
  <2> QED
    BY <1>s, <2>2, <2>3
<1>o. ASSUME NEW d, d.kind # "users" => d.items \cap Inside(Carried) = {}, Carried' = Carried \cup {d}
      PROVE  Unshared(Carried') /\ Inside(Carried') \subseteq Inside(Carried) \cup Inside({d})
  <2>1. \A e \in Carried : d.kind # "users" /\ e.kind # "users" => d.items \cap e.items = {}
    BY <1>o, <1>m
  <2>2. Unshared(Carried')
    BY <1>o, <1>l, <2>1 DEF Unshared
  <2>3. Inside(Carried') \subseteq Inside(Carried) \cup Inside({d})
    BY <1>o, <1>m
  <2> QED
    BY <2>2, <2>3
<1>e. /\ reported \cup exposed \cup gone \cup buffer["time"] \subseteq Ledger
      /\ \A D : D \subseteq Carried => Inside(D) \subseteq Ledger
  BY <1>m DEF Ledger
<1>f. /\ network \subseteq Carried /\ held \subseteq Carried
      /\ \A k \in Reported : incoming[k] \subseteq Carried /\ taken[k] \subseteq Carried
  BY <1>t DEF Carried
<1>r. 1..(made + 1) = 1..made \cup {made + 1}
  BY <1>t
<1>1. CASE CollectTime
  <2>1. Carried' = Carried
    BY <1>1, <1>c DEF CollectTime, Carried
  <2>2. Ledger' \subseteq Ledger \cup {made + 1} /\ made' = made + 1
    BY <1>1, <1>l, <2>1, <1>t DEF CollectTime, Ledger
  <2>3. Ledger' \subseteq 1..made'
    BY <1>l, <1>r, <2>2
  <2> QED
    BY <1>l, <2>1, <2>3
<1>2. CASE LogError
  <2> DEFINE d == [kind |-> "error", items |-> {made + 1}, time |-> 0]
  <2>1. d.kind # "users" /\ d.items = {made + 1}
    OBVIOUS
  <2>2. /\ network' = network \cup {d} /\ made' = made + 1
        /\ UNCHANGED <<held, incoming, taken, buffer, reported, exposed, gone>>
    BY <1>2 DEF LogError
  <2> HIDE DEF d
  <2>3. Carried' = Carried \cup {d}
    BY <2>2, <1>c DEF Carried
  <2>4. made + 1 \notin Inside(Carried)
    BY <1>l, <1>t DEF Ledger
  <2>5. Inside({d}) = {made + 1}
    BY <2>1, InsideOne
  <2>6. Unshared(Carried') /\ Inside(Carried') \subseteq Inside(Carried) \cup {made + 1}
    BY <1>o, <2>1, <2>3, <2>4, <2>5
  <2>7. Ledger' \subseteq Ledger \cup {made + 1}
    BY <1>l, <2>2, <2>6 DEF Ledger
  <2>8. Ledger' \subseteq 1..made'
    BY <1>l, <1>r, <2>2, <2>7
  <2> QED
    BY <2>6, <2>8
<1>3. ASSUME NEW u \in Users, CollectUser(u) PROVE Unshared(Carried') /\ Ledger' \subseteq 1..made'
  <2>1. Carried' = Carried /\ UNCHANGED <<made, reported, exposed, gone>>
    BY <1>3, <1>c DEF CollectUser, Carried
  <2>2. buffer'["time"] = buffer["time"]
    BY <1>3, <1>t DEF CollectUser
  <2> QED
    BY <1>e, <1>s, <2>1, <2>2
<1>4. ASSUME NEW k \in Collected, CopyBuffer(k) PROVE Unshared(Carried') /\ Ledger' \subseteq 1..made'
  <2>1. Carried' = Carried /\ UNCHANGED <<made, buffer, reported, exposed, gone>>
    BY <1>4, <1>c DEF CopyBuffer, Carried
  <2> QED
    BY <1>e, <1>s, <2>1
<1>5. ASSUME NEW k \in Collected, NEW sent \in BOOLEAN, Transmit(k, sent)
      PROVE  Unshared(Carried') /\ Ledger' \subseteq 1..made'
  <2>1. Message(k).kind = k /\ Message(k).items = sending[k]
    BY DEF Message
  <2>2. UNCHANGED <<made, held, incoming, taken, reported>>
    BY <1>5 DEF Transmit
  <2>3. Inside({Message(k)}) \subseteq buffer["time"]
    <3>1. CASE k = "time"
      <4>1. tx["time"] = "copied"
        BY <1>5, <3>1 DEF Transmit
      <4>2. sending["time"] \subseteq buffer["time"]
        BY <4>1 DEF LedgerInv
      <4>3. Inside({Message(k)}) = sending["time"]
        BY <2>1, <3>1, InsideOne
      <4> QED
        BY <4>2, <4>3
    <3>2. CASE k = "users"
      BY <1>m, <2>1, <3>2
    <3> QED
      BY <3>1, <3>2, <1>t
  <2>4. buffer'["time"] \subseteq buffer["time"] /\ exposed' \subseteq exposed \cup buffer["time"]
    BY <1>5, <1>t DEF Transmit
  <2>5. gone' \subseteq gone \cup buffer["time"]
    BY <1>5, <2>3 DEF Transmit
  <2>6. CASE sent
    <3>1. Carried' = Carried \cup {Message(k)}
      BY <1>5, <2>2, <2>6, <1>c DEF Transmit, Carried
    <3>2. Message(k).kind # "users" => Message(k).items \cap Inside(Carried) = {}
      <4>1. buffer["time"] \cap Inside(Carried) = {}
        <5>1. /\ Places["buffer"] = buffer["time"]
              /\ \A p \in {"network", "held", "incoming", "taken"} :
                    Places["buffer"] \cap Places[p] = {}
          BY PlacesAre DEF CountedOnce
        <5>2. Inside(Carried) \subseteq Places["network"] \cup Places["held"]
                                           \cup Places["incoming"] \cup Places["taken"]
          BY CarriedFacts
        <5> QED
          BY <5>1, <5>2
      <4>2. Message(k).kind # "users" => Message(k).items \subseteq buffer["time"]
        BY <2>3, InsideOne
      <4> QED
        BY <4>1, <4>2
    <3>3. Unshared(Carried') /\ Inside(Carried') \subseteq Inside(Carried) \cup buffer["time"]
      <4>1. Unshared(Carried') /\ Inside(Carried') \subseteq Inside(Carried) \cup Inside({Message(k)})
        BY <1>o, <3>1, <3>2
      <4> QED
        BY <2>3, <4>1
    <3>4. Ledger' \subseteq Ledger
      BY <1>l, <2>2, <2>4, <2>5, <3>3 DEF Ledger
    <3> QED
      BY <1>l, <2>2, <3>3, <3>4
  <2>7. CASE ~ sent
    <3>1. Carried' = Carried
      BY <1>5, <2>2, <2>7, <1>c DEF Transmit, Carried
    <3>2. reported' \cup exposed' \cup gone' \subseteq Ledger /\ buffer'["time"] \subseteq Ledger
      BY <1>e, <2>2, <2>4, <2>5
    <3> QED
      BY <1>s, <2>2, <3>1, <3>2
  <2> QED
    BY <2>6, <2>7
<1>6. ASSUME NEW d \in network, Lose(d) \/ Receive(d)
      PROVE  Unshared(Carried') /\ Ledger' \subseteq 1..made'
  <2>1. /\ network' \subseteq network /\ held' \subseteq held \cup {d}
        /\ gone' \subseteq gone \cup Inside({d})
        /\ UNCHANGED <<made, buffer, incoming, taken, reported, exposed>>
    BY <1>6 DEF Lose, Receive
  <2>2. Carried' \subseteq Carried
    BY <1>c, <2>1 DEF Carried
  <2>3. Inside({d}) \subseteq Ledger
    BY <1>e, <1>f
  <2> QED
    BY <1>e, <1>s, <2>1, <2>2, <2>3
<1>7. ASSUME NEW d \in held, Append(d) PROVE Unshared(Carried') /\ Ledger' \subseteq 1..made'
  <2>1. d.kind \in Kinds /\ held' = {} /\ UNCHANGED <<made, buffer, network, taken, reported, exposed, gone>>
    BY <1>7, <1>t DEF Append, Datagrams
  <2>2. \A k \in Reported : incoming'[k] \subseteq incoming[k] \cup {d}
    BY <1>7, <2>1, <1>t DEF Append
  <2>3. Carried' \subseteq Carried
    BY <1>c, <1>t, <2>1, <2>2 DEF Carried
  <2> QED
    BY <1>e, <1>s, <2>1, <2>3
<1>8. ASSUME NEW s \in Scrapers, FilterUsers(s) \/ SetUsers(s)
      PROVE  Unshared(Carried') /\ Ledger' \subseteq 1..made'
  <2>1. incoming'["time"] = incoming["time"] /\ incoming'["error"] = incoming["error"]
    BY <1>8, <1>t DEF FilterUsers, SetUsers
  <2>2. UNCHANGED <<made, buffer, network, held, taken, reported, exposed, gone>>
    BY <1>8 DEF FilterUsers, SetUsers
  <2>3. Carried' = Carried
    BY <1>c, <2>1, <2>2 DEF Carried
  <2> QED
    BY <1>e, <1>s, <2>2, <2>3
<1>9. ASSUME NEW k \in Reported, CopyIncoming(k) PROVE Unshared(Carried') /\ Ledger' \subseteq 1..made'
  <2>1. /\ taken'["time"] \in {taken["time"], incoming["time"]}
        /\ taken'["error"] \in {taken["error"], incoming["error"]}
        /\ UNCHANGED <<made, buffer, network, held, incoming, reported, exposed, gone>>
    BY <1>9, <1>t DEF CopyIncoming
  <2>2. Carried' \subseteq Carried
    BY <1>c, <2>1 DEF Carried
  <2> QED
    BY <1>e, <1>s, <2>1, <2>2
<1>10. ASSUME NEW k \in Reported, ClearIncoming(k) PROVE Unshared(Carried') /\ Ledger' \subseteq 1..made'
  <2>1. /\ incoming'["time"] \in {{}, incoming["time"]}
        /\ incoming'["error"] \in {{}, incoming["error"]}
        /\ exposed' = exposed \cup Inside(incoming[k] \ taken[k])
        /\ UNCHANGED <<made, buffer, network, held, taken, reported, gone>>
    BY <1>10, <1>t DEF ClearIncoming
  <2>2. Carried' \subseteq Carried
    BY <1>c, <2>1 DEF Carried
  <2>3. Inside(incoming[k] \ taken[k]) \subseteq Ledger
    <3>1. incoming[k] \ taken[k] \subseteq Carried
      BY <1>f
    <3> QED
      BY <1>e, <3>1
  <2> QED
    BY <1>e, <1>s, <2>1, <2>2, <2>3
<1>11. CASE Login
  <2>1. /\ UNCHANGED <<made, buffer, network, held, incoming, reported, exposed>>
        /\ taken'["time"] \in {{}, taken["time"]} /\ taken'["error"] \in {{}, taken["error"]}
        /\ gone' \subseteq gone \cup Inside(taken["time"] \cup taken["error"])
    BY <1>11, <1>t DEF Login, UseToken, GiveUp
  <2>2. Carried' \subseteq Carried
    BY <1>c, <2>1 DEF Carried
  <2>3. Inside(taken["time"] \cup taken["error"]) \subseteq Ledger
    <3>1. taken["time"] \cup taken["error"] \subseteq Carried
      BY <1>f, <1>t
    <3> QED
      BY <1>e, <3>1
  <2> QED
    BY <1>e, <1>s, <2>1, <2>2, <2>3
<1>12. ASSUME NEW k \in Reported, Post(k) \/ Relogin(k)
       PROVE  Unshared(Carried') /\ Ledger' \subseteq 1..made'
  <2>1. /\ UNCHANGED <<made, buffer, network, held, incoming, exposed>>
        /\ taken'["time"] \in {{}, taken["time"]} /\ taken'["error"] \in {{}, taken["error"]}
    BY <1>12, <1>t DEF Post, Relogin, Posted
  <2>2. gone' \subseteq gone \cup Inside(taken[k]) /\ reported' \subseteq reported \cup Inside(taken[k])
    BY <1>12 DEF Post, Relogin, Posted
  <2>3. Carried' \subseteq Carried
    BY <1>c, <2>1 DEF Carried
  <2>4. Inside(taken[k]) \subseteq Ledger
    BY <1>e, <1>f
  <2> QED
    BY <1>e, <1>s, <2>1, <2>2, <2>3, <2>4
<1>13. CASE ExpireTokens \/ Tick \/ UNCHANGED vars
  <2>1. UNCHANGED <<made, buffer, network, held, incoming, taken, reported, exposed, gone>>
    BY <1>13 DEF ExpireTokens, Tick, vars
  <2>2. Carried' = Carried
    BY <1>c, <2>1 DEF Carried
  <2> QED
    BY <1>e, <1>s, <2>1, <2>2
<1> QED
  BY <1>1, <1>2, <1>3, <1>4, <1>5, <1>6, <1>7, <1>8, <1>9, <1>10, <1>11, <1>12, <1>13
     DEF Next, Collector, Transmitter, UdpServer, Scraper, Reporter

LEMMA NextLedgerInv ==
  ASSUME TypeOK, HeldInv, LedgerInv, CountedOnce, [Next]_vars
  PROVE  LedgerInv'
<1>1. \A k \in Reported : \A d \in incoming'[k] \cup taken'[k] : d.kind = k
  BY NextSorted DEF LedgerInv
<1>2. /\ tx'["time"] = "copied" => sending'["time"] \subseteq buffer'["time"]
      /\ \A k \in Reported : job' = <<"clear", k>> => taken'[k] \subseteq incoming'[k]
  BY NextCopies DEF LedgerInv
<1>3. Unshared(Carried') /\ Ledger' \subseteq 1..made'
  BY NextLedger
<1>4. Unshared(Carried)' = Unshared(Carried')
  BY DEF Unshared
<1>5. (buffer["time"] \cup Inside(Carried) \cup reported \cup exposed \cup gone \subseteq 1..made)'
  BY <1>3 DEF Ledger
<1> QED
  BY <1>1, <1>2, <1>3, <1>4, <1>5 DEF LedgerInv

(* No response time and no error is counted twice, whatever is copied      *)
(* while it grows, refused and submitted again (transmitter_cycle,         *)
(* extract_incoming_tlms, submit_metric).                                  *)
THEOREM NothingIsCountedTwice == Spec => []CountedOnce
<1>1. Init => TakenInv /\ HeldInv /\ LedgerInv /\ CountedOnce
  <2> SUFFICES ASSUME Init PROVE TakenInv /\ HeldInv /\ LedgerInv /\ CountedOnce
    OBVIOUS
  <2>1. /\ network = {} /\ held = {} /\ buffer["time"] = {}
        /\ incoming["time"] = {} /\ incoming["error"] = {}
        /\ taken["time"] = {} /\ taken["error"] = {}
        /\ reported = {} /\ exposed = {} /\ gone = {}
        /\ tx["time"] = "wait" /\ job = Idle
    BY DEF Init, Collected, Reported, Kinds
  <2>2. Carried = {} /\ Inside({}) = {}
    BY <2>1, InsideMember DEF Carried
  <2>3. TakenInv /\ HeldInv
    BY <2>1 DEF TakenInv, HeldInv, Idle
  <2>4. LedgerInv
    BY <2>1, <2>2 DEF LedgerInv, Unshared, Reported, Idle
  <2>5. \A p \in DOMAIN Places : Places[p] = {}
    BY <2>1, <2>2, PlacesAre DEF Out
  <2> QED
    BY <2>3, <2>4, <2>5 DEF CountedOnce
<1>2. TypeOK /\ TakenInv /\ HeldInv /\ LedgerInv /\ CountedOnce /\ [Next]_vars
        => LedgerInv' /\ CountedOnce'
  BY NextLedgerInv, NextCountedOnce
<1> QED
  BY TypeCorrect, <1>1, <1>2, NextTakenInv, NextHeldInv, PTL DEF Spec
=============================================================================
