----------------------------- MODULE Telemetry -----------------------------
(***************************************************************************)
(* The monitoring of the servers (src/aviso-server/monitoring), from the   *)
(* collection of a sample to its report.                                   *)
(*                                                                         *)
(* A frontend collects response times and the users it serves in buffers;  *)
(* a Transmitter thread per collector empties its buffer now and then and  *)
(* sends what it found by UDP.  Errors of the frontends come by UDP as     *)
(* well, one by one, as lines of a log.  In the administration process the *)
(* thread of UdpServer appends what arrives to the lists of the Receiver.  *)
(* The main thread runs a reporter periodically: it takes the times and    *)
(* the errors out of their lists and posts a metric for each to the        *)
(* monitoring server, with a token that may have expired.  Threads of      *)
(* Flask answer the scrapes of Prometheus: they read the list of the users *)
(* without emptying it and then replace it by what is recent.  None of     *)
(* these threads takes a lock.                                             *)
(*                                                                         *)
(* The order of a list and the values of the samples do not matter here:   *)
(* buffers and lists are sets, times and errors numbers.                   *)
(***************************************************************************)
EXTENDS Naturals

CONSTANTS Users,        \* the users of the frontend
          Scrapers,     \* the threads that answer scrapes
          Window,       \* UsersCounter.retention_window
          MaxSamples,   \* bound on the times, errors and users collected
          MaxTime,      \* bound on the clock
          MaxExpiries   \* bound on the expiries of the tokens

ASSUME BoundsAssumption == /\ Window \in Nat /\ MaxSamples \in Nat
                           /\ MaxTime \in Nat /\ MaxExpiries \in Nat

VARIABLES
  made,      \* how many times and errors there have been: they are 1..made
  visits,    \* how many users have been collected
  buffer,    \* Collector.tlm_buffer, of the two collectors
  sending,   \* tlms of transmitter_cycle: the copy of the buffer
  tx,        \* what each Transmitter does: "wait" or "copied"
  network,   \* the datagrams on their way
  held,      \* the datagram the thread of UdpServer is processing
  fresh,     \* whether the list it looked up is still that of the Receiver
  incoming,  \* Receiver._incoming_tlms and _incoming_errors
  kept,      \* history: users' datagrams received while no scrape was running
  scrape,    \* per thread of Flask: whether it is between its filter and its
             \* set_incoming_tlms, and new_tlms
  job,       \* <<step, kind>>: where the reporter is
  taken,     \* new_tlms and new_errs, until their metric is posted
  saved,     \* OpsviewReporter.token
  using,     \* token of run
  trying,    \* token of submit_metric
  expiries,  \* how often the monitoring server has forgotten its tokens
  now,       \* the clock, in units of the retention window
  reported,  \* history: what reached the monitoring server
  exposed,   \* history: what came between a copy and the clear that follows
  gone       \* history: what was hit by a fault

collectorVars == <<made, visits, buffer, sending, tx>>
receiverVars == <<held, fresh, incoming, kept>>
jobVars == <<job, taken, saved, using, trying, reported>>
vars == <<collectorVars, network, receiverVars, scrape, jobVars, expiries,
          now, exposed, gone>>

Collected == {"time", "users"}
Reported == {"time", "error"}
Kinds == Collected \cup Reported
Tokens == {"none", "valid", "stale"}
Steps == {"copy", "clear", "login", "post", "relogin"}
Samples == 1..MaxSamples
Datagrams == [kind : Kinds, items : SUBSET (Samples \cup Users), time : Nat]

(* The times and errors in a set of datagrams *)
Inside(datagrams) ==
  UNION {d.items : d \in {e \in datagrams : e.kind # "users"}}

Idle == <<"copy", "time">>

Init ==
  /\ made = 0 /\ visits = 0
  /\ buffer = [k \in Collected |-> {}]
  /\ sending = [k \in Collected |-> {}]
  /\ tx = [k \in Collected |-> "wait"]
  /\ network = {} /\ held = {} /\ fresh = TRUE
  /\ incoming = [k \in Kinds |-> {}] /\ kept = {}
  /\ scrape = [s \in Scrapers |-> [pending |-> FALSE, list |-> {}]]
  /\ job = Idle /\ taken = [k \in Reported |-> {}]
  /\ saved = "none" /\ using = "none" /\ trying = "none" /\ expiries = 0
  /\ now = 0
  /\ reported = {} /\ exposed = {} /\ gone = {}

(***************************************************************************)
(* The frontends: collectors and transmitters.                             *)
(***************************************************************************)
CollectTime ==
  /\ made + visits < MaxSamples
  /\ made' = made + 1
  /\ buffer' = [buffer EXCEPT !["time"] = @ \cup {made + 1}]
  /\ UNCHANGED <<visits, sending, tx, network, receiverVars, scrape, jobVars,
                 expiries, now, exposed, gone>>

(* A user is in the buffer once *)
CollectUser(u) ==
  /\ made + visits < MaxSamples
  /\ visits' = visits + 1
  /\ buffer' = [buffer EXCEPT !["users"] = @ \cup {u}]
  /\ UNCHANGED <<made, sending, tx, network, receiverVars, scrape, jobVars,
                 expiries, now, exposed, gone>>

LogError ==
  /\ made + visits < MaxSamples
  /\ made' = made + 1
  /\ network' = network \cup
       {[kind |-> "error", items |-> {made + 1}, time |-> 0]}
  /\ UNCHANGED <<visits, buffer, sending, tx, receiverVars, scrape, jobVars,
                 expiries, now, exposed, gone>>

(* Mutant: a buffer with one element is taken for an empty one.            *)
CopyBuffer_MoreThanOne(k) ==
  /\ tx[k] = "wait"
  /\ \E i, j \in buffer[k] : i # j
  /\ sending' = [sending EXCEPT ![k] = buffer[k]]
  /\ tx' = [tx EXCEPT ![k] = "copied"]
  /\ UNCHANGED <<made, visits, buffer, network, receiverVars, scrape,
                 jobVars, expiries, now, exposed, gone>>

CopyBuffer(k) ==
  /\ tx[k] = "wait"
  /\ buffer[k] # {}
  /\ sending' = [sending EXCEPT ![k] = buffer[k]]
  /\ tx' = [tx EXCEPT ![k] = "copied"]
  /\ UNCHANGED <<made, visits, buffer, network, receiverVars, scrape,
                 jobVars, expiries, now, exposed, gone>>

(* The buffer is cleared, whatever came since the copy, and the copy is    *)
(* aggregated and sent; a datagram that cannot be sent is not sent again.  *)
Message(k) == [kind |-> k, items |-> sending[k],
               time |-> IF k = "users" THEN now ELSE 0]

Transmit(k, sent) ==
  /\ tx[k] = "copied"
  /\ tx' = [tx EXCEPT ![k] = "wait"]
  /\ buffer' = [buffer EXCEPT ![k] = {}]
  /\ sending' = [sending EXCEPT ![k] = {}]
  /\ network' = IF sent THEN network \cup {Message(k)} ELSE network
  /\ gone' = IF sent THEN gone ELSE gone \cup Inside({Message(k)})
  /\ exposed' = IF k = "time" THEN exposed \cup (buffer[k] \ sending[k])
                              ELSE exposed
  /\ UNCHANGED <<made, visits, receiverVars, scrape, jobVars, expiries, now>>

(***************************************************************************)
(* The datagrams: in any order, and some never.                            *)
(***************************************************************************)
Lose(d) ==
  /\ network' = network \ {d}
  /\ gone' = gone \cup Inside({d})
  /\ UNCHANGED <<collectorVars, receiverVars, scrape, jobVars, expiries, now, exposed>>

(***************************************************************************)
(* The thread of UdpServer: it receives a datagram, looks its list up, and *)
(* appends to it.  A list of users may have been replaced in between.      *)
(***************************************************************************)
Receive(d) ==
  /\ held = {}
  /\ network' = network \ {d}
  /\ held' = {d}
  /\ fresh' = TRUE
  /\ UNCHANGED <<collectorVars, incoming, kept, scrape, jobVars, expiries,
                 now, exposed, gone>>

Append(d) ==
  /\ d \in held
  /\ held' = {}
  /\ incoming' = IF fresh THEN [incoming EXCEPT ![d.kind] = @ \cup {d}]
                          ELSE incoming
  /\ kept' = IF /\ fresh
                /\ d.kind = "users"
                /\ \A s \in Scrapers : ~ scrape[s].pending
             THEN kept \cup {d} ELSE kept
  /\ UNCHANGED <<collectorVars, network, fresh, scrape, jobVars, expiries,
                 now, exposed, gone>>

(***************************************************************************)
(* A scrape: the list of the users is read, not emptied, and replaced by   *)
(* what is in the retention window.                                        *)
(***************************************************************************)
InWindow(d) == d.time + Window > now

(* Mutant: the list is extracted with clear=True, as the reporters do.     *)
FilterUsers_Clear(s) ==
  /\ ~ scrape[s].pending
  /\ incoming["users"] # {}
  /\ scrape' = [scrape EXCEPT ![s] =
       [pending |-> TRUE, list |-> {d \in incoming["users"] : InWindow(d)}]]
  /\ incoming' = [incoming EXCEPT !["users"] = {}]
  /\ UNCHANGED <<collectorVars, network, held, fresh, kept, jobVars, expiries,
                 now, exposed, gone>>

FilterUsers(s) ==
  /\ ~ scrape[s].pending
  /\ incoming["users"] # {}
  /\ scrape' = [scrape EXCEPT ![s] =
       [pending |-> TRUE, list |-> {d \in incoming["users"] : InWindow(d)}]]
  /\ UNCHANGED <<collectorVars, network, receiverVars, jobVars, expiries,
                 now, exposed, gone>>

SetUsers(s) ==
  /\ scrape[s].pending
  /\ incoming' = [incoming EXCEPT !["users"] = scrape[s].list]
  /\ fresh' = (fresh /\ \A d \in held : d.kind # "users")
  /\ scrape' = [scrape EXCEPT ![s] = [pending |-> FALSE, list |-> {}]]
  /\ UNCHANGED <<collectorVars, network, held, kept, jobVars, expiries, now, exposed, gone>>

(***************************************************************************)
(* The reporter: for each kind the list is copied and cleared; then login, *)
(* unless a token is saved; then one metric per kind is posted.            *)
(***************************************************************************)
CopyIncoming(k) ==
  /\ job = <<"copy", k>>
  /\ taken' = [taken EXCEPT ![k] = incoming[k]]
  /\ job' = <<"clear", k>>
  /\ UNCHANGED <<collectorVars, network, receiverVars, scrape, saved, using,
                 trying, reported, expiries, now, exposed, gone>>

(* Mutant: the list is returned, not a copy: the clear empties both.       *)
ClearIncoming_NoCopy(k) ==
  /\ job = <<"clear", k>>
  /\ incoming' = [incoming EXCEPT ![k] = {}]
  /\ taken' = [taken EXCEPT ![k] = {}]
  /\ exposed' = exposed \cup Inside(incoming[k] \ taken[k])
  /\ job' = IF k = "time" THEN <<"copy", "error">> ELSE <<"login", "time">>
  /\ UNCHANGED <<collectorVars, network, held, fresh, kept, scrape, saved,
                 using, trying, reported, expiries, now, gone>>

(* Mutant: the list is not cleared.                                        *)
ClearIncoming_Kept(k) ==
  /\ job = <<"clear", k>>
  /\ job' = IF k = "time" THEN <<"copy", "error">> ELSE <<"login", "time">>
  /\ UNCHANGED <<collectorVars, network, receiverVars, scrape, taken, saved,
                 using, trying, reported, expiries, now, exposed, gone>>

(* Mutant: the reporter goes on with the users.                            *)
ClearIncoming_Users(k) ==
  /\ job = <<"clear", k>>
  /\ incoming' = [incoming EXCEPT ![k] = {}]
  /\ exposed' = exposed \cup Inside(incoming[k] \ taken[k])
  /\ job' = IF k = "time" THEN <<"copy", "users">> ELSE <<"login", "time">>
  /\ UNCHANGED <<collectorVars, network, held, fresh, kept, scrape, taken,
                 saved, using, trying, reported, expiries, now, gone>>

ClearIncoming(k) ==
  /\ job = <<"clear", k>>
  /\ incoming' = [incoming EXCEPT ![k] = {}]
  /\ exposed' = exposed \cup Inside(incoming[k] \ taken[k])
  /\ job' = IF k = "time" THEN <<"copy", "error">> ELSE <<"login", "time">>
  /\ UNCHANGED <<collectorVars, network, held, fresh, kept, scrape, taken,
                 saved, using, trying, reported, expiries, now, gone>>

UseToken(t) ==
  /\ saved' = t /\ using' = t /\ trying' = t
  /\ job' = <<"post", "time">>
  /\ UNCHANGED <<taken, gone>>

(* Without a token the metrics of this run are given up *)
GiveUp ==
  /\ gone' = gone \cup Inside(taken["time"] \cup taken["error"])
  /\ taken' = [k \in Reported |-> {}]
  /\ job' = Idle
  /\ UNCHANGED <<saved, using, trying>>

Login ==
  /\ job = <<"login", "time">>
  /\ \/ saved # "none" /\ UseToken(saved)
     \/ saved = "none" /\ UseToken("valid")
     \/ saved = "none" /\ GiveUp
  /\ UNCHANGED <<collectorVars, network, receiverVars, scrape, reported,
                 expiries, now, exposed>>

(* The end of submit_metric for the metric of a kind *)
Posted(k) ==
  /\ taken' = [taken EXCEPT ![k] = {}]
  /\ job' = IF k = "time" THEN <<"post", "error">> ELSE Idle
  /\ trying' = using

(* The metric reaches the server, or the request fails, or the token is    *)
(* refused and submit_metric logs in again                                 *)
Post(k) ==
  /\ job = <<"post", k>>
  /\ \/ /\ trying = "valid"
        /\ reported' = reported \cup Inside(taken[k])
        /\ Posted(k)
        /\ UNCHANGED gone
     \/ /\ gone' = gone \cup Inside(taken[k])
        /\ Posted(k)
        /\ UNCHANGED reported
     \/ /\ trying # "valid"
        /\ job' = <<"relogin", k>>
        /\ UNCHANGED <<taken, trying, reported, gone>>
  /\ UNCHANGED <<collectorVars, network, receiverVars, scrape, saved, using,
                 expiries, now, exposed>>

(* With the new token, which is saved, the metric is submitted again; run  *)
(* keeps the token it had                                                  *)
Relogin(k) ==
  /\ job = <<"relogin", k>>
  /\ \/ /\ saved' = "valid" /\ trying' = "valid"
        /\ job' = <<"post", k>>
        /\ UNCHANGED <<taken, gone>>
     \/ /\ gone' = gone \cup Inside(taken[k])
        /\ Posted(k)
        /\ UNCHANGED saved
  /\ UNCHANGED <<collectorVars, network, receiverVars, scrape, using,
                 reported, expiries, now, exposed>>

(* The monitoring server forgets the tokens it has given *)
ExpireTokens ==
  LET Stale(t) == IF t = "valid" THEN "stale" ELSE t
  IN  /\ expiries < MaxExpiries
      /\ expiries' = expiries + 1
      /\ saved' = Stale(saved)
      /\ using' = Stale(using)
      /\ trying' = Stale(trying)
      /\ UNCHANGED <<collectorVars, network, receiverVars, scrape, job,
                     taken, reported, now, exposed, gone>>

Tick ==
  /\ now < MaxTime
  /\ now' = now + 1
  /\ UNCHANGED <<collectorVars, network, receiverVars, scrape, jobVars,
                 expiries, exposed, gone>>

Collector == CollectTime \/ LogError \/ \E u \in Users : CollectUser(u)
Transmitter(k) == CopyBuffer(k) \/ \E sent \in BOOLEAN : Transmit(k, sent)
UdpServer == (\E d \in network : Receive(d)) \/ (\E d \in held : Append(d))
Scraper(s) == FilterUsers(s) \/ SetUsers(s)
Reporter == \/ \E k \in Reported : CopyIncoming(k) \/ ClearIncoming(k)
            \/ Login
            \/ \E k \in Reported : Post(k) \/ Relogin(k)

Next == \/ Collector
        \/ \E k \in Collected : Transmitter(k)
        \/ \E d \in network : Lose(d)
        \/ UdpServer
        \/ \E s \in Scrapers : Scraper(s)
        \/ Reporter
        \/ ExpireTokens
        \/ Tick

Spec == Init /\ [][Next]_vars

(* Threads are scheduled, requests are answered or time out, and run is    *)
(* called again and again; nothing is assumed of the users, of the faults  *)
(* or of the scrapes.                                                      *)
FairSpec == /\ Spec
            /\ \A k \in Collected : WF_vars(Transmitter(k))
            /\ WF_vars(UdpServer)
            /\ WF_vars(Reporter)

(***************************************************************************)
(* Properties.                                                             *)
(***************************************************************************)
TypeOK ==
  /\ made \in 0..MaxSamples /\ visits \in 0..MaxSamples
  /\ buffer \in [Collected -> SUBSET (Samples \cup Users)]
  /\ sending \in [Collected -> SUBSET (Samples \cup Users)]
  /\ tx \in [Collected -> {"wait", "copied"}]
  /\ network \subseteq Datagrams
  /\ held \subseteq Datagrams
  /\ fresh \in BOOLEAN
  /\ incoming \in [Kinds -> SUBSET Datagrams]
  /\ kept \subseteq Datagrams
  /\ scrape \in [Scrapers -> [pending : BOOLEAN, list : SUBSET Datagrams]]
  /\ job \in Steps \X Reported
  /\ taken \in [Reported -> SUBSET Datagrams]
  /\ saved \in Tokens /\ using \in Tokens /\ trying \in Tokens
  /\ expiries \in 0..MaxExpiries /\ now \in 0..MaxTime
  /\ reported \subseteq Samples \cup Users
  /\ exposed \subseteq Samples \cup Users
  /\ gone \subseteq Samples \cup Users

(* The places where a time or an error can be.  A copy that has not been   *)
(* followed by its clear is not a place of its own.                        *)
Extracted == {k \in Reported : job # <<"clear", k>>}
Places == [buffer   |-> buffer["time"],
           network  |-> Inside(network),
           held     |-> Inside(held),
           incoming |-> Inside(incoming["time"] \cup incoming["error"]),
           taken    |-> UNION {Inside(taken[k]) : k \in Extracted},
           reported |-> reported,
           exposed  |-> exposed,
           gone     |-> gone]

(* A response time or an error is lost only in the two windows between a   *)
(* copy of a shared list and its clear, or by a fault of the network or of *)
(* the monitoring server: at every moment all the others are in a buffer,  *)
(* on their way, or reported (transmitter_cycle, process_message,          *)
(* extract_incoming_tlms, run).                                            *)
Conserved == 1..made \subseteq UNION {Places[p] : p \in DOMAIN Places}

(* Nothing is counted twice, in spite of the copies, the tokens that are   *)
(* refused and the metrics that are submitted again (submit_metric).       *)
CountedOnce ==
  \A p, q \in DOMAIN Places : p # q => Places[p] \cap Places[q] = {}

(* A users' datagram that arrived while no scrape was replacing the list   *)
(* is counted by every scrape until its time leaves the retention window,  *)
(* whatever scrapes run at once (UsersCounter.metric).                     *)
NoUserMissed == \A d \in kept : InWindow(d) => d \in incoming["users"]

(* Whatever is collected is reported in the end, unless it is lost as in   *)
(* Conserved: no datagram or list is left behind.                          *)
EventuallyReported == []<>(1..made \subseteq reported \cup exposed \cup gone)
=============================================================================
