--------------------------- MODULE StatusHistory ---------------------------
(***************************************************************************)
(* The status of one base key.  Every notification writes it anew, with    *)
(* the time, the revision of the status it replaces and the revision of    *)
(* the last status of the day before: Engine.push_with_status.  A replay   *)
(* follows these links from the current status back to its start date, to  *)
(* turn a period into a window of revisions: EtcdEngine._from_to_revisions *)
(* and _retrieve_status_history.                                           *)
(*                                                                         *)
(* Providers interleave, statuses expire, the store is compacted.          *)
(***************************************************************************)
EXTENDS Integers, FiniteSets

CONSTANTS
  Providers,
  DayLength,   \* ticks of the clock in a day
  MaxTime,     \* bound: the clock stops there
  MaxRev,      \* bound: no transaction after this revision
  Periods,     \* the pairs of a start and an end date that are searched
  Expiries,    \* TRUE if statuses may expire
  Compactions  \* the revisions to which the store may be compacted

Times == 0..MaxTime
Revisions == 1..MaxRev
NoRev == -1    \* no status, or no link
NoDate == -1   \* no end date

ASSUME BoundsAssumption ==
  /\ DayLength \in Nat \ {0} /\ MaxTime \in Nat /\ MaxRev \in Nat \ {0}
  /\ Expiries \in BOOLEAN /\ Compactions \subseteq Revisions
  \* NotificationManager.listen: an end date is after the start date
  /\ Periods \subseteq Times \X (Times \cup {NoDate})
  /\ \A d \in Periods : d[2] # NoDate => d[1] < d[2]
Day(t) == t \div DayLength

VARIABLES
  now,        \* the clock
  rev,        \* revision of the store
  statuses,   \* the statuses ever written: a function from their revisions
  current,    \* revision of the current status, or NoRev
  compacted,  \* revisions below this one cannot be read any more
  ppc,        \* where each provider is
  date,       \* the time each provider has put in its new status
  seen,       \* the status each provider has pulled
  spc,        \* where the search is
  from,       \* start date of the search
  to,         \* end date of the search, or NoDate
  at,         \* revision of the status the search has reached
  gone,       \* TRUE if that revision was compacted
  toRev,      \* to_rev
  window,     \* the result
  top,        \* history: the status from which the search began
  chain       \* history: of each status, those its links lead to one by one

store == <<rev, statuses, chain, current, compacted>>
providers == <<ppc, date, seen>>
search == <<spc, from, to, at, gone, toRev, window, top>>
vars == <<now, store, providers, search>>

(* A status, whose links lead to statuses that were written.               *)
StatusOrNone == DOMAIN statuses \cup {NoRev}
Status == [date : Times, prev : StatusOrNone, lastDay : StatusOrNone]
Date(r) == statuses[r].date
Prev(r) == statuses[r].prev
LastDay(r) == statuses[r].lastDay

TypeOK ==
  /\ now \in Times
  /\ rev \in Revisions
  /\ DOMAIN statuses \subseteq 1..rev
  /\ \A r \in DOMAIN statuses : statuses[r] \in Status
  /\ current \in StatusOrNone
  /\ compacted \in 0..rev
  /\ ppc \in [Providers -> {"idle", "pull", "push"}]
  /\ date \in [Providers -> Times]
  /\ seen \in [Providers -> StatusOrNone]
  /\ spc \in {"idle", "first", "walk", "found", "nothing", "unknown"}
  /\ from \in Times /\ to \in Times \cup {NoDate}
  /\ at \in StatusOrNone
  /\ spc = "walk" => at # NoRev
  /\ gone \in BOOLEAN
  /\ toRev \in StatusOrNone
  /\ window \in [lo : Nat, hi : Nat \cup {NoRev}]
  /\ top \in StatusOrNone
  /\ chain \in [DOMAIN statuses -> SUBSET DOMAIN statuses]

Init ==
  /\ now = 0
  /\ rev = 1
  /\ statuses = [r \in {} |-> 0]
  /\ chain = [r \in {} |-> {}]
  /\ current = NoRev
  /\ compacted = 0
  /\ ppc = [p \in Providers |-> "idle"]
  /\ date = [p \in Providers |-> 0]
  /\ seen = [p \in Providers |-> NoRev]
  /\ spc = "idle"
  /\ from = 0 /\ to = NoDate
  /\ at = NoRev /\ gone = FALSE /\ toRev = NoRev
  /\ window = [lo |-> 0, hi |-> NoRev]
  /\ top = NoRev

-----------------------------------------------------------------------------
(* The store and the clock.                                                *)

Tick ==
  /\ now < MaxTime
  /\ spc = "idle"   \* bound: what is pushed later is not searched
  /\ now' = now + 1
  /\ UNCHANGED <<store, providers, search>>

(* The lease of the current status ends.                                   *)
Expire ==
  /\ Expiries
  /\ current # NoRev
  /\ rev < MaxRev
  /\ rev' = rev + 1
  /\ current' = NoRev
  /\ UNCHANGED <<now, statuses, chain, compacted, providers, search>>

Compact ==
  /\ \E r \in Compactions : compacted < r /\ r <= rev /\ compacted' = r
  /\ UNCHANGED <<now, rev, statuses, chain, current, providers, search>>

-----------------------------------------------------------------------------
(* A provider: push_with_status.                                           *)

(* The time of the new status is taken first ...                           *)
Begin(p) ==
  /\ ppc[p] = "idle"
  /\ ppc' = [ppc EXCEPT ![p] = "pull"]
  /\ date' = [date EXCEPT ![p] = now]
  /\ UNCHANGED <<now, store, seen, search>>

(* ... then the current status is pulled ...                               *)
PullStatus(p) ==
  /\ ppc[p] = "pull"
  /\ ppc' = [ppc EXCEPT ![p] = "push"]
  /\ seen' = [seen EXCEPT ![p] = current]
  /\ UNCHANGED <<now, store, date, search>>

(* Mutant: the link to the day before always is the status replaced.       *)
Linked_AlwaysPrev(d, s) == [date |-> d, prev |-> s, lastDay |-> s]

(* _status_as_linked_list: the new status of date d that replaces s.       *)
Linked(d, s) ==
  [date |-> d, prev |-> s,
   lastDay |-> IF s = NoRev THEN NoRev
               ELSE IF Day(Date(s)) = Day(d) THEN LastDay(s)
               ELSE s]

(* The call ends, and its variables with it.                               *)
Return(p) ==
  /\ ppc' = [ppc EXCEPT ![p] = "idle"]
  /\ date' = [date EXCEPT ![p] = 0]
  /\ seen' = [seen EXCEPT ![p] = NoRev]

(* ... and the new one is pushed, with the notification.                   *)
Push(p) ==
  /\ ppc[p] = "push"
  /\ rev < MaxRev
  /\ rev' = rev + 1
  /\ statuses' = [r \in DOMAIN statuses \cup {rev + 1} |->
                    IF r = rev + 1 THEN Linked(date[p], seen[p]) ELSE statuses[r]]
  /\ chain' = [r \in DOMAIN statuses \cup {rev + 1} |->
                 IF r # rev + 1 THEN chain[r]
                 ELSE {r} \cup IF seen[p] = NoRev THEN {} ELSE chain[seen[p]]]
  /\ current' = rev + 1
  /\ Return(p)
  /\ UNCHANGED <<now, compacted, search>>

(* The transaction is refused: notify raises.                              *)
PushFails(p) ==
  /\ ppc[p] = "push"
  /\ Return(p)
  /\ UNCHANGED <<now, store, search>>

-----------------------------------------------------------------------------
(* The search: _from_to_revisions.                                         *)

(* NotificationManager.listen: the dates must be in the past.              *)
BeginSearch(f, t) ==
  /\ spc = "idle"
  /\ f < now /\ t < now
  /\ spc' = "first"
  /\ from' = f /\ to' = t
  /\ UNCHANGED <<now, store, providers, at, gone, toRev, window, top>>

BeforeEnd(r) == to # NoDate /\ Date(r) < to

Answer(lo, hi) == spc' = "found" /\ window' = [lo |-> lo, hi |-> hi]

(* The current status, and the cases that it decides alone.                *)
FirstStatus ==
  /\ spc = "first"
  /\ \/ /\ current = NoRev
        /\ spc' = "unknown"
        /\ UNCHANGED <<at, toRev, window, top>>
     \/ /\ current # NoRev
        /\ at' = current
        /\ top' = current
        /\ \/ /\ Date(current) <= from
              /\ Answer(current + 1, current + 1)
              /\ UNCHANGED toRev
           \/ /\ from < Date(current) /\ Prev(current) = NoRev
              /\ IF to # NoDate /\ ~ BeforeEnd(current)
                   THEN Answer(current - 1, current - 1)
                   ELSE Answer(current, current)
              /\ UNCHANGED toRev
           \/ /\ from < Date(current) /\ Prev(current) # NoRev
              /\ spc' = "walk"
              /\ toRev' = IF BeforeEnd(current) THEN current ELSE NoRev
              /\ UNCHANGED window
  /\ UNCHANGED <<now, store, providers, from, to, gone>>

(* Mutant: on the day of the start date the walk does not move.            *)
Link_Same(r) == IF Day(Date(r)) = Day(from) THEN r ELSE LastDay(r)

(* The link to follow: one status back on the day of the start date,       *)
(* otherwise to the end of the day before.                                 *)
Link(r) == IF Day(Date(r)) = Day(from) THEN Prev(r) ELSE LastDay(r)

(* Mutant: the first day of the history is not recognised.                 *)
Inside_Unchecked == ~ gone /\ from < Date(at) /\ Prev(at) # NoRev

(* The loop goes on from here.                                             *)
Inside == ~ gone /\ from < Date(at) /\ Prev(at) # NoRev /\ Link(at) # NoRev

(* Mutant: every status before the end date replaces the one found first.  *)
Walk_LastOne ==
  /\ spc = "walk"
  /\ Inside
  /\ at' = Link(at)
  /\ gone' = (Link(at) < compacted)
  /\ toRev' = IF Link(at) >= compacted /\ BeforeEnd(Link(at)) THEN Link(at) ELSE toRev
  /\ UNCHANGED <<now, store, providers, spc, from, to, window, top>>

(* One iteration.  A revision that was compacted is the end of history.    *)
Walk ==
  /\ spc = "walk"
  /\ Inside
  /\ at' = Link(at)
  /\ gone' = (Link(at) < compacted)
  /\ toRev' = IF Link(at) >= compacted /\ BeforeEnd(Link(at)) /\ toRev = NoRev
                THEN Link(at) ELSE toRev
  /\ UNCHANGED <<now, store, providers, spc, from, to, window, top>>

(* Mutant: the status that is out of the period is part of the window.     *)
EndWalk_Inclusive ==
  /\ spc = "walk"
  /\ ~ Inside
  /\ IF to # NoDate /\ toRev = NoRev
       THEN spc' = "nothing" /\ UNCHANGED window
       ELSE Answer(at, toRev)
  /\ UNCHANGED <<now, store, providers, from, to, at, gone, toRev, top>>

(* Out of the loop: the window begins after a status that is out of the    *)
(* period, and at one that is the end of history.                          *)
EndWalk ==
  /\ spc = "walk"
  /\ ~ Inside
  /\ IF to # NoDate /\ toRev = NoRev
       THEN spc' = "nothing" /\ UNCHANGED window
       ELSE Answer(IF gone \/ Date(at) <= from THEN at + 1 ELSE at, toRev)
  /\ UNCHANGED <<now, store, providers, from, to, at, gone, toRev, top>>

-----------------------------------------------------------------------------
Searching == FirstStatus \/ Walk \/ EndWalk

(* Bound: one search, with whose result the behaviour ends.                *)
Results == {"found", "nothing", "unknown"}

Next ==
  /\ spc \notin Results
  /\ \/ Tick \/ Expire \/ Compact
     \/ \E p \in Providers : Begin(p) \/ PullStatus(p) \/ Push(p) \/ PushFails(p)
     \/ \E d \in Periods : BeginSearch(d[1], d[2])
     \/ Searching

Spec == Init /\ [][Next]_vars

(* A search goes on as long as it gets answers, and a pull is repeated     *)
(* until it gets one.                                                      *)
FairSpec == Spec /\ WF_vars(Searching)

-----------------------------------------------------------------------------
(* Properties.                                                             *)

(* The link to the day before leads to the last status of another day on   *)
(* the chain, although the providers that write it see only the status     *)
(* they replace, and may interleave (_status_as_linked_list).              *)
DayLinks ==
  \A s \in DOMAIN statuses :
    LET otherDays == {r \in chain[s] : Day(Date(r)) # Day(Date(s))}
    IN IF otherDays = {} THEN LastDay(s) = NoRev
       ELSE LastDay(s) \in otherDays /\ \A r \in otherDays : r <= LastDay(s)

InPeriod(s) == from < Date(s) /\ (to = NoDate \/ Date(s) < to)
InWindow(s) ==
  spc = "found" /\ window.lo <= s /\ (window.hi = NoRev \/ s <= window.hi)

(* The window never begins before the period: what a replay returns from   *)
(* the chain was sent after its start date, even if times are out of order *)
(* and days are stepped over.                                              *)
StartsInPeriod ==
  spc = "found" => \A s \in chain[top] : window.lo <= s => from < Date(s)

(* A status of the period, and of the chain, that is still in the store is *)
(* left out of the window for one of three causes only: the search stepped *)
(* over its day, to which the end date belongs; it stopped short of its    *)
(* day, the first of the history; or a later status has an earlier time.   *)
SteppedOver(s) ==
  \E t \in chain[top] :
    /\ s < t
    /\ Day(Date(t)) = Day(Date(s)) /\ Day(Date(t)) # Day(from)
    /\ \/ to # NoDate /\ to <= Date(t)
       \/ LastDay(t) = NoRev
OutOfOrder(s) == \E t \in chain[top] : s < t /\ Date(t) <= from

MissedForACause ==
  spc \in {"found", "nothing"} =>
    \A s \in chain[top] :
      (InPeriod(s) /\ compacted <= s /\ ~ InWindow(s)) => SteppedOver(s) \/ OutOfOrder(s)

(* Every search ends, whatever is pushed or compacted meanwhile.           *)
SearchEnds == (spc = "first") ~> (spc \in Results)
=============================================================================
