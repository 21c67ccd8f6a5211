------------------------ MODULE StatusHistory_proofs ------------------------
(***************************************************************************)
(* Proofs about StatusHistory, for any number of providers, any length of  *)
(* the days, all periods, all compactions and all bounds.                  *)
(***************************************************************************)
EXTENDS StatusHistory, TLAPS

(* A later time is not on an earlier day.                                  *)
LEMMA DayMonotonic ==
  ASSUME NEW a \in Nat, NEW b \in Nat, a <= b
  PROVE  /\ Day(a) \in Nat /\ Day(b) \in Nat
         /\ Day(a) <= Day(b)
BY BoundsAssumption, SMTT(30) DEF Day

(* A status that is on a later day than the start date is after it.        *)
LEMMA LaterDay ==
  ASSUME NEW a \in Nat, NEW b \in Nat, NEW c \in Nat,
         a < b, Day(a) # Day(b), Day(c) = Day(b)
  PROVE  a < c
BY DayMonotonic

LEMMA InitTypeOK == Init => TypeOK
<1> SUFFICES ASSUME Init PROVE TypeOK
  OBVIOUS
<1>1. DOMAIN statuses = {} /\ DOMAIN chain = {}
  BY DEF Init
<1>2. chain \in [DOMAIN statuses -> SUBSET DOMAIN statuses]
  BY <1>1 DEF Init
<1>3. 0 \in Times /\ 1 \in Revisions
  BY BoundsAssumption DEF Times, Revisions
<1>4. window \in [lo : Nat, hi : Nat \cup {NoRev}]
  BY DEF Init
<1>5. date \in [Providers -> Times] /\ seen \in [Providers -> StatusOrNone]
  BY <1>3 DEF Init, StatusOrNone
<1>6. gone \in BOOLEAN
  BY DEF Init
<1>7. rev \in Revisions /\ now \in Times /\ compacted \in 0..rev
  BY <1>3 DEF Init
<1> QED
  BY <1>1, <1>2, <1>3, <1>4, <1>5, <1>6, <1>7 DEF Init, TypeOK, StatusOrNone

LEMMA LinkedType ==
  ASSUME TypeOK, NEW d \in Times, NEW s \in DOMAIN statuses \cup {NoRev}
  PROVE  Linked(d, s) \in Status
BY DEF Linked, Status, StatusOrNone, TypeOK, LastDay

(* Only a push adds a status, and it changes none of those that are there. *)
LEMMA PushGrows ==
  ASSUME TypeOK, NEW p \in Providers, Push(p)
  PROVE  /\ DOMAIN statuses' = DOMAIN statuses \cup {rev + 1}
         /\ DOMAIN chain' = DOMAIN statuses'
         /\ rev + 1 \notin DOMAIN statuses
         /\ \A r \in DOMAIN statuses : statuses'[r] = statuses[r] /\ chain'[r] = chain[r]
         /\ statuses'[rev + 1] = Linked(date[p], seen[p])
         /\ chain'[rev + 1] =
              {rev + 1} \cup IF seen[p] = NoRev THEN {} ELSE chain[seen[p]]
         /\ seen[p] \in DOMAIN statuses \cup {NoRev}
         /\ \A r \in DOMAIN statuses : r \in Nat /\ r < rev + 1
BY DEF Push, TypeOK, Revisions, StatusOrNone

LEMMA PushTypeOK ==
  ASSUME TypeOK, NEW p \in Providers, Push(p)
  PROVE  TypeOK'
<1> USE DEF TypeOK
<1>1. rev' \in Revisions /\ rev' = rev + 1
  BY BoundsAssumption DEF Push, Revisions
<1>2. DOMAIN statuses' \subseteq 1..rev'
  BY <1>1, PushGrows DEF Revisions
<1>3. \A r \in DOMAIN statuses' : statuses'[r] \in Status'
  <2>1. Status \subseteq Status'
    BY PushGrows DEF Status, StatusOrNone
  <2>2. statuses'[rev + 1] \in Status'
    BY <2>1, PushGrows, LinkedType
  <2> QED
    BY <2>1, <2>2, PushGrows
<1>4. chain' \in [DOMAIN statuses' -> SUBSET DOMAIN statuses']
  <2>1. chain' = [r \in DOMAIN statuses' |-> chain'[r]]
    BY PushGrows DEF Push
  <2>2. \A r \in DOMAIN statuses' : chain'[r] \subseteq DOMAIN statuses'
    BY PushGrows
  <2> QED
    BY <2>1, <2>2
<1>5. /\ ppc' \in [Providers -> {"idle", "pull", "push"}]
      /\ date' \in [Providers -> Times]
      /\ seen' \in [Providers -> StatusOrNone']
  BY PushGrows, BoundsAssumption DEF Push, Return, Times, StatusOrNone
<1>6. current' \in DOMAIN statuses' /\ compacted' \in 0..rev'
  BY <1>1, PushGrows DEF Push, Revisions
<1> QED
  BY <1>1, <1>2, <1>3, <1>4, <1>5, <1>6, PushGrows DEF Push, search, StatusOrNone

LEMMA NextTypeOK == TypeOK /\ [Next]_vars => TypeOK'
<1> SUFFICES ASSUME TypeOK, [Next]_vars PROVE TypeOK'
  OBVIOUS
<1>1. CASE Tick
  BY <1>1, BoundsAssumption DEF Tick, TypeOK, Status, StatusOrNone, store, providers, search, Times
<1>2. CASE Expire
  <2>1. rev' \in Revisions /\ rev' = rev + 1 /\ rev \in Nat
    BY <1>2, BoundsAssumption DEF Expire, TypeOK, Status, StatusOrNone, Revisions
  <2>2. DOMAIN statuses \subseteq 1..rev' /\ compacted \in 0..rev'
    BY <2>1 DEF TypeOK
  <2> QED
    BY <1>2, <2>1, <2>2 DEF Expire, TypeOK, Status, StatusOrNone, providers, search
<1>3. CASE Compact
  BY <1>3, BoundsAssumption DEF Compact, TypeOK, Status, StatusOrNone, providers, search, Revisions
<1>4. ASSUME NEW p \in Providers, Begin(p) PROVE TypeOK'
  BY <1>4 DEF Begin, TypeOK, Status, StatusOrNone, store, search
<1>5. ASSUME NEW p \in Providers, PullStatus(p) PROVE TypeOK'
  BY <1>5 DEF PullStatus, TypeOK, Status, StatusOrNone, store, search
<1>6. ASSUME NEW p \in Providers, Push(p) PROVE TypeOK'
  BY <1>6, PushTypeOK
<1>7. ASSUME NEW p \in Providers, PushFails(p) PROVE TypeOK'
  BY <1>7, BoundsAssumption DEF PushFails, Return, TypeOK, Status, StatusOrNone, store, search, Times
<1>8. ASSUME NEW d \in Periods, BeginSearch(d[1], d[2]) PROVE TypeOK'
  BY <1>8, BoundsAssumption DEF BeginSearch, TypeOK, Status, StatusOrNone, store, providers
<1>9. CASE FirstStatus
  BY <1>9 DEF FirstStatus, Answer, TypeOK, Status, StatusOrNone, store, providers, NoRev
<1>10. CASE Walk
  BY <1>10 DEF Walk, Inside, Link, Prev, LastDay, TypeOK, Status, StatusOrNone, store, providers
<1>11. CASE EndWalk
  BY <1>11 DEF EndWalk, Answer, TypeOK, Status, StatusOrNone, store, providers, NoRev
<1>12. CASE UNCHANGED vars
  BY <1>12 DEF vars, TypeOK, Status, StatusOrNone, store, providers, search
<1> QED
  BY <1>1, <1>2, <1>3, <1>4, <1>5, <1>6, <1>7, <1>8, <1>9, <1>10, <1>11, <1>12
  DEF Next, Searching

(* The types of the variables: the revisions of the search and of the      *)
(* providers are those of statuses, and the links of chains stay in it.    *)
THEOREM TypeCorrect == Spec => []TypeOK
  BY InitTypeOK, NextTypeOK, PTL DEF Spec

-----------------------------------------------------------------------------
(* The chain of a status, and its link to the day before.                  *)

(* What the links lead to one by one: the chain of a status is the status  *)
(* and the chain of the one it replaced, and begins with the status.       *)
Chains ==
  \A s \in DOMAIN statuses :
    /\ s \in chain[s] /\ \A r \in chain[s] : r <= s
    /\ \A r \in chain[s] : chain[r] = {q \in chain[s] : q <= r}
    /\ Prev(s) = NoRev => chain[s] = {s}
    /\ Prev(s) # NoRev => Prev(s) < s /\ chain[s] = {s} \cup chain[Prev(s)]

HInv == TypeOK /\ Chains /\ DayLinks

(* Of the steps, only a push changes what the chains are made of.          *)
LEMMA OnlyPushWrites ==
  ASSUME [Next]_vars, \A p \in Providers : ~ Push(p)
  PROVE  UNCHANGED <<statuses, chain>>
BY DEF Next, vars, Tick, Expire, Compact, Begin, PullStatus, PushFails, BeginSearch,
       Searching, FirstStatus, Walk, EndWalk, store

LEMMA PushChains ==
  ASSUME HInv, NEW p \in Providers, Push(p)
  PROVE  Chains'
<1>1. TypeOK /\ Chains
  BY DEF HInv
<1>n. PICK n \in Nat : n = rev + 1
  BY <1>1 DEF TypeOK, Revisions
<1>q. PICK q : q = seen[p]
  OBVIOUS
<1>2. ASSUME NEW s \in DOMAIN statuses
      PROVE  /\ chain'[s] = chain[s] /\ Prev(s)' = Prev(s)
             /\ s \in Nat /\ s < n
             /\ chain[s] \subseteq DOMAIN statuses
             /\ Prev(s) \in StatusOrNone
  BY <1>1, <1>n, PushGrows DEF TypeOK, Prev, Status
<1>3. ASSUME NEW s \in DOMAIN statuses
      PROVE  /\ s \in chain'[s] /\ \A r \in chain'[s] : r <= s
             /\ \A r \in chain'[s] : chain'[r] = {k \in chain'[s] : k <= r}
             /\ Prev(s)' = NoRev => chain'[s] = {s}
             /\ Prev(s)' # NoRev => Prev(s)' < s /\ chain'[s] = {s} \cup chain'[Prev(s)']
  BY <1>1, <1>2 DEF Chains, StatusOrNone
<1>4. /\ Prev(n)' = q /\ q \in DOMAIN statuses \cup {NoRev}
      /\ chain'[n] = {n} \cup IF q = NoRev THEN {} ELSE chain[q]
      /\ n \in Nat
  <2>1. /\ statuses'[n] = Linked(date[p], q) /\ q \in DOMAIN statuses \cup {NoRev}
        /\ chain'[n] = {n} \cup IF q = NoRev THEN {} ELSE chain[q]
    BY <1>1, <1>n, <1>q, PushGrows
  <2>2. Linked(date[p], q).prev = q
    BY DEF Linked
  <2> QED
    BY <2>1, <2>2 DEF Prev
<1>5. CASE q = NoRev
  <2>1. chain'[n] = {n}
    BY <1>4, <1>5
  <2> QED
    BY <2>1, <1>1, <1>3, <1>4, <1>5, <1>n, PushGrows DEF Chains
<1>6. CASE q # NoRev
  <2>1. q \in DOMAIN statuses /\ q < n /\ chain'[n] = {n} \cup chain[q]
    BY <1>2, <1>4, <1>6
  <2>2. n \in chain'[n] /\ \A r \in chain'[n] : r <= n
    BY <1>2, <1>4, <2>1
  <2>3. chain'[n] = {k \in chain'[n] : k <= n}
    BY <2>2
  <2>4. ASSUME NEW r \in chain[q]
        PROVE  chain'[r] = {k \in chain'[n] : k <= r}
    <3>1. r \in DOMAIN statuses /\ r < n /\ r \in Nat
      BY <1>2, <2>1
    <3>2. chain'[r] = {k \in chain[q] : k <= r}
      BY <1>1, <1>2, <2>1, <3>1 DEF Chains
    <3>3. ~ (n <= r)
      BY <1>4, <3>1
    <3> QED
      BY <2>1, <3>2, <3>3
  <2>5. \A r \in chain'[n] : chain'[r] = {k \in chain'[n] : k <= r}
    BY <2>1, <2>3, <2>4
  <2>6. chain'[q] = chain[q]
    BY <1>2, <2>1
  <2> QED
    BY <1>1, <1>3, <1>4, <1>6, <1>n, <2>1, <2>2, <2>5, <2>6, PushGrows DEF Chains
<1> QED
  BY <1>5, <1>6

LEMMA PushDayLinks ==
  ASSUME HInv, NEW p \in Providers, Push(p)
  PROVE  DayLinks'
<1>n. PICK n \in Nat : n = rev + 1
  BY DEF HInv, TypeOK, Revisions
<1>q. PICK q : q = seen[p]
  OBVIOUS
<1> DEFINE Other(s, d) == {r \in chain[s] : Day(Date(r)) # d}
           OtherNext(s, d) == {r \in chain'[s] : Day(Date(r)') # d}
<1>1. TypeOK /\ Chains /\ DayLinks
  BY DEF HInv
<1>2. ASSUME NEW s \in DOMAIN statuses
      PROVE  /\ chain'[s] = chain[s] /\ Date(s)' = Date(s) /\ LastDay(s)' = LastDay(s)
             /\ s \in Nat /\ chain[s] \subseteq DOMAIN statuses
  BY <1>1, PushGrows DEF TypeOK, Date, LastDay
<1>3. ASSUME NEW s \in DOMAIN statuses, NEW d
      PROVE  OtherNext(s, d) = Other(s, d)
  BY <1>2
<1>4. ASSUME NEW s \in DOMAIN statuses
      PROVE  LET o == OtherNext(s, Day(Date(s)'))
             IN IF o = {} THEN LastDay(s)' = NoRev
                ELSE LastDay(s)' \in o /\ \A r \in o : r <= LastDay(s)'
  BY <1>1, <1>2, <1>3 DEF DayLinks
<1>5. /\ Date(n)' = date[p]
      /\ LastDay(n)' = IF q = NoRev THEN NoRev
                       ELSE IF Day(Date(q)) = Day(date[p]) THEN LastDay(q) ELSE q
      /\ q \in DOMAIN statuses \cup {NoRev}
      /\ chain'[n] = {n} \cup IF q = NoRev THEN {} ELSE chain[q]
  <2>1. /\ statuses'[n] = Linked(date[p], q) /\ q \in DOMAIN statuses \cup {NoRev}
        /\ chain'[n] = {n} \cup IF q = NoRev THEN {} ELSE chain[q]
    BY <1>1, <1>n, <1>q, PushGrows
  <2>2. /\ Linked(date[p], q).date = date[p]
        /\ Linked(date[p], q).lastDay =
             IF q = NoRev THEN NoRev
             ELSE IF Day(Date(q)) = Day(date[p]) THEN LastDay(q) ELSE q
    BY DEF Linked
  <2> QED
    BY <2>1, <2>2 DEF Date, LastDay
<1>6. LET o == OtherNext(n, Day(Date(n)'))
      IN IF o = {} THEN LastDay(n)' = NoRev
         ELSE LastDay(n)' \in o /\ \A r \in o : r <= LastDay(n)'
  <2>1. CASE q = NoRev
    <3>1. OtherNext(n, Day(Date(n)')) = {}
      BY <1>5, <2>1
    <3> QED
      BY <1>5, <2>1, <3>1
  <2>2. CASE q # NoRev
    <3>1. q \in DOMAIN statuses /\ chain'[n] = {n} \cup chain[q]
      BY <1>5, <2>2
    <3>2. OtherNext(n, Day(Date(n)')) = Other(q, Day(date[p]))
      BY <1>2, <1>5, <3>1
    <3>3. CASE Day(Date(q)) = Day(date[p])
      BY <1>1, <1>5, <2>2, <3>1, <3>2, <3>3 DEF DayLinks
    <3>4. CASE Day(Date(q)) # Day(date[p])
      <4>1. q \in chain[q] /\ \A r \in chain[q] : r <= q
        BY <1>1, <3>1 DEF Chains
      <4> QED
        BY <1>5, <2>2, <3>2, <3>4, <4>1
    <3> QED
      BY <3>3, <3>4
  <2> QED
    BY <2>1, <2>2
<1> QED
  BY <1>1, <1>4, <1>6, <1>n, PushGrows DEF DayLinks

LEMMA NextHInv == HInv /\ [Next]_vars => HInv'
<1> SUFFICES ASSUME HInv, [Next]_vars PROVE HInv'
  OBVIOUS
<1>1. TypeOK'
  BY NextTypeOK DEF HInv
<1>2. ASSUME NEW p \in Providers, Push(p) PROVE HInv'
  BY <1>1, <1>2, PushChains, PushDayLinks DEF HInv
<1>3. CASE \A p \in Providers : ~ Push(p)
  <2>1. UNCHANGED <<statuses, chain>>
    BY <1>3, OnlyPushWrites
  <2> QED
    BY <1>1, <2>1 DEF HInv, Chains, DayLinks, Prev, Date, LastDay
<1> QED
  BY <1>2, <1>3

LEMMA InitHInv == Init => HInv
<1> SUFFICES ASSUME Init PROVE HInv
  OBVIOUS
<1>1. DOMAIN statuses = {}
  BY DEF Init
<1> QED
  BY <1>1, InitTypeOK DEF HInv, Chains, DayLinks

(* However the providers interleave, and although each sees only the       *)
(* status it replaces, the link to the day before leads to the last status *)
(* of another day (Engine._status_as_linked_list).                         *)
THEOREM LinksSkipOneDay == Spec => []DayLinks
<1>1. HInv => DayLinks
  BY DEF HInv
<1> QED
  BY <1>1, InitHInv, NextHInv, PTL DEF Spec

-----------------------------------------------------------------------------
(* The search.                                                             *)

(* What is behind the search while it walks: the statuses it left are      *)
(* after the start date, and those of the period among them are not after  *)
(* toRev or on a day that it stepped over.                                 *)
WalkInv ==
  spc = "walk" =>
    /\ top \in DOMAIN statuses /\ at \in chain[top]
    /\ \A s \in chain[top] : at < s => from < Date(s)
    /\ gone => at < compacted
    /\ to = NoDate => toRev = NoRev
    /\ toRev # NoRev => at <= toRev
    /\ BeforeEnd(at) => gone \/ toRev # NoRev
    /\ to # NoDate => \A s \in chain[top] :
         at < s /\ InPeriod(s) => (toRev # NoRev /\ s <= toRev) \/ SteppedOver(s)

(* No search has met a compacted revision yet.                             *)
NotGone == spc \in {"idle", "first"} => ~ gone

SInv == HInv /\ NotGone /\ WalkInv /\ StartsInPeriod /\ MissedForACause

LEMMA ChainFacts ==
  ASSUME HInv, NEW s \in DOMAIN statuses
  PROVE  /\ s \in Nat /\ s \in chain[s]
         /\ \A r \in chain[s] : /\ r \in DOMAIN statuses /\ r \in Nat /\ r <= s
                                /\ chain[r] = {q \in chain[s] : q <= r}
                                /\ Date(r) \in Nat /\ LastDay(r) \in StatusOrNone
         /\ Date(s) \in Nat
         /\ Prev(s) = NoRev => chain[s] = {s}
         /\ from \in Nat /\ compacted \in Nat /\ to \in Nat \cup {NoDate}
         /\ rev \in Nat /\ NoRev \notin DOMAIN statuses
<1>1. TypeOK /\ Chains
  BY DEF HInv
<1>2. ASSUME NEW r \in DOMAIN statuses
      PROVE  r \in Nat /\ Date(r) \in Nat /\ LastDay(r) \in StatusOrNone /\ r # NoRev
  BY <1>1 DEF TypeOK, Status, Date, LastDay, Times, NoRev
<1>3. chain[s] \subseteq DOMAIN statuses
  BY <1>1 DEF TypeOK
<1>4. from \in Nat /\ compacted \in Nat /\ to \in Nat \cup {NoDate} /\ rev \in Nat
  BY <1>1 DEF TypeOK, Times, Revisions
<1> QED
  BY <1>1, <1>2, <1>3, <1>4 DEF Chains

(* One step of the walk: it goes down the chain, and what it passes is     *)
(* after the start date, either the status it leaves or one of its day.    *)
LEMMA LinkLeads ==
  ASSUME HInv, NEW a \in DOMAIN statuses, from < Date(a), Prev(a) # NoRev, Link(a) # NoRev
  PROVE  /\ Link(a) \in chain[a] /\ Link(a) < a
         /\ \A r \in chain[a] :
              Link(a) < r => /\ from < Date(r)
                             /\ r # a => /\ Day(Date(a)) = Day(Date(r))
                                         /\ Day(Date(a)) # Day(from)
<1>1. CASE Day(Date(a)) = Day(from)
  <2>1. Prev(a) \in DOMAIN statuses /\ Prev(a) < a /\ chain[a] = {a} \cup chain[Prev(a)]
    BY DEF HInv, TypeOK, Status, StatusOrNone, Prev, Chains
  <2>2. Prev(a) \in chain[Prev(a)] /\ \A r \in chain[Prev(a)] : r <= Prev(a) /\ r \in Nat
    BY <2>1, ChainFacts
  <2>3. Prev(a) \in Nat
    BY <2>1, ChainFacts
  <2>4. \A r \in chain[a] : Prev(a) < r => r = a
    BY <2>1, <2>2, <2>3
  <2> QED
    BY <1>1, <2>1, <2>2, <2>4 DEF Link
<1>2. CASE Day(Date(a)) # Day(from)
  <2>1. Link(a) = LastDay(a)
    BY <1>2 DEF Link
  <2>2. /\ LastDay(a) \in {r \in chain[a] : Day(Date(r)) # Day(Date(a))}
        /\ \A r \in {q \in chain[a] : Day(Date(q)) # Day(Date(a))} : r <= LastDay(a)
    BY <2>1 DEF HInv, DayLinks
  <2>3. LastDay(a) \in Nat /\ a \in Nat /\ LastDay(a) <= a /\ LastDay(a) # a
    BY <2>2, ChainFacts
  <2>4. ASSUME NEW r \in chain[a], LastDay(a) < r
        PROVE  Day(Date(r)) = Day(Date(a)) /\ from < Date(r)
    <3>1. r \in Nat /\ Date(r) \in Nat /\ Date(a) \in Nat /\ from \in Nat
      BY ChainFacts
    <3>2. Day(Date(r)) = Day(Date(a))
      BY <2>2, <2>3, <2>4, <3>1
    <3> QED
      BY <1>2, <3>1, <3>2, LaterDay
  <2> QED
    BY <1>2, <2>1, <2>2, <2>3, <2>4
<1> QED
  BY <1>1, <1>2

(* The providers and the store do not disturb the walk.                    *)
LEMMA StoreWalkInv ==
  ASSUME SInv, spc \notin Results, UNCHANGED search,
         compacted' \in Nat, compacted <= compacted',
         DOMAIN statuses \subseteq DOMAIN statuses',
         \A r \in DOMAIN statuses : statuses'[r] = statuses[r] /\ chain'[r] = chain[r]
  PROVE  NotGone' /\ WalkInv' /\ StartsInPeriod' /\ MissedForACause'
<1>1. NotGone' /\ StartsInPeriod' /\ MissedForACause'
  BY DEF SInv, NotGone, search, Results, StartsInPeriod, MissedForACause
<1>2. CASE spc # "walk"
  BY <1>1, <1>2 DEF search, WalkInv
<1>3. CASE spc = "walk"
  <2>1. /\ top' = top /\ at' = at /\ from' = from /\ to' = to /\ toRev' = toRev
        /\ gone' = gone /\ top \in DOMAIN statuses /\ at \in DOMAIN statuses
        /\ chain'[top] = chain[top] /\ at \in chain[top]
    BY <1>3, ChainFacts DEF SInv, WalkInv, search
  <2>2. ASSUME NEW r \in DOMAIN statuses
        PROVE  Date(r)' = Date(r) /\ LastDay(r)' = LastDay(r)
    BY DEF Date, LastDay
  <2>3. \A r \in chain[top] : r \in DOMAIN statuses
    BY <2>1, ChainFacts DEF SInv
  <2>4. \A s \in chain[top] : InPeriod(s)' <=> InPeriod(s)
    BY <2>1, <2>2, <2>3 DEF InPeriod
  <2>5. \A s \in chain[top] : SteppedOver(s) => SteppedOver(s)'
    BY <2>1, <2>2, <2>3 DEF SteppedOver
  <2>6. BeforeEnd(at)' <=> BeforeEnd(at)
    BY <2>1, <2>2 DEF BeforeEnd
  <2>7. gone => at < compacted'
    BY <1>3, <2>1, ChainFacts DEF SInv, WalkInv
  <2> QED
    BY <1>1, <1>3, <2>1, <2>2, <2>3, <2>4, <2>5, <2>6, <2>7 DEF SInv, WalkInv
<1> QED
  BY <1>2, <1>3

(* Nothing but the search itself changes what the search keeps.            *)
LEMMA StoreSInv ==
  ASSUME SInv, [Next]_vars, ~ Searching, HInv'
  PROVE  SInv'
<1>1. TypeOK /\ TypeOK'
  BY DEF SInv, HInv
<1>2. CASE UNCHANGED vars
  BY <1>2 DEF SInv, HInv, NotGone, WalkInv, StartsInPeriod, MissedForACause, InPeriod, InWindow,
              SteppedOver, OutOfOrder, BeforeEnd, Date, LastDay, vars, store, search
<1>3. ASSUME NEW d \in Periods, BeginSearch(d[1], d[2]) PROVE SInv'
  BY <1>3 DEF BeginSearch, SInv, NotGone, WalkInv, StartsInPeriod, MissedForACause
<1>4. CASE /\ spc \notin Results
           /\ \/ Tick \/ Expire \/ Compact
              \/ \E p \in Providers : Begin(p) \/ PullStatus(p) \/ Push(p) \/ PushFails(p)
  <2>1. UNCHANGED search
    BY <1>4 DEF Tick, Expire, Compact, Begin, PullStatus, Push, PushFails
  <2>2. compacted' \in Nat /\ compacted \in Nat
    BY <1>1 DEF TypeOK, Revisions
  <2>3. compacted <= compacted'
    BY <1>4, <2>2 DEF Tick, Expire, Compact, Begin, PullStatus, Push, PushFails, store
  <2>4. /\ DOMAIN statuses \subseteq DOMAIN statuses'
        /\ \A r \in DOMAIN statuses : statuses'[r] = statuses[r] /\ chain'[r] = chain[r]
    <3>1. CASE \E p \in Providers : Push(p)
      BY <1>1, <3>1, PushGrows
    <3>2. CASE ~ \E p \in Providers : Push(p)
      BY <3>2, OnlyPushWrites
    <3> QED
      BY <3>1, <3>2
  <2> QED
    BY <1>4, <2>1, <2>2, <2>3, <2>4, StoreWalkInv DEF SInv
<1> QED
  BY <1>2, <1>3, <1>4 DEF Next

LEMMA FirstStatusSInv ==
  ASSUME SInv, HInv', FirstStatus
  PROVE  SInv'
<1>1. CASE current = NoRev
  <2>1. spc' = "unknown"
    BY <1>1 DEF FirstStatus
  <2> QED
    BY <2>1 DEF SInv, NotGone, WalkInv, StartsInPeriod, MissedForACause
<1>2. CASE current # NoRev
  <2>1. /\ current \in DOMAIN statuses /\ at' = current /\ top' = current
        /\ UNCHANGED <<statuses, chain, current, from, to, gone, compacted>>
        /\ ~ gone
    BY <1>2 DEF FirstStatus, SInv, NotGone, HInv, TypeOK, StatusOrNone, store
  <2>2. /\ current \in Nat /\ current \in chain[current]
        /\ \A r \in chain[current] : r \in Nat /\ r <= current
        /\ Date(current) \in Nat /\ from \in Nat
        /\ Prev(current) = NoRev => chain[current] = {current}
    BY <2>1, ChainFacts DEF SInv
  <2>3. CASE Date(current) <= from
    <3>1. spc' = "found" /\ window' = [lo |-> current + 1, hi |-> current + 1]
      BY <1>2, <2>2, <2>3 DEF FirstStatus, Answer
    <3>2. StartsInPeriod'
      BY <2>1, <2>2, <3>1 DEF StartsInPeriod
    <3>3. ASSUME NEW s \in chain[current]
          PROVE  InPeriod(s)' => OutOfOrder(s)'
      BY <2>1, <2>2, <2>3, <3>3 DEF InPeriod, OutOfOrder, Date
    <3> QED
      BY <2>1, <3>1, <3>2, <3>3 DEF SInv, NotGone, WalkInv, MissedForACause
  <2>4. CASE from < Date(current) /\ Prev(current) = NoRev
    <3>1. /\ spc' = "found" /\ window'.lo <= current
          /\ window'.hi = current \/ (to # NoDate /\ ~ BeforeEnd(current))
      BY <1>2, <2>2, <2>4 DEF FirstStatus, Answer
    <3>2. StartsInPeriod'
      BY <2>1, <2>2, <2>4 DEF StartsInPeriod, Date
    <3>3. ASSUME NEW s \in chain[current]
          PROVE  InPeriod(s)' => InWindow(s)'
      BY <2>1, <2>2, <2>4, <3>1, <3>3 DEF InPeriod, InWindow, BeforeEnd, Date
    <3> QED
      BY <2>1, <3>1, <3>2, <3>3 DEF SInv, NotGone, WalkInv, MissedForACause
  <2>5. CASE from < Date(current) /\ Prev(current) # NoRev
    <3>1. spc' = "walk" /\ toRev' = IF BeforeEnd(current) THEN current ELSE NoRev
      BY <1>2, <2>2, <2>5 DEF FirstStatus, Answer
    <3>2. BeforeEnd(current)' <=> BeforeEnd(current)
      BY <2>1 DEF BeforeEnd, Date
    <3>3. \A s \in chain[current] : ~ (current < s)
      BY <2>2
    <3>4. NoRev # current /\ (to = NoDate => ~ BeforeEnd(current))
      BY <1>2 DEF BeforeEnd
    <3>5. BeforeEnd(at)' <=> BeforeEnd(current)
      BY <2>1, <3>2 DEF BeforeEnd, Date
    <3>6. /\ to' = NoDate => toRev' = NoRev
          /\ toRev' # NoRev => at' <= toRev'
          /\ BeforeEnd(at)' => toRev' # NoRev
      BY <2>1, <2>2, <3>1, <3>4, <3>5
    <3>7. top' \in DOMAIN statuses' /\ at' \in chain'[top']
          /\ \A s \in chain'[top'] : ~ (at' < s)
      BY <2>1, <2>2, <3>3
    <3>8. WalkInv'
      BY <2>1, <3>6, <3>7 DEF WalkInv
    <3> QED
      BY <3>1, <3>8 DEF SInv, NotGone, StartsInPeriod, MissedForACause
  <2> QED
    BY <2>2, <2>3, <2>4, <2>5
<1> QED
  BY <1>1, <1>2

LEMMA WalkSInv ==
  ASSUME SInv, HInv', Walk
  PROVE  SInv'
<1>1. /\ top \in DOMAIN statuses /\ at \in chain[top]
      /\ spc = "walk" /\ spc' = "walk"
      /\ UNCHANGED <<statuses, chain, from, to, compacted, top>>
      /\ ~ gone /\ from < Date(at) /\ Prev(at) # NoRev /\ Link(at) # NoRev
      /\ at' = Link(at) /\ gone' = (Link(at) < compacted)
  BY DEF Walk, Inside, SInv, NotGone, WalkInv, store
<1>2. PICK b : b = Link(at)
  OBVIOUS
<1>3. /\ HInv /\ at \in DOMAIN statuses /\ at \in Nat
      /\ \A s \in chain[top] : s \in Nat /\ (s <= at => s \in chain[at])
      /\ chain[at] \subseteq chain[top]
  BY <1>1, ChainFacts DEF SInv
<1>4. /\ b \in chain[at] /\ b < at /\ b \in Nat /\ b \in chain[top] /\ b \in DOMAIN statuses
      /\ \A s \in chain[at] :
           b < s => /\ from < Date(s)
                    /\ s # at => Day(Date(at)) = Day(Date(s)) /\ Day(Date(at)) # Day(from)
  BY <1>1, <1>2, <1>3, LinkLeads, ChainFacts
<1>5. toRev' = IF b >= compacted /\ BeforeEnd(b) /\ toRev = NoRev THEN b ELSE toRev
  BY <1>2 DEF Walk
<1>6. /\ to = NoDate => toRev = NoRev
      /\ toRev # NoRev => at <= toRev
      /\ BeforeEnd(at) => toRev # NoRev
      /\ to # NoDate => \A s \in chain[top] :
           at < s /\ InPeriod(s) => (toRev # NoRev /\ s <= toRev) \/ SteppedOver(s)
      /\ \A s \in chain[top] : at < s => from < Date(s)
  BY <1>1 DEF SInv, WalkInv
<1>7. /\ compacted \in Nat /\ Date(at) \in Nat /\ to \in Nat \cup {NoDate}
      /\ toRev \in Nat \cup {NoRev} /\ NoRev \notin Nat
  BY <1>3, ChainFacts DEF HInv, TypeOK, StatusOrNone, NoRev
<1>8. \A s \in chain[top] : b < s => from < Date(s)
  BY <1>3, <1>4, <1>6
<1>9. ASSUME to # NoDate, NEW s \in chain[top], b < s, InPeriod(s)
      PROVE  (toRev' # NoRev /\ s <= toRev') \/ SteppedOver(s)
  <2>1. CASE at < s
    BY <1>5, <1>6, <1>9, <2>1
  <2>2. CASE s = at
    BY <1>5, <1>6, <1>9, <2>2 DEF InPeriod, BeforeEnd
  <2>3. CASE s < at
    <3>1. Day(Date(at)) = Day(Date(s)) /\ Day(Date(at)) # Day(from)
      BY <1>3, <1>4, <1>9, <2>3
    <3>2. CASE toRev = NoRev
      <4>1. to <= Date(at)
        BY <1>6, <1>7, <1>9, <3>2 DEF BeforeEnd, NoDate
      <4> QED
        BY <1>1, <1>9, <2>3, <3>1, <4>1 DEF SteppedOver
    <3>3. CASE toRev # NoRev
      BY <1>3, <1>5, <1>6, <1>7, <2>3, <3>3
    <3> QED
      BY <3>2, <3>3
  <2> QED
    BY <1>3, <2>1, <2>2, <2>3
<1>10. /\ BeforeEnd(b) <=> BeforeEnd(b)'
       /\ \A s \in chain[top] : Date(s)' = Date(s)
       /\ \A s \in chain[top] : InPeriod(s)' <=> InPeriod(s)
       /\ \A s \in chain[top] : SteppedOver(s) <=> SteppedOver(s)'
  BY <1>1 DEF BeforeEnd, InPeriod, SteppedOver, Date, LastDay
<1>11. /\ to = NoDate => toRev' = NoRev
       /\ toRev' # NoRev => b <= toRev'
       /\ BeforeEnd(b) => b < compacted \/ toRev' # NoRev
  BY <1>3, <1>4, <1>5, <1>6, <1>7 DEF BeforeEnd
<1>12. BeforeEnd(at)' <=> BeforeEnd(b)'
  BY <1>1, <1>2 DEF BeforeEnd, Date
<1>13. gone' <=> b < compacted
  BY <1>1, <1>2, Zenon
<1>14. WalkInv'
  BY <1>1, <1>2, <1>4, <1>8, <1>9, <1>10, <1>11, <1>12, <1>13 DEF WalkInv
<1> QED
  BY <1>1, <1>14 DEF SInv, NotGone, StartsInPeriod, MissedForACause

LEMMA EndWalkSInv ==
  ASSUME SInv, HInv', EndWalk
  PROVE  SInv'
<1>1. /\ top \in DOMAIN statuses /\ at \in chain[top]
      /\ spc = "walk" /\ spc' \in {"found", "nothing"}
      /\ UNCHANGED <<statuses, chain, from, to, toRev, compacted, top>>
  BY DEF EndWalk, Answer, SInv, WalkInv, store
<1>2. /\ HInv /\ at \in DOMAIN statuses /\ at \in Nat
      /\ \A s \in chain[top] : s \in Nat /\ (s <= at => s \in chain[at])
      /\ at \in chain[at]
      /\ Prev(at) = NoRev => chain[at] = {at}
      /\ compacted \in Nat /\ Date(at) \in Nat /\ from \in Nat
  BY <1>1, ChainFacts DEF SInv
<1>3. /\ gone => at < compacted
      /\ \A s \in chain[top] : at < s => from < Date(s)
      /\ toRev # NoRev => at <= toRev
      /\ to = NoDate => toRev = NoRev
      /\ BeforeEnd(at) => gone \/ toRev # NoRev
      /\ to # NoDate => \A s \in chain[top] :
           at < s /\ InPeriod(s) => (toRev # NoRev /\ s <= toRev) \/ SteppedOver(s)
  BY <1>1 DEF SInv, WalkInv
<1>4. \/ gone \/ Date(at) <= from \/ Prev(at) = NoRev
      \/ Link(at) = NoRev
  BY <1>2 DEF EndWalk, Inside
<1>5. spc' = "found" =>
        /\ window'.hi = toRev
        /\ window'.lo = IF gone \/ Date(at) <= from THEN at + 1 ELSE at
        /\ to # NoDate => toRev # NoRev
  BY DEF EndWalk, Answer
<1>6. spc' = "nothing" => to # NoDate /\ toRev = NoRev
  BY DEF EndWalk, Answer
<1>7. StartsInPeriod'
  <2>1. ASSUME spc' = "found", NEW s \in chain[top], window'.lo <= s
        PROVE  from < Date(s)
    <3>1. CASE gone \/ Date(at) <= from
      BY <1>2, <1>3, <1>5, <2>1, <3>1
    <3>2. CASE ~ (gone \/ Date(at) <= from)
      BY <1>2, <1>3, <1>5, <2>1, <3>2
    <3> QED
      BY <3>1, <3>2
  <2> QED
    BY <1>1, <2>1 DEF StartsInPeriod, Date
(* A status below the one where the walk ended is missed for a cause.      *)
<1>8. ASSUME NEW s \in chain[top], InPeriod(s), compacted <= s, s < at
      PROVE  SteppedOver(s) \/ OutOfOrder(s)
  <2>1. s \in chain[at]
    BY <1>2, <1>8
  <2>2. CASE gone
    BY <1>2, <1>3, <1>8, <2>2
  <2>3. CASE Date(at) <= from
    BY <1>1, <1>8, <2>3 DEF OutOfOrder
  <2>4. CASE Prev(at) = NoRev
    BY <1>2, <1>8, <2>1, <2>4
  <2>5. CASE Prev(at) # NoRev /\ Link(at) = NoRev
    <3>1. Day(Date(at)) # Day(from) /\ LastDay(at) = NoRev
      BY <2>5 DEF Link
    <3>2. Day(Date(s)) = Day(Date(at))
      BY <1>2, <2>1, <3>1, ChainFacts DEF HInv, DayLinks
    <3> QED
      BY <1>1, <1>8, <3>1, <3>2 DEF SteppedOver
  <2> QED
    BY <1>4, <2>2, <2>3, <2>4, <2>5
<1>9. ASSUME NEW s \in chain[top], InPeriod(s), compacted <= s
      PROVE  InWindow(s)' \/ SteppedOver(s) \/ OutOfOrder(s)
  <2>1. CASE s < at
    BY <1>8, <1>9, <2>1
  <2>2. CASE s = at
    <3>1. ~ gone /\ ~ (Date(at) <= from)
      BY <1>2, <1>3, <1>9, <2>2 DEF InPeriod
    <3>2. to # NoDate => toRev # NoRev
      BY <1>3, <1>9, <2>2, <3>1 DEF InPeriod, BeforeEnd
    <3> QED
      BY <1>1, <1>2, <1>3, <1>5, <1>6, <2>2, <3>1, <3>2 DEF InWindow
  <2>3. CASE at < s
    <3>1. CASE to = NoDate
      BY <1>1, <1>2, <1>3, <1>5, <1>6, <2>3, <3>1 DEF InWindow
    <3>2. CASE to # NoDate /\ ~ SteppedOver(s)
      <4>1. toRev # NoRev /\ s <= toRev
        BY <1>3, <1>9, <2>3, <3>2
      <4> QED
        BY <1>1, <1>2, <1>3, <1>5, <1>6, <2>3, <4>1 DEF InWindow
    <3> QED
      BY <3>1, <3>2
  <2> QED
    BY <1>2, <2>1, <2>2, <2>3
<1>10. /\ \A s \in chain[top] : InPeriod(s)' <=> InPeriod(s)
       /\ \A s \in chain[top] : SteppedOver(s) => SteppedOver(s)'
       /\ \A s \in chain[top] : OutOfOrder(s) => OutOfOrder(s)'
  BY <1>1 DEF InPeriod, SteppedOver, OutOfOrder, Date, LastDay
<1>11. MissedForACause'
  BY <1>1, <1>9, <1>10 DEF MissedForACause
<1> QED
  BY <1>1, <1>7, <1>11 DEF SInv, NotGone, WalkInv

LEMMA NextSInv == SInv /\ [Next]_vars => SInv'
<1> SUFFICES ASSUME SInv, [Next]_vars PROVE SInv'
  OBVIOUS
<1>1. HInv'
  BY NextHInv DEF SInv
<1>2. CASE ~ Searching
  BY <1>1, <1>2, StoreSInv
<1>3. CASE Searching
  BY <1>1, <1>3, FirstStatusSInv, WalkSInv, EndWalkSInv DEF Searching
<1> QED
  BY <1>2, <1>3

LEMMA InitSInv == Init => SInv
  BY InitHInv DEF Init, SInv, NotGone, WalkInv, StartsInPeriod, MissedForACause

(* Stepping over whole days and meeting times that are out of order, the   *)
(* search never begins its window before the period                        *)
(* (EtcdEngine._from_to_revisions).                                        *)
THEOREM WindowIsInPeriod == Spec => []StartsInPeriod
<1>1. SInv => StartsInPeriod
  BY DEF SInv
<1> QED
  BY <1>1, InitSInv, NextSInv, PTL DEF Spec

(* What the window leaves out of the chain is left out because its day was *)
(* stepped over, or because a later status has a time that is too early    *)
(* (EtcdEngine._from_to_revisions).                                        *)
THEOREM MissesAreExplained == Spec => []MissedForACause
<1>1. SInv => MissedForACause
  BY DEF SInv
<1> QED
  BY <1>1, InitSInv, NextSInv, PTL DEF Spec
=============================================================================
