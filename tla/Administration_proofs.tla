------------------------ MODULE Administration_proofs ------------------------
(***************************************************************************)
(* Proofs about Administration, for any destinations, dates, retention     *)
(* periods, schedules and number of days.                                  *)
(***************************************************************************)
EXTENDS Administration, WellFoundedInduction, TLAPS

-----------------------------------------------------------------------------
(* The entry at which clean_history tells the compactor to compact.        *)

LEMMA LeastNumber ==
  ASSUME NEW S, S \subseteq Nat, S # {}
  PROVE  \E n \in S : \A k \in S : n <= k
<1>1. PICK n \in S : \A k \in S : ~ (<<k, n>> \in OpToRel(<, Nat))
  BY WFMin, NatLessThanWellFounded, Zenon
<1>2. \A k \in S : ~ (k < n)
  BY <1>1 DEF OpToRel
<1> QED
  BY <1>2

(* It exists: of the entries with the last date, the one with the lowest   *)
(* revision.                                                               *)
LEMMA NewestExists ==
  ASSUME NEW es, es \subseteq [revision : Nat, timestamp : Days], es # {}
  PROVE  /\ Newest(es) \in es
         /\ \A f \in es : \/ f.timestamp < Newest(es).timestamp
                          \/ /\ f.timestamp = Newest(es).timestamp
                             /\ Newest(es).revision <= f.revision
<1>1. \A e \in es : e.timestamp \in 0..MaxDay /\ e.revision \in Nat
  BY DEF Days
<1>2. MaxDay \in Nat
  BY DaysAssumption
<1> DEFINE ages == {MaxDay - e.timestamp : e \in es}
<1>3. PICK a \in ages : \A b \in ages : a <= b
  <2>1. ages \subseteq Nat /\ ages # {}
    BY <1>1, <1>2
  <2> HIDE DEF ages
  <2> QED
    BY <2>1, LeastNumber
<1>4. PICK e0 \in es : a = MaxDay - e0.timestamp
  OBVIOUS
<1>5. ASSUME NEW f \in es PROVE f.timestamp <= e0.timestamp
  <2>1. MaxDay - f.timestamp \in ages
    OBVIOUS
  <2>2. MaxDay - e0.timestamp <= MaxDay - f.timestamp
    BY <1>3, <1>4, <2>1
  <2> QED
    BY <1>1, <1>2, <2>2
<1> DEFINE last == {f \in es : f.timestamp = e0.timestamp}
           revs == {f.revision : f \in last}
<1>6. PICK r \in revs : \A q \in revs : r <= q
  <2>1. revs \subseteq Nat /\ revs # {}
    BY <1>1
  <2> HIDE DEF revs
  <2> QED
    BY <2>1, LeastNumber
<1>7. PICK e1 \in last : e1.revision = r
  OBVIOUS
<1>8. \A f \in es : \/ f.timestamp < e1.timestamp
                    \/ f.timestamp = e1.timestamp /\ e1.revision <= f.revision
  BY <1>1, <1>5, <1>6, <1>7
<1> QED
  BY <1>7, <1>8 DEF Newest

-----------------------------------------------------------------------------
(* The type invariant.                                                     *)

LEMMA InitTypeOK == Init => TypeOK
<1> SUFFICES ASSUME Init PROVE TypeOK
  OBVIOUS
<1>1. 0 \in Days
  BY DaysAssumption DEF Days
<1>2. began \in [0..day -> Nat]
  BY DEF Init
<1>3. cut \in BOOLEAN
  BY DEF Init
<1> QED
  BY <1>1, <1>2, <1>3 DEF Init, TypeOK, Compacting, Cleaning

LEMMA OldNewest ==
  ASSUME TypeOK, OldRevs(history) # {}
  PROVE  /\ Newest(OldRevs(history)) \in OldRevs(history)
         /\ Newest(OldRevs(history)) \in history
         /\ Newest(OldRevs(history)).revision \in 0..rev
         /\ \A f \in OldRevs(history) :
              \/ f.timestamp < Newest(OldRevs(history)).timestamp
              \/ /\ f.timestamp = Newest(OldRevs(history)).timestamp
                 /\ Newest(OldRevs(history)).revision <= f.revision
<1>1. history \subseteq Entry /\ OldRevs(history) \subseteq history
  BY DEF TypeOK, OldRevs
<1>2. Entry \subseteq [revision : Nat, timestamp : Days]
  BY DaysAssumption DEF TypeOK, Entry, Days
<1>3. OldRevs(history) \subseteq [revision : Nat, timestamp : Days]
  BY <1>1, <1>2
<1> QED
  BY <1>1, <1>3, NewestExists DEF Entry

LEMMA JobsFacts ==
  /\ "compactor" \in Jobs /\ "cleaner" \in Jobs
  /\ \A js \in Schedule : js \subseteq Jobs
BY ScheduleAssumption DEF Jobs

LEMMA NextTypeOK == TypeOK /\ [Next]_vars => TypeOK'
<1> SUFFICES ASSUME TypeOK, [Next]_vars PROVE TypeOK'
  OBVIOUS
<1> USE DEF TypeOK
<1>0. day \in Nat /\ rev \in Nat /\ MaxDay \in Nat /\ CompactorRetention \in Nat
      /\ CleanerRetention \in Nat /\ day <= MaxDay
  BY DaysAssumption DEF Days
<1>1. CASE NextDay
  <2>1. day' \in Days /\ began' \in [0..day' -> Nat]
    BY <1>0, <1>1 DEF NextDay, Days
  <2> QED
    BY <1>0, <1>1, <2>1 DEF NextDay, store, locals, Entry, Compacting, Cleaning
<1>2. ASSUME NEW js \in Schedule, Strike(js) PROVE TypeOK'
  <2>1. struck' \subseteq Jobs /\ due \subseteq due' /\ due' \subseteq Jobs
        /\ (pc = "down" => due' = due)
    BY <1>2, JobsFacts DEF Strike
  <2> QED
    BY <1>2, <2>1 DEF Strike, store, locals, Entry
<1>3. ASSUME NEW d \in ProductDates, NEW x \in Destinations, Announce(d, x) PROVE TypeOK'
  <2>1. index' \subseteq Announcement
    BY <1>3 DEF Announce, Announcement
  <2>2. rev' = rev + 1
    BY <1>3 DEF Announce
  <2> QED
    BY <1>0, <1>3, <2>1, <2>2 DEF Announce, clock, locals, Entry
<1>4. ASSUME NEW d \in ProductDates, NEW x \in Destinations \cup {Mars}, Notify(d, x)
      PROVE  TypeOK'
  <2>1. keys' \subseteq Notification
    BY <1>4 DEF Notify, Notification
  <2>2. rev' = rev + 1
    BY <1>4 DEF Notify
  <2> QED
    BY <1>0, <1>4, <2>1, <2>2 DEF Notify, clock, locals, Entry
<1>5. CASE Start
  BY <1>5 DEF Start, clock, store, locals, Entry, Compacting, Cleaning
<1>6. CASE Stop
  <2>1. cut' \in BOOLEAN
    BY <1>6 DEF Stop
  <2> QED
    BY <1>0, <1>6, <2>1 DEF Stop, Forget, clock, store, Entry, Compacting, Cleaning
<1>7. CASE CurrentRev
  <2>1. pc' = "date" /\ curr' = rev /\ "compactor" \in due
    BY <1>7 DEF CurrentRev, Run
  <2> QED
    BY <1>0, <1>7, <2>1 DEF CurrentRev, Run, clock, store, Entry, Compacting, Cleaning
<1>8. CASE Date
  <2>1. start' = day - CompactorRetention /\ start' \in Int
        /\ start' + CompactorRetention = day
    BY <1>0, <1>8 DEF Date
  <2> QED
    BY <1>0, <1>8, <2>1 DEF Date, clock, store, Entry, Compacting, Cleaning
<1>9. CASE SaveRev
  <2>1. start + CompactorRetention \in 0..day
    BY <1>9 DEF SaveRev, Compacting
  <2>2. Entry \subseteq Entry' /\ curr \in 0..rev'
        /\ [revision |-> curr, timestamp |-> start + CompactorRetention] \in Entry'
    BY <1>0, <1>9, <2>1 DEF SaveRev, clock, Entry
  <2>3. history' \subseteq recorded' /\ recorded' \subseteq Entry'
    BY <1>9, <2>2 DEF SaveRev
  <2> QED
    BY <1>0, <1>9, <2>1, <2>2, <2>3 DEF SaveRev, clock, locals, Compacting, Cleaning
<1>10. CASE CleanHistory
  <2>1. OldRevs(history) # {} => Newest(OldRevs(history)).revision \in 0..rev
    BY OldNewest
  <2>2. old' \in 0..rev' \cup {None}
    BY <1>0, <1>10, <2>1 DEF CleanHistory
  <2>3. history' \subseteq recorded /\ Entry \subseteq Entry'
    BY <1>0, <1>10 DEF CleanHistory, clock, Entry
  <2> QED
    BY <1>0, <1>10, <2>2, <2>3 DEF CleanHistory, clock, Compacting, Cleaning
<1>11. CASE Compact
  BY <1>0, <1>11 DEF Compact, Accepted, clock, locals, Compacting, Cleaning, Entry, None
<1>12. CASE Done("compactor", "compacted") \/ Done("cleaner", "cleaned")
  BY <1>0, <1>12 DEF Done, Forget, clock, store, Compacting, Cleaning, Entry
<1>13. CASE CleanerDate
  BY <1>0, <1>13, JobsFacts DEF CleanerDate, Run, clock, store, Compacting, Cleaning, Entry
<1>14. CASE GetDestinations
  <2>1. todo' \subseteq Destinations
    BY <1>14 DEF GetDestinations, Announcement
  <2> QED
    BY <1>0, <1>14, <2>1 DEF GetDestinations, clock, store, Compacting, Cleaning, Entry
<1>15. CASE DeleteKeys \/ DeleteMars
  <2>1. /\ rev' \in Nat /\ rev <= rev'
        /\ keys' \subseteq keys /\ todo' \subseteq todo
        /\ UNCHANGED <<clock, compacted, history, index, due, curr, start, old, recorded, cut>>
        /\ pc \in {"delete", "mars"} /\ pc' \in {"delete", "announcements", "cleaned"}
    BY <1>0, <1>15 DEF DeleteKeys, DeleteMars, DeleteRange, locals
  <2>2. Entry \subseteq Entry'
    BY <1>0, <2>1 DEF Entry, clock
  <2> QED
    BY <1>0, <2>1, <2>2 DEF clock, Compacting, Cleaning
<1>16. CASE DeleteDestinationKeys
  <2>1. rev' \in Nat /\ rev <= rev' /\ Entry \subseteq Entry'
    BY <1>0, <1>16 DEF DeleteDestinationKeys, Entry, clock
  <2> QED
    BY <1>0, <1>16, <2>1 DEF DeleteDestinationKeys, clock, locals, Compacting, Cleaning
<1>17. CASE UNCHANGED vars
  <2>1. UNCHANGED <<day, struck, began, rev, compacted, history, index, keys, pc, due, curr,
                    start, old, todo, recorded, cut>>
    BY <1>17 DEF vars, clock, store, locals
  <2>2. Entry' = Entry
    BY <2>1 DEF Entry
  <2> QED
    BY <2>1, <2>2
<1>18. Provider => TypeOK'
  BY <1>3, <1>4 DEF Provider
<1>19. Compactor => TypeOK'
  BY <1>7, <1>8, <1>9, <1>10, <1>11, <1>12 DEF Compactor
<1>20. Cleaner => TypeOK'
  BY <1>12, <1>13, <1>14, <1>15, <1>16 DEF Cleaner
<1> HIDE DEF TypeOK
<1> QED
  BY <1>1, <1>2, <1>5, <1>6, <1>17, <1>18, <1>19, <1>20 DEF Next

(* The types of the variables: the history holds entries of the past, of   *)
(* revisions that exist.                                                   *)
THEOREM TypeCorrect == Spec => []TypeOK
  BY InitTypeOK, NextTypeOK, PTL DEF Spec

-----------------------------------------------------------------------------
(* The compactor.                                                          *)

(* All the other steps leave alone what the compactor works with.          *)
LEMMA QuietStep ==
  ASSUME TypeOK, [Next]_vars, ~ NextDay,
         ~ CurrentRev, ~ Date, ~ SaveRev, ~ CleanHistory, ~ Compact
  PROVE  /\ UNCHANGED <<day, began, compacted, history, recorded>>
         /\ rev \in Nat /\ rev' \in Nat /\ rev <= rev'
         /\ cut => cut'
         /\ pc' \in Compacting => pc' = pc /\ UNCHANGED <<start, curr, old, cut>>
         /\ pc = "compact" => pc' = "compact" \/ cut'
<1> USE DEF clock, store, locals, Compacting
<1>0. rev \in Nat
  BY DEF TypeOK
<1>1. CASE \E js \in Schedule : Strike(js)
  BY <1>0, <1>1 DEF Strike
<1>5. CASE Start
  BY <1>0, <1>5 DEF Start
<1>9. CASE UNCHANGED vars
  <2>1. cut' = cut
    BY <1>9 DEF vars
  <2>2. cut => cut'
    BY <2>1
  <2> QED
    BY <1>0, <1>9, <2>2 DEF vars
<1>6. CASE Done("compactor", "compacted") \/ Done("cleaner", "cleaned")
  BY <1>0, <1>6 DEF Done, Forget
<1>7. CASE CleanerDate
  BY <1>0, <1>7 DEF CleanerDate, Run
<1>8. CASE GetDestinations
  BY <1>0, <1>8 DEF GetDestinations
<1>2. CASE Stop
  <2>1. (cut => cut') /\ (pc = "compact" => cut')
    BY <1>2, Zenon DEF Stop
  <2>2. pc' = "down" /\ UNCHANGED <<day, began, compacted, history, recorded, rev>>
    BY <1>2 DEF Stop
  <2> QED
    BY <1>0, <2>1, <2>2
<1>3. CASE Provider
  BY <1>0, <1>3 DEF Provider, Announce, Notify
<1>4. CASE DeleteKeys \/ DeleteDestinationKeys \/ DeleteMars
  BY <1>0, <1>4 DEF DeleteKeys, DeleteDestinationKeys, DeleteMars, DeleteRange
<1> QED
  BY <1>1, <1>2, <1>3, <1>4, <1>5, <1>6, <1>7, <1>8, <1>9
  DEF Next, Compactor, Cleaner

(* Revisions are recorded with a day before whose end they were reached.   *)
Early ==
  /\ \A d \in 0..day : began[d] <= rev
  /\ \A e \in recorded : \A d \in 0..day : e.timestamp < d => e.revision <= began[d]
  /\ pc = "save_rev" =>
       \A d \in 0..day : start + CompactorRetention < d => curr <= began[d]
  /\ pc = "compact" => \A d \in 0..day : start < d => old <= began[d]

EInv == TypeOK /\ Early /\ RetainedIsReadable

(* The ranges of the numbers.                                              *)
Numbers ==
  /\ day \in Nat /\ rev \in Nat /\ CompactorRetention \in Nat /\ start \in Int
  /\ compacted \in Nat /\ compacted <= rev /\ curr \in Nat /\ curr <= rev
  /\ \A d \in 0..day : began[d] \in Nat
  /\ \A e \in recorded : /\ e.timestamp \in Nat /\ e.timestamp <= day
                         /\ e.revision \in Nat /\ e.revision <= rev
  /\ pc \in {"save_rev", "clean_history", "compact", "compacted"}
       => start + CompactorRetention <= day
  /\ old \in Int /\ old <= rev

LEMMA NumberFacts == TypeOK => Numbers
BY DaysAssumption DEF TypeOK, Numbers, Days, Entry, Compacting, None

LEMMA NextEInv == EInv /\ [Next]_vars => EInv'
<1> SUFFICES ASSUME EInv, [Next]_vars PROVE Early' /\ RetainedIsReadable'
  BY NextTypeOK DEF EInv
<1>0. TypeOK /\ Early /\ RetainedIsReadable
  BY DEF EInv
<1>n. Numbers
  BY <1>0, NumberFacts
<1> USE DEF Early, RetainedIsReadable, Numbers
<1>1. CASE NextDay
  <2>1. /\ day' = day + 1
        /\ began' = [d \in 0..day + 1 |-> IF d = day + 1 THEN rev ELSE began[d]]
        /\ UNCHANGED <<rev, compacted, recorded, pc, start, curr, old>>
    BY <1>1 DEF NextDay, store, locals
  <2>2. /\ began'[day + 1] = rev
        /\ \A d \in 0..day : began'[d] = began[d]
        /\ \A d \in 0..day' : d \in 0..day \/ d = day + 1
    BY <1>n, <2>1
  <2>3. \A d \in 0..day' : began'[d] <= rev'
    BY <1>0, <1>n, <2>1, <2>2
  <2>4. \A e \in recorded' : \A d \in 0..day' : e.timestamp < d => e.revision <= began'[d]
    BY <1>0, <1>n, <2>1, <2>2
  <2>5. pc' = "save_rev" =>
          \A d \in 0..day' : start' + CompactorRetention < d => curr' <= began'[d]
    BY <1>0, <1>n, <2>1, <2>2
  <2>6. pc' = "compact" => \A d \in 0..day' : start' < d => old' <= began'[d]
    BY <1>0, <1>n, <2>1, <2>2
  <2>7. \A d \in 0..day' : day' < d + CompactorRetention => compacted' <= began'[d]
    BY <1>0, <1>n, <2>1, <2>2
  <2> QED
    BY <2>3, <2>4, <2>5, <2>6, <2>7
<1>2. CASE CurrentRev
  BY <1>0, <1>2 DEF CurrentRev, Run, clock, store
<1>3. CASE Date
  BY <1>0, <1>n, <1>3 DEF Date, clock, store
<1>4. CASE SaveRev
  <2>1. /\ recorded' = recorded \cup
             {[revision |-> curr, timestamp |-> start + CompactorRetention]}
        /\ rev' = rev + 1 /\ pc = "save_rev" /\ pc' = "clean_history"
        /\ UNCHANGED <<day, began, compacted>>
    BY <1>4 DEF SaveRev, clock, locals
  <2> QED
    BY <1>0, <1>n, <2>1
<1>5. CASE CleanHistory
  <2>1. /\ rev' = rev + 1 /\ pc = "clean_history"
        /\ UNCHANGED <<day, began, compacted, recorded, start>>
        /\ pc' = "compacted" \/ (pc' = "compact" /\ OldRevs(history) # {}
                                 /\ old' = Newest(OldRevs(history)).revision)
    BY <1>5 DEF CleanHistory, clock, locals
  <2>2. pc' = "compact" => \E e \in recorded : e.timestamp <= start /\ old' = e.revision
    BY <1>0, <2>1, OldNewest DEF TypeOK, OldRevs
  <2> QED
    BY <1>0, <1>n, <2>1, <2>2
<1>6. CASE Compact
  <2>1. /\ pc = "compact" /\ pc' = "compacted" /\ compacted' = old
        /\ UNCHANGED <<day, began, rev, recorded>>
    BY <1>6 DEF Compact, clock
  <2> QED
    BY <1>0, <1>n, <2>1
<1>7. CASE ~ NextDay /\ ~ CurrentRev /\ ~ Date /\ ~ SaveRev /\ ~ CleanHistory /\ ~ Compact
  BY <1>0, <1>n, <1>7, QuietStep DEF Compacting
<1> QED
  BY <1>1, <1>2, <1>3, <1>4, <1>5, <1>6, <1>7

LEMMA InitEInv == Init => EInv
<1> SUFFICES ASSUME Init PROVE Early /\ RetainedIsReadable
  BY InitTypeOK DEF EInv
<1> QED
  BY DEF Init, Early, RetainedIsReadable

(* However days and writes fall between the steps of the compactor, what   *)
(* was written in the retention period stays readable (Compactor.run).     *)
THEOREM RetentionIsKept == Spec => []RetainedIsReadable
<1>1. EInv => RetainedIsReadable
  BY DEF EInv
<1> QED
  BY <1>1, InitEInv, NextEInv, PTL DEF Spec

(* Revisions are recorded in the order of their days, and those that are   *)
(* still in the history are beyond the one the store is compacted at.      *)
Ordered ==
  /\ \A e, f \in recorded : e.timestamp < f.timestamp => e.revision < f.revision
  /\ compacted < rev
  /\ \A e \in recorded : e.revision < rev
  /\ \A h \in history : compacted < h.revision
  /\ pc \in {"date", "save_rev"} =>
       compacted < curr /\ \A e \in recorded : e.revision < curr
  /\ pc = "save_rev" => \A e \in recorded : e.timestamp <= start + CompactorRetention
  /\ pc = "compact" => Accepted /\ old < rev /\ \A h \in history : old < h.revision

OInv == TypeOK /\ Ordered

LEMMA NextOInv == OInv /\ [Next]_vars => OInv'
<1> SUFFICES ASSUME OInv, [Next]_vars PROVE Ordered'
  BY NextTypeOK DEF OInv
<1>0. TypeOK /\ Ordered
  BY DEF OInv
<1>n. Numbers
  BY <1>0, NumberFacts
<1>h. history \subseteq recorded
  BY <1>0 DEF TypeOK
<1> USE DEF Ordered, Numbers, Accepted
<1>1. CASE NextDay
  BY <1>0, <1>n, <1>1 DEF NextDay, store, locals
<1>2. CASE CurrentRev
  <2>1. curr' = rev /\ pc' = "date"
        /\ UNCHANGED <<recorded, history, compacted, rev>>
    BY <1>2 DEF CurrentRev, Run, store
  <2> QED
    BY <1>0, <1>n, <2>1
<1>3. CASE Date
  <2>1. /\ start' + CompactorRetention = day /\ pc = "date" /\ pc' = "save_rev"
        /\ UNCHANGED <<recorded, history, compacted, rev, curr>>
    BY <1>n, <1>3 DEF Date, clock, store
  <2> QED
    BY <1>0, <1>n, <2>1
<1>4. CASE SaveRev
  <2> DEFINE e == [revision |-> curr, timestamp |-> start + CompactorRetention]
  <2>1. /\ recorded' = recorded \cup {e} /\ history' = history \cup {e}
        /\ rev' = rev + 1 /\ pc = "save_rev" /\ pc' = "clean_history"
        /\ UNCHANGED compacted
    BY <1>4 DEF SaveRev, clock, locals
  <2>2. \A f, g \in recorded' : f.timestamp < g.timestamp => f.revision < g.revision
    BY <1>0, <1>n, <2>1
  <2>3. \A f \in recorded' : f.revision < rev'
    BY <1>0, <1>n, <2>1
  <2> QED
    BY <1>0, <1>n, <2>1, <2>2, <2>3
<1>5. CASE CleanHistory
  <2>1. /\ rev' = rev + 1 /\ pc = "clean_history"
        /\ history' = history \ OldRevs(history)
        /\ UNCHANGED <<compacted, recorded, start>>
        /\ pc' = "compacted" \/ (pc' = "compact" /\ OldRevs(history) # {}
                                 /\ old' = Newest(OldRevs(history)).revision)
    BY <1>5 DEF CleanHistory, clock, locals
  <2>2. CASE pc' = "compacted"
    BY <1>0, <1>n, <2>1, <2>2
  <2>3. CASE pc' = "compact" /\ OldRevs(history) # {}
    <3>1. PICK n \in history : n.timestamp <= start /\ old' = n.revision
      BY <1>0, <2>1, <2>3, OldNewest DEF OldRevs
    <3>2. \A h \in history' : start < h.timestamp /\ h \in history /\ h \in recorded
      BY <1>h, <1>n, <2>1 DEF OldRevs
    <3>3. \A h \in history' : old' < h.revision
      BY <1>0, <1>h, <1>n, <3>1, <3>2
    <3> QED
      BY <1>0, <1>h, <1>n, <2>1, <2>3, <3>1, <3>2, <3>3
  <2> QED
    BY <2>1, <2>2, <2>3
<1>6. CASE Compact
  <2>1. /\ pc = "compact" /\ pc' = "compacted" /\ compacted' = old
        /\ UNCHANGED <<history, rev, recorded>>
    BY <1>6 DEF Compact, clock
  <2> QED
    BY <1>0, <1>n, <2>1
<1>7. CASE ~ NextDay /\ ~ CurrentRev /\ ~ Date /\ ~ SaveRev /\ ~ CleanHistory /\ ~ Compact
  BY <1>0, <1>n, <1>7, QuietStep DEF Compacting
<1> QED
  BY <1>1, <1>2, <1>3, <1>4, <1>5, <1>6, <1>7

LEMMA InitOInv == Init => OInv
  BY InitTypeOK DEF Init, OInv, Ordered

(* Whatever runs were missed, late or stopped, the store accepts what the  *)
(* compactor asks for (Compactor.compact).                                 *)
THEOREM CompactionIsAccepted == Spec => []CompactionAccepted
<1>1. OInv => CompactionAccepted
  BY DEF OInv, Ordered, CompactionAccepted
<1> QED
  BY <1>1, InitOInv, NextOInv, PTL DEF Spec

-----------------------------------------------------------------------------
(* What the compactor reclaims.                                            *)

(* Compaction at r reclaims the revisions recorded with e, or the first of *)
(* its day.                                                                *)
Covered(e, r) ==
  \/ e.revision <= r
  \/ \E f \in recorded : f.timestamp = e.timestamp /\ f.revision < e.revision

(* The revision at which the store is compacted when the step is done that *)
(* clean_history has decided.                                              *)
Bound == IF pc = "compact" THEN old ELSE compacted

(* Every entry is still in the history, or it has been compacted.          *)
Reclaiming ==
  /\ ~ cut => \A e \in recorded : e \in history \/ Covered(e, Bound)
  /\ pc \in {"compact", "compacted"} => \A h \in history : start < h.timestamp

LEMMA NextReclaiming == OInv /\ Reclaiming /\ [Next]_vars => Reclaiming'
<1> SUFFICES ASSUME OInv, Reclaiming, [Next]_vars PROVE Reclaiming'
  OBVIOUS
<1>0. TypeOK /\ Ordered
  BY DEF OInv
<1>n. Numbers
  BY <1>0, NumberFacts
<1>h. history \subseteq recorded /\ cut \in BOOLEAN
  BY <1>0 DEF TypeOK
<1> USE DEF Reclaiming
<1>1. ASSUME pc' # "compact", pc' # "compacted", pc # "compact",
             UNCHANGED <<compacted, history, recorded, cut>>
      PROVE  Reclaiming'
  <2>1. Bound' = Bound /\ \A e, r : Covered(e, r)' <=> Covered(e, r)
    BY <1>1 DEF Bound, Covered
  <2> QED
    BY <1>1, <2>1
<1>2. CASE NextDay
  <2>1. UNCHANGED <<compacted, history, recorded, cut, pc, start, old>>
    BY <1>2 DEF NextDay, store, locals
  <2>2. Bound' = Bound /\ \A e, r : Covered(e, r)' <=> Covered(e, r)
    BY <2>1 DEF Bound, Covered
  <2> QED
    BY <2>1, <2>2
<1>3. CASE CurrentRev
  BY <1>1, <1>3 DEF CurrentRev, Run, store
<1>4. CASE Date
  BY <1>1, <1>4 DEF Date, store
<1>5. CASE SaveRev
  <2>1. /\ pc = "save_rev" /\ pc' = "clean_history" /\ UNCHANGED <<compacted, cut>>
        /\ history \subseteq history' /\ recorded \subseteq recorded'
        /\ \A e \in recorded' : e \in recorded \/ e \in history'
    BY <1>5 DEF SaveRev
  <2>2. Bound' = Bound /\ \A e, r : Covered(e, r) => Covered(e, r)'
    BY <2>1 DEF Bound, Covered
  <2> QED
    BY <2>1, <2>2
<1>6. CASE CleanHistory
  <2>1. /\ pc = "clean_history" /\ history' = history \ OldRevs(history)
        /\ UNCHANGED <<compacted, recorded, start, cut>>
        /\ \/ pc' = "compacted" /\ OldRevs(history) = {}
           \/ /\ pc' = "compact" /\ OldRevs(history) # {}
              /\ old' = Newest(OldRevs(history)).revision
    BY <1>6 DEF CleanHistory, clock
  <2>2. \A h \in history' : start < h.timestamp
    BY <1>h, <1>n, <2>1 DEF OldRevs, Numbers
  <2>3. CASE OldRevs(history) = {}
    <3>1. Bound' = Bound /\ history' = history /\ \A e, r : Covered(e, r)' <=> Covered(e, r)
      BY <2>1, <2>3 DEF Bound, Covered
    <3> QED
      BY <2>1, <2>2, <3>1
  <2>4. CASE OldRevs(history) # {}
    <3>1. PICK n \in history :
            /\ n = Newest(OldRevs(history))
            /\ \A f \in OldRevs(history) :
                 f.timestamp < n.timestamp \/ (f.timestamp = n.timestamp /\ n.revision <= f.revision)
      BY <1>0, <2>4, OldNewest
    <3>2. Bound' = n.revision /\ Bound = compacted
      BY <2>1, <2>4, <3>1 DEF Bound
    <3>3. ASSUME NEW e \in OldRevs(history) PROVE Covered(e, n.revision)'
      <4>1. e \in recorded /\ n \in recorded /\ e.revision \in Nat /\ n.revision \in Nat
        BY <1>h, <1>n, <3>1 DEF OldRevs, Numbers
      <4>2. CASE e.timestamp < n.timestamp
        BY <1>0, <3>1, <4>1, <4>2 DEF Covered, Ordered
      <4>3. CASE e.timestamp = n.timestamp /\ n.revision <= e.revision
        BY <2>1, <3>1, <4>1, <4>3 DEF Covered
      <4> QED
        BY <3>1, <4>2, <4>3
    <3>4. ASSUME NEW e \in recorded, Covered(e, compacted) PROVE Covered(e, n.revision)'
      <4>1. compacted < n.revision /\ compacted \in Nat /\ n.revision \in Nat /\ e.revision \in Nat
        BY <1>0, <1>h, <1>n, <3>1 DEF Ordered, Numbers
      <4> QED
        BY <2>1, <3>4, <4>1 DEF Covered
    <3>5. ~ cut' => \A e \in recorded' : e \in history' \/ Covered(e, n.revision)'
      BY <2>1, <3>2, <3>3, <3>4
    <3>6. (\A e \in recorded : e \in history \/ Covered(e, n.revision))'
            => (\A e \in recorded : e \in history \/ Covered(e, Bound))'
      BY <3>2 DEF Covered
    <3> QED
      BY <2>2, <2>1, <3>5, <3>6
  <2> QED
    BY <2>3, <2>4
<1>7. CASE Compact
  <2>1. /\ pc = "compact" /\ pc' = "compacted" /\ compacted' = old
        /\ UNCHANGED <<history, recorded, start, cut>>
    BY <1>7 DEF Compact, locals
  <2>2. Bound' = Bound /\ \A e, r : Covered(e, r)' <=> Covered(e, r)
    BY <2>1 DEF Bound, Covered
  <2> QED
    BY <2>1, <2>2
<1>8. CASE ~ NextDay /\ ~ CurrentRev /\ ~ Date /\ ~ SaveRev /\ ~ CleanHistory /\ ~ Compact
  <2>1. /\ UNCHANGED <<compacted, history, recorded>>
        /\ cut => cut'
        /\ pc' \in Compacting => pc' = pc /\ UNCHANGED <<start, old>>
        /\ pc = "compact" => pc' = "compact" \/ cut'
    BY <1>0, <1>8, QuietStep
  <2>2. \A e, r : Covered(e, r)' <=> Covered(e, r)
    BY <2>1 DEF Covered
  <2>3. ~ cut' => Bound' = Bound
    BY <2>1 DEF Bound, Compacting
  <2> QED
    BY <2>1, <2>2, <2>3 DEF Compacting
<1> QED
  BY <1>2, <1>3, <1>4, <1>5, <1>6, <1>7, <1>8

(* When the compactor ends, nothing that was recorded for a day out of the *)
(* retention period is left uncompacted, unless a run was stopped between  *)
(* the cleaning of the history and the compaction                          *)
(* (Compactor.clean_history, Compactor.compact).                           *)
THEOREM SpaceComesBack == Spec => []SpaceIsReclaimed
<1>1. Init => OInv /\ Reclaiming
  BY InitOInv DEF Init, Reclaiming
<1>2. OInv /\ Reclaiming /\ [Next]_vars => OInv' /\ Reclaiming'
  BY NextOInv, NextReclaiming
<1>3. OInv /\ Reclaiming => SpaceIsReclaimed
  <2> SUFFICES ASSUME OInv, Reclaiming, pc = "compacted", ~ cut,
                      NEW e \in recorded, e.timestamp <= start
               PROVE  Covered(e, compacted)
    BY DEF SpaceIsReclaimed, Covered
  <2>1. start \in Int /\ e.timestamp \in Nat
    BY NumberFacts DEF OInv, Numbers
  <2>2. e \notin history
    BY <2>1 DEF Reclaiming
  <2>3. Bound = compacted
    BY DEF Bound
  <2> QED
    BY <2>2, <2>3 DEF Reclaiming
<1> QED
  BY <1>1, <1>2, <1>3, PTL DEF Spec

-----------------------------------------------------------------------------
(* The cleaner.                                                            *)

(* Written when the cleaner could be running for its date, or later.       *)
Late(k) == k.on >= k.date + CleanerRetention

(* A notification for a destination can be found by its announcement.      *)
Announced ==
  \A k \in keys :
    \/ k.dest = Mars \/ Late(k)
    \/ \E a \in index : a.date = k.date /\ a.dest = k.dest

(* Of the notifications of its day, the cleaner has left those of xs.      *)
LeftOnly(xs) == \A k \in keys : k.date = start => Late(k) \/ k.dest \in xs

Sweeping ==
  /\ Announced
  /\ pc = "delete" => LeftOnly(todo \cup {Mars})
  /\ pc \in {"announcements", "mars"} => LeftOnly({Mars})
  /\ pc = "cleaned" => LeftOnly({})
  /\ pc \in {"mars", "cleaned"} => \A a \in index : a.date = start => Late(a)

(* The ranges of the days.                                                 *)
DayNumbers ==
  /\ day \in Nat /\ CleanerRetention \in Nat /\ start \in Int
  /\ \A k \in keys : k.date \in Nat /\ k.on \in Nat
  /\ \A a \in index : a.date \in Nat /\ a.on \in Nat /\ a.dest \in Destinations
  /\ \A d \in ProductDates : d \in Nat
  /\ pc \in Cleaning => start + CleanerRetention <= day

LEMMA DayNumberFacts == TypeOK => DayNumbers
<1> SUFFICES ASSUME TypeOK PROVE DayNumbers
  OBVIOUS
<1>1. MaxDay \in Nat /\ CleanerRetention \in Nat /\ ProductDates \subseteq 0..MaxDay
  BY DaysAssumption DEF Days
<1>2. day \in Nat /\ start \in Int
  BY <1>1 DEF TypeOK, Days
<1>3. \A k \in keys : k.date \in ProductDates /\ k.on \in 0..MaxDay
  BY DEF TypeOK, Notification, Days
<1>4. \A a \in index : a.date \in ProductDates /\ a.on \in 0..MaxDay /\ a.dest \in Destinations
  BY DEF TypeOK, Announcement, Days
<1>5. pc \in Cleaning => start + CleanerRetention <= day
  BY <1>1, <1>2 DEF TypeOK
<1>6. 0..MaxDay \subseteq Nat /\ ProductDates \subseteq Nat
  BY <1>1
<1> QED
  BY <1>1, <1>2, <1>3, <1>4, <1>5, <1>6 DEF DayNumbers

(* All the other steps leave alone what the cleaner works with.            *)
LEMMA CleanerQuiet ==
  ASSUME [Next]_vars, ~ Provider,
         ~ GetDestinations, ~ DeleteKeys, ~ DeleteDestinationKeys, ~ DeleteMars
  PROVE  /\ UNCHANGED <<keys, index>>
         /\ pc' \in Cleaning \ {"destinations"} => pc' = pc /\ UNCHANGED <<start, todo>>
<1> USE DEF clock, store, locals, Cleaning
<1>1. CASE \E js \in Schedule : Strike(js)
  BY <1>1 DEF Strike
<1>2. CASE NextDay \/ Start \/ Stop
  BY <1>2 DEF NextDay, Start, Stop
<1>3. CASE CurrentRev \/ CleanerDate
  BY <1>3 DEF CurrentRev, CleanerDate, Run
<1>4. CASE Date \/ SaveRev
  BY <1>4 DEF Date, SaveRev
<1>5. CASE CleanHistory
  BY <1>5 DEF CleanHistory
<1>6. CASE Compact
  BY <1>6 DEF Compact
<1>7. CASE Done("compactor", "compacted") \/ Done("cleaner", "cleaned")
  BY <1>7 DEF Done
<1>8. CASE UNCHANGED vars
  BY <1>8 DEF vars
<1> QED
  BY <1>1, <1>2, <1>3, <1>4, <1>5, <1>6, <1>7, <1>8 DEF Next, Compactor, Cleaner

LEMMA NextSweeping == TypeOK /\ Sweeping /\ [Next]_vars => Sweeping'
<1> SUFFICES ASSUME TypeOK, Sweeping, [Next]_vars PROVE Sweeping'
  OBVIOUS
<1>n. DayNumbers
  BY DayNumberFacts
<1> USE DEF Sweeping
<1>1. ASSUME NEW d \in ProductDates, NEW x \in Destinations, Announce(d, x) PROVE Sweeping'
  <2> DEFINE a == [date |-> d, dest |-> x, on |-> day]
  <2>1. index' = index \cup {a} /\ UNCHANGED <<keys, pc, start, todo>>
    BY <1>1 DEF Announce, locals
  <2>2. pc \in Cleaning /\ a.date = start => Late(a)
    BY <1>n DEF DayNumbers, Late
  <2>3. Announced'
    BY <2>1 DEF Announced, Late
  <2> HIDE DEF a
  <2>5. pc' \in {"mars", "cleaned"} => \A b \in index' : b.date = start' => Late(b)'
    BY <2>1, <2>2 DEF Late, Cleaning
  <2>6. /\ pc' = "delete" => LeftOnly(todo \cup {Mars})'
        /\ pc' \in {"announcements", "mars"} => LeftOnly({Mars})'
        /\ pc' = "cleaned" => LeftOnly({})'
    BY <2>1 DEF LeftOnly, Late
  <2> QED
    BY <2>3, <2>5, <2>6
<1>2. ASSUME NEW d \in ProductDates, NEW x \in Destinations \cup {Mars}, Notify(d, x)
      PROVE  Sweeping'
  <2> DEFINE k == [date |-> d, dest |-> x, on |-> day]
  <2>1. /\ keys' = keys \cup {k} /\ UNCHANGED <<index, pc, start, todo>>
        /\ x = Mars \/ (\E a \in index : a.date = d /\ a.dest = x) \/ day = d + CleanerRetention
    BY <1>2 DEF Notify, locals
  <2>2. pc \in Cleaning /\ k.date = start => Late(k)
    BY <1>n DEF DayNumbers, Late
  <2>3. k.dest = Mars \/ Late(k) \/ \E a \in index : a.date = k.date /\ a.dest = k.dest
    BY <2>1, <1>n DEF DayNumbers, Late
  <2> HIDE DEF k
  <2>4. Announced'
    BY <2>1, <2>3 DEF Announced, Late
  <2>5. /\ pc' = "delete" => LeftOnly(todo \cup {Mars})'
        /\ pc' \in {"announcements", "mars"} => LeftOnly({Mars})'
        /\ pc' = "cleaned" => LeftOnly({})'
    BY <2>1, <2>2 DEF LeftOnly, Late, Cleaning
  <2>6. pc' \in {"mars", "cleaned"} => \A b \in index' : b.date = start' => Late(b)'
    BY <2>1 DEF Late
  <2> QED
    BY <2>4, <2>5, <2>6
<1>3. CASE GetDestinations
  <2>1. /\ pc' = "delete" /\ UNCHANGED <<keys, index, start>>
        /\ todo' = {a.dest : a \in {b \in index : b.date = start}}
    BY <1>3 DEF GetDestinations, store
  <2>2. Announced'
    BY <2>1 DEF Announced, Late
  <2>3. LeftOnly(todo \cup {Mars})'
    BY <2>1 DEF LeftOnly, Announced, Late
  <2> QED
    BY <2>1, <2>2, <2>3
<1>4. CASE DeleteKeys
  <2>1. CASE todo = {}
    <3>1. pc = "delete" /\ pc' = "announcements" /\ UNCHANGED <<keys, index, start>>
      BY <1>4, <2>1 DEF DeleteKeys
    <3>2. Announced' /\ LeftOnly({Mars})'
      BY <2>1, <3>1 DEF Announced, LeftOnly, Late
    <3> QED
      BY <3>1, <3>2
  <2>2. CASE todo # {}
    <3>1. PICK x \in todo : /\ keys' = keys \ {k \in OfDate(keys, start) : k.dest = x}
                            /\ todo' = todo \ {x}
      BY <1>4, <2>2 DEF DeleteKeys, DeleteRange
    <3>2. pc = "delete" /\ pc' = "delete" /\ UNCHANGED <<index, start>>
      BY <1>4, <2>2 DEF DeleteKeys
    <3>3. Announced'
      BY <3>1, <3>2 DEF Announced, Late
    <3>4. LeftOnly(todo \cup {Mars})'
      BY <3>1, <3>2 DEF LeftOnly, Late, OfDate
    <3> QED
      BY <3>2, <3>3, <3>4
  <2> QED
    BY <2>1, <2>2
<1>5. CASE DeleteDestinationKeys
  <2>1. /\ pc = "announcements" /\ pc' = "mars" /\ index' = index \ OfDate(index, start)
        /\ UNCHANGED <<keys, start>>
    BY <1>5 DEF DeleteDestinationKeys, locals
  <2>2. LeftOnly({Mars})'
    BY <2>1 DEF LeftOnly, Late
  <2>3. Announced'   \* those whose announcements are deleted are late
    BY <2>1 DEF Announced, LeftOnly, Late, OfDate
  <2>4. \A a \in index' : a.date # start'
    BY <2>1 DEF OfDate
  <2> QED
    BY <2>1, <2>2, <2>3, <2>4
<1>6. CASE DeleteMars
  <2>1. /\ pc = "mars" /\ pc' = "cleaned" /\ UNCHANGED <<index, start>>
        /\ keys' = keys \ {k \in OfDate(keys, start) : k.dest = Mars}
    BY <1>6 DEF DeleteMars, DeleteRange, locals
  <2>2. Announced'
    BY <2>1 DEF Announced, Late
  <2>3. LeftOnly({})'
    BY <2>1 DEF LeftOnly, Late, OfDate
  <2>4. \A b \in index' : b.date = start' => Late(b)'
    BY <2>1 DEF Late
  <2> QED
    BY <2>1, <2>2, <2>3, <2>4
<1>7. CASE ~ Provider /\ ~ GetDestinations /\ ~ DeleteKeys /\ ~ DeleteDestinationKeys /\ ~ DeleteMars
  <2>1. /\ UNCHANGED <<keys, index>>
        /\ pc' \in Cleaning \ {"destinations"} => pc' = pc /\ UNCHANGED <<start, todo>>
    BY <1>7, CleanerQuiet
  <2>2. Announced'
    BY <2>1 DEF Announced, Late
  <2>3. CASE pc' \notin Cleaning \ {"destinations"}
    BY <2>2, <2>3 DEF Cleaning
  <2>4. CASE pc' = pc /\ UNCHANGED <<start, todo>>
    BY <2>1, <2>2, <2>4 DEF LeftOnly, Late
  <2> QED
    BY <2>1, <2>3, <2>4
<1> QED
  BY <1>1, <1>2, <1>3, <1>4, <1>5, <1>6, <1>7 DEF Provider

LEMMA InitSweeping == Init => Sweeping
  BY DEF Init, Sweeping, Announced

(* When the cleaner ends, whatever was written while it ran, nothing is    *)
(* left of its day but what came late (Cleaner.run).                       *)
THEOREM DayIsCleaned == Spec => []CleanedDayIsEmpty
<1>1. TypeOK /\ Sweeping => CleanedDayIsEmpty
  <2> SUFFICES ASSUME TypeOK, Sweeping, pc = "cleaned",
                      NEW k \in OfDate(keys, start) \cup OfDate(index, start)
               PROVE  k.on >= start + CleanerRetention
    BY DEF CleanedDayIsEmpty
  <2>1. k.date = start /\ (k \in keys \/ k \in index)
    BY DEF OfDate
  <2>2. Late(k)
    BY <2>1 DEF Sweeping, LeftOnly
  <2> QED
    BY <2>1, <2>2 DEF Late
<1> QED
  BY <1>1, InitSweeping, NextSweeping, TypeCorrect, PTL DEF Spec

(* What a step deletes is of a day out of the retention period, and an     *)
(* announcement goes only after the notifications that are found by it     *)
(* (Cleaner.run: delete_keys before delete_destination_keys).              *)
THEOREM NothingYoungIsDeleted == Spec => OnlyOldIsDeleted
<1> DEFINE Old == /\ \A k \in keys \ keys' : k.date + CleanerRetention <= day
                  /\ \A a \in index \ index' :
                       \A k \in keys : (k.date = a.date /\ k.dest = a.dest)
                                         => k.on >= a.date + CleanerRetention
<1>1. TypeOK /\ Sweeping /\ [Next]_vars => [Old]_vars
  <2> SUFFICES ASSUME TypeOK, Sweeping, [Next]_vars PROVE Old
    OBVIOUS
  <2>n. DayNumbers
    BY DayNumberFacts
  <2>1. CASE DeleteKeys \/ DeleteMars
    <3>1. pc \in Cleaning /\ index' = index /\ \A k \in keys \ keys' : k.date = start
      BY <2>1 DEF DeleteKeys, DeleteMars, DeleteRange, OfDate, Cleaning
    <3> QED
      BY <2>n, <3>1 DEF DayNumbers
  <2>2. CASE DeleteDestinationKeys
    <3>1. /\ pc = "announcements" /\ keys' = keys /\ \A a \in index \ index' : a.date = start
          /\ \A a \in index : a.dest # Mars
      BY <2>2, <2>n, DestinationsAssumption DEF DeleteDestinationKeys, OfDate, DayNumbers
    <3> QED
      BY <3>1 DEF Sweeping, LeftOnly, Late
  <2>3. CASE Provider
    BY <2>3 DEF Provider, Announce, Notify
  <2>4. CASE GetDestinations
    BY <2>4 DEF GetDestinations, store
  <2>5. CASE ~ Provider /\ ~ GetDestinations /\ ~ DeleteKeys /\ ~ DeleteDestinationKeys /\ ~ DeleteMars
    BY <2>5, CleanerQuiet
  <2> QED
    BY <2>1, <2>2, <2>3, <2>4, <2>5
<1> QED
  BY <1>1, InitSweeping, NextSweeping, TypeCorrect, PTL DEF Spec, OnlyOldIsDeleted
=============================================================================
