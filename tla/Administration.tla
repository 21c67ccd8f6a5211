--------------------------- MODULE Administration ---------------------------
(***************************************************************************)
(* The administration server (aviso_admin): one process that runs two jobs *)
(* once a day, one after the other.                                        *)
(*                                                                         *)
(* The compactor records the revision of the store, takes the records that *)
(* are out of the retention period out of its history, which is a key of   *)
(* the store, and compacts the store at the newest of them (Compactor.run).*)
(* The cleaner deletes the notifications of one day, the one that has just *)
(* left the retention period, with the help of the keys by which providers *)
(* announce the destinations of a day (Cleaner.run).                       *)
(*                                                                         *)
(* Meanwhile providers write and days pass; a job that fails ends the      *)
(* process.                                                                *)
(***************************************************************************)
EXTENDS Integers, FiniteSets

CONSTANTS
  Destinations,
  ProductDates,        \* the days of which there are notifications
  CompactorRetention,  \* retention_period of the compactor, in days
  CleanerRetention,    \* retention_period of the cleaner, in days
  Schedule,            \* the sets of jobs that have the same scheduled_time
  MaxDay               \* bound: time stops there

Mars == "mars"  \* the notifications that are not for a destination
Jobs == {"compactor", "cleaner"}
Days == 0..MaxDay
None == -1

ASSUME DestinationsAssumption == Mars \notin Destinations
ASSUME DaysAssumption ==
  /\ MaxDay \in Nat /\ ProductDates \subseteq Days
  /\ CompactorRetention \in Nat /\ CleanerRetention \in Nat
ASSUME ScheduleAssumption == UNION Schedule = Jobs

Announcement == [date : ProductDates, dest : Destinations, on : Days]
Notification == [date : ProductDates, dest : Destinations \cup {Mars}, on : Days]

VARIABLES
  day,        \* today
  struck,     \* the jobs of which the scheduled time has passed today
  rev,        \* revision of the store
  began,      \* history: the revision of the store when each day began
  compacted,  \* the store is compacted at this revision
  history,    \* the entries below history_path
  recorded,   \* history: all the entries ever saved
  index,      \* the keys below dest_path, and the day each was written
  keys,       \* the keys of notifications, and the day each was written
  pc,         \* where the process is
  due,        \* the jobs whose next_run has passed
  curr,       \* curr_rev
  start,      \* start of the retention period, for the job that runs
  old,        \* old_rev
  todo,       \* the destinations whose keys are still to be deleted
  cut         \* history: TRUE after a stop between cleaning and compaction

clock == <<day, struck, began>>
store == <<rev, compacted, history, index, keys>>
locals == <<curr, start, old, todo>>
vars == <<clock, store, pc, due, locals, recorded, cut>>

(* An entry of the history, of the past.                                   *)
Entry == [revision : 0..rev, timestamp : 0..day]

Compacting == {"save_rev", "date", "clean_history", "compact", "compacted"}
Cleaning == {"destinations", "delete", "announcements", "mars", "cleaned"}

TypeOK ==
  /\ day \in Days
  /\ struck \subseteq Jobs
  /\ rev \in Nat
  /\ began \in [0..day -> Nat]
  /\ compacted \in 0..rev
  /\ history \subseteq recorded
  /\ recorded \subseteq Entry
  /\ index \subseteq Announcement
  /\ keys \subseteq Notification
  /\ pc \in {"down", "idle"} \cup Compacting \cup Cleaning
  /\ due \subseteq Jobs
  /\ pc = "down" => due = {}
  /\ pc \in Compacting => "compactor" \in due
  /\ pc \in Cleaning => "cleaner" \in due
  /\ curr \in 0..rev
  /\ start \in Int
  /\ pc \in Compacting \ {"date"} => start + CompactorRetention \in 0..day
  /\ pc \in Cleaning => start + CleanerRetention \in 0..day
  /\ old \in 0..rev \cup {None}
  /\ todo \subseteq Destinations
  /\ cut \in BOOLEAN

Init ==
  /\ day = 0 /\ struck = {} /\ began = [d \in {0} |-> 1]
  /\ rev = 1 /\ compacted = 0
  /\ history = {} /\ recorded = {}
  /\ index = {} /\ keys = {}
  /\ pc = "down" /\ due = {}
  /\ curr = 0 /\ start = 0 /\ old = None /\ todo = {}
  /\ cut = FALSE

-----------------------------------------------------------------------------
(* Time, the providers and the process.                                    *)

NextDay ==
  /\ day < MaxDay
  /\ struck = Jobs
  /\ day' = day + 1
  /\ struck' = {}
  /\ began' = [d \in 0..day + 1 |-> IF d = day + 1 THEN rev ELSE began[d]]
  /\ UNCHANGED <<store, pc, due, locals, recorded, cut>>

(* The scheduled time of jobs js.  They run once, however long they are due.*)
Strike(js) ==
  /\ ~ js \subseteq struck
  /\ struck' = struck \cup js
  /\ due' = IF pc = "down" THEN due ELSE due \cup js
  /\ UNCHANGED <<day, began, store, pc, locals, recorded, cut>>

(* A provider announces a destination for date d.  Bound: nothing is       *)
(* written after the day on which the cleaner deletes its date.            *)
Announce(d, x) ==
  /\ d <= day /\ day <= d + CleanerRetention
  /\ \A a \in index : ~ (a.date = d /\ a.dest = x)
  /\ index' = index \cup {[date |-> d, dest |-> x, on |-> day]}
  /\ rev' = rev + 1
  /\ UNCHANGED <<clock, compacted, history, keys, pc, due, locals, recorded, cut>>

(* It notifies a destination that it has announced, or MARS.  If it is so  *)
(* late that the cleaner may have run the announcement may be gone.        *)
Notify(d, x) ==
  /\ d <= day /\ day <= d + CleanerRetention
  /\ \/ x = Mars
     \/ \E a \in index : a.date = d /\ a.dest = x
     \/ day = d + CleanerRetention
  /\ \A k \in keys : ~ (k.date = d /\ k.dest = x)
  /\ keys' = keys \cup {[date |-> d, dest |-> x, on |-> day]}
  /\ rev' = rev + 1
  /\ UNCHANGED <<clock, compacted, history, index, pc, due, locals, recorded, cut>>

Provider ==
  \E d \in ProductDates :
    \/ \E x \in Destinations : Announce(d, x)
    \/ \E x \in Destinations \cup {Mars} : Notify(d, x)

(* The next runs are in the future.                                        *)
Start ==
  /\ pc = "down"
  /\ pc' = "idle"
  /\ UNCHANGED <<clock, store, due, locals, recorded, cut>>

Forget ==
  /\ curr' = 0 /\ start' = 0 /\ old' = None /\ todo' = {}

(* The process ends wherever it is: it is stopped, or a request fails.  A  *)
(* job that raises ends the loop of main.                                  *)
Stop ==
  /\ pc # "down"
  /\ pc' = "down"
  /\ due' = {}
  /\ cut' = (cut \/ pc = "compact")
  /\ Forget
  /\ UNCHANGED <<clock, store, recorded>>

(* run_pending runs a job ...                                              *)
Run(j, first) ==
  /\ pc = "idle"
  /\ j \in due
  /\ pc' = first
  /\ UNCHANGED <<clock, store, due, recorded, cut>>

(* ... after which its next run is in the future.                          *)
Done(j, last) ==
  /\ pc = last
  /\ pc' = "idle"
  /\ due' = due \ {j}
  /\ Forget
  /\ UNCHANGED <<clock, store, recorded, cut>>

-----------------------------------------------------------------------------
(* The compactor.  Nothing else writes the history, so that it is read and *)
(* saved in one step.                                                      *)

(* Mutant: the revision recorded is the one that comes next.               *)
CurrentRev_Next ==
  /\ Run("compactor", "date")
  /\ curr' = rev + 1
  /\ UNCHANGED <<start, old, todo>>

(* get_current_server_rev.                                                 *)
CurrentRev ==
  /\ Run("compactor", "date")
  /\ curr' = rev
  /\ UNCHANGED <<start, old, todo>>

(* The date is taken after the revision.                                   *)
Date ==
  /\ pc = "date"
  /\ pc' = "save_rev"
  /\ start' = day - CompactorRetention
  /\ UNCHANGED <<clock, store, due, curr, old, todo, recorded, cut>>

(* Mutant: the revision is read when it is saved, after the date.          *)
SaveRev_ReadLate ==
  /\ pc = "save_rev"
  /\ pc' = "clean_history"
  /\ LET e == [revision |-> rev, timestamp |-> start + CompactorRetention]
     IN history' = history \cup {e} /\ recorded' = recorded \cup {e}
  /\ rev' = rev + 1
  /\ UNCHANGED <<clock, compacted, index, keys, due, locals, cut>>

(* save_rev.                                                               *)
SaveRev ==
  /\ pc = "save_rev"
  /\ pc' = "clean_history"
  /\ LET e == [revision |-> curr, timestamp |-> start + CompactorRetention]
     IN history' = history \cup {e} /\ recorded' = recorded \cup {e}
  /\ rev' = rev + 1
  /\ UNCHANGED <<clock, compacted, index, keys, due, locals, cut>>

OldRevs(h) == {e \in h : e.timestamp <= start}

(* Mutant: the oldest of the entries.                                      *)
Newest_First(es) == CHOOSE e \in es : \A f \in es : e.revision <= f.revision

(* The newest of entries es: of two with one date, the one saved first.    *)
Newest(es) ==
  CHOOSE e \in es :
    \A f \in es : f.timestamp < e.timestamp
                  \/ (f.timestamp = e.timestamp /\ e.revision <= f.revision)

(* Mutant: the history is saved as it was.                                 *)
CleanHistory_Unsaved ==
  /\ pc = "clean_history"
  /\ rev' = rev + 1
  /\ IF OldRevs(history) = {}
       THEN pc' = "compacted" /\ UNCHANGED old
       ELSE pc' = "compact" /\ old' = Newest(OldRevs(history)).revision
  /\ UNCHANGED <<clock, compacted, history, index, keys, due, curr, start, todo, recorded, cut>>

(* clean_history: the history is saved before the store is compacted.      *)
CleanHistory ==
  /\ pc = "clean_history"
  /\ history' = history \ OldRevs(history)
  /\ rev' = rev + 1
  /\ IF OldRevs(history) = {}
       THEN pc' = "compacted" /\ UNCHANGED old
       ELSE pc' = "compact" /\ old' = Newest(OldRevs(history)).revision
  /\ UNCHANGED <<clock, compacted, index, keys, due, curr, start, todo, recorded, cut>>

(* etcd refuses a revision at which it is compacted, and a future one.     *)
Accepted == compacted < old /\ old <= rev

Compact ==
  /\ pc = "compact"
  /\ Accepted
  /\ pc' = "compacted"
  /\ compacted' = old
  /\ UNCHANGED <<clock, rev, history, index, keys, due, locals, recorded, cut>>

-----------------------------------------------------------------------------
(* The cleaner.                                                            *)

CleanerDate ==
  /\ Run("cleaner", "destinations")
  /\ start' = day - CleanerRetention
  /\ UNCHANGED <<curr, old, todo>>

(* get_destinations.                                                       *)
GetDestinations ==
  /\ pc = "destinations"
  /\ pc' = "delete"
  /\ todo' = {a.dest : a \in {b \in index : b.date = start}}
  /\ UNCHANGED <<clock, store, due, curr, start, old, recorded, cut>>

(* Mutant: the end of the range is the next date, and is part of it.       *)
OfDate_AndNext(ks, d) == {k \in ks : k.date \in {d, d + 1}}

(* The range below a date ends before the next date (incr_last_byte).      *)
OfDate(ks, d) == {k \in ks : k.date = d}

(* A range that is deleted is one transaction, if there is something in it.*)
DeleteRange(ks) ==
  /\ keys' = keys \ ks
  /\ rev' = IF ks = {} THEN rev ELSE rev + 1

(* delete_keys, of one destination after the other.                        *)
DeleteKeys ==
  /\ pc = "delete"
  /\ IF todo = {}
       THEN pc' = "announcements" /\ UNCHANGED <<keys, rev, todo>>
       ELSE \E x \in todo :
              /\ DeleteRange({k \in OfDate(keys, start) : k.dest = x})
              /\ todo' = todo \ {x}
              /\ UNCHANGED pc
  /\ UNCHANGED <<clock, compacted, history, index, due, curr, start, old, recorded, cut>>

(* delete_destination_keys.                                                *)
DeleteDestinationKeys ==
  /\ pc = "announcements"
  /\ pc' = "mars"
  /\ index' = index \ OfDate(index, start)
  /\ rev' = IF OfDate(index, start) = {} THEN rev ELSE rev + 1
  /\ UNCHANGED <<clock, compacted, history, keys, due, locals, recorded, cut>>

(* Mutant: the date is computed anew.                                      *)
DeleteMars_Now ==
  /\ pc = "mars"
  /\ pc' = "cleaned"
  /\ DeleteRange({k \in OfDate(keys, day - CleanerRetention) : k.dest = Mars})
  /\ UNCHANGED <<clock, compacted, history, index, due, locals, recorded, cut>>

(* delete_keys, of MARS.                                                   *)
DeleteMars ==
  /\ pc = "mars"
  /\ pc' = "cleaned"
  /\ DeleteRange({k \in OfDate(keys, start) : k.dest = Mars})
  /\ UNCHANGED <<clock, compacted, history, index, due, locals, recorded, cut>>

-----------------------------------------------------------------------------
Compactor ==
  \/ CurrentRev \/ Date \/ SaveRev \/ CleanHistory \/ Compact
  \/ Done("compactor", "compacted")

Cleaner ==
  \/ CleanerDate \/ GetDestinations \/ DeleteKeys \/ DeleteDestinationKeys \/ DeleteMars
  \/ Done("cleaner", "cleaned")

Next ==
  \/ NextDay
  \/ \E js \in Schedule : Strike(js)
  \/ Provider
  \/ Start
  \/ Stop
  \/ Compactor
  \/ Cleaner

Spec == Init /\ [][Next]_vars

-----------------------------------------------------------------------------
(* Properties.                                                             *)

(* What was written on a day of the retention period can be read at every  *)
(* revision since: the store is not compacted after that day began, even   *)
(* if midnight falls between two steps of a job (Compactor.run).           *)
RetainedIsReadable ==
  \A d \in 0..day : day < d + CompactorRetention => compacted <= began[d]

(* The store accepts the revision it is asked to be compacted at, whatever *)
(* runs were missed or stopped before: a refusal would end the process     *)
(* (Compactor.compact).                                                    *)
CompactionAccepted == pc = "compact" => Accepted

(* When the compactor ends, the store is compacted at every revision that  *)
(* was ever recorded for a day out of the retention period, but for those  *)
(* of a day that had an earlier one, and unless a run was stopped after it *)
(* had cleaned the history (Compactor.clean_history).                      *)
SpaceIsReclaimed ==
  (pc = "compacted" /\ ~ cut) =>
    \A e \in recorded :
      e.timestamp <= start =>
        \/ e.revision <= compacted
        \/ \E f \in recorded : f.timestamp = e.timestamp /\ f.revision < e.revision

(* When the cleaner ends, nothing is left of its day but what came so late *)
(* that the cleaner could be running (Cleaner.run).                        *)
CleanedDayIsEmpty ==
  pc = "cleaned" =>
    \A k \in OfDate(keys, start) \cup OfDate(index, start) : k.on >= start + CleanerRetention

(* No step deletes a notification whose day is in the retention period, or *)
(* an announcement while a notification of an earlier day depends on it to *)
(* be found (Cleaner.run).                                                 *)
OnlyOldIsDeleted ==
  [][/\ \A k \in keys \ keys' : k.date + CleanerRetention <= day
     /\ \A a \in index \ index' :
          \A k \in keys : (k.date = a.date /\ k.dest = a.dest)
                            => k.on >= a.date + CleanerRetention]_vars
=============================================================================
