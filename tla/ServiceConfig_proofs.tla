------------------------ MODULE ServiceConfig_proofs ------------------------
(***************************************************************************)
(* Proofs about ServiceConfig, for any users, services, files and names.   *)
(***************************************************************************)
EXTENDS ServiceConfig, TLAPS

LEMMA KeyFacts ==
  /\ \A s \in Services, f \in Files \cup {Root} : <<s, f>> \in Keys
  /\ \A k \in Keys : k = <<k[1], k[2]>> /\ k[1] \in Services /\ k[2] \in Files \cup {Root}
  /\ \A s \in Services :
       /\ KeysBelow(s) = {k \in Keys : Exists(k) /\ k[1] = s /\ k[2] \in Files}
       /\ KeysFrom(s) = {k \in Keys : Exists(k) /\ k[1] \in BeginsWith[s]}
       /\ FilesIn(KeysBelow(s)) = {f \in Files : Exists(<<s, f>>)}
<1>1. \A s \in Services, f \in Files \cup {Root} : <<s, f>> \in Keys
  BY DEF Keys
<1>2. \A k \in Keys : k = <<k[1], k[2]>> /\ k[1] \in Services /\ k[2] \in Files \cup {Root}
  BY DEF Keys
<1>3. ASSUME NEW s \in Services
      PROVE  /\ KeysBelow(s) = {k \in Keys : Exists(k) /\ k[1] = s /\ k[2] \in Files}
             /\ KeysFrom(s) = {k \in Keys : Exists(k) /\ k[1] \in BeginsWith[s]}
             /\ FilesIn(KeysBelow(s)) = {f \in Files : Exists(<<s, f>>)}
  <2>1. KeysBelow(s) = {k \in Keys : Exists(k) /\ k[1] = s /\ k[2] \in Files}
    BY DEF KeysBelow, Keys
  <2>2. KeysFrom(s) = {k \in Keys : Exists(k) /\ k[1] \in BeginsWith[s]}
    BY NamesAssumption DEF KeysFrom, Keys
  <2>3. FilesIn(KeysBelow(s)) = {f \in Files : Exists(<<s, f>>)}
    BY DEF KeysBelow, FilesIn
  <2> QED
    BY <2>1, <2>2, <2>3
<1> QED
  BY <1>1, <1>2, <1>3

LEMMA PullFacts ==
  ASSUME NEW s \in Services
  PROVE  /\ KeysBelow(s) \subseteq Keys /\ KeysFrom(s) \subseteq Keys
         /\ FilesIn(KeysBelow(s)) \subseteq Files
<1>1. KeysBelow(s) \subseteq Keys /\ KeysFrom(s) \subseteq Keys
  BY KeyFacts
<1>2. FilesIn(KeysBelow(s)) \subseteq Files
  BY KeyFacts
<1> QED
  BY <1>1, <1>2

LEMMA PathFacts ==
  /\ \A f \in Files : f \in Paths /\ Tmp(f) \in Paths /\ Tmp(f) # f
  /\ \A f, g \in Files : Tmp(f) = Tmp(g) => f = g
  /\ \A f, g \in Files : f.tmps = 0 => Tmp(g) # f
<1>1. ASSUME NEW f \in Files
      PROVE  /\ f = [name |-> f.name, tmps |-> f.tmps] /\ f.tmps \in Nat
             /\ Tmp(f) = [name |-> f.name, tmps |-> f.tmps + 1]
             /\ Tmp(f).name = f.name /\ Tmp(f).tmps = f.tmps + 1
  BY NamesAssumption DEF Tmp
<1>2. \A f \in Files : f \in Paths /\ Tmp(f) \in Paths /\ Tmp(f) # f
  <2>1. \A f \in Files : f \in Paths /\ Tmp(f) \in Paths
    BY DEF Paths
  <2>2. \A f \in Files : Tmp(f) # f
    BY <1>1
  <2> QED
    BY <2>1, <2>2
<1>3. ASSUME NEW f \in Files, NEW g \in Files, Tmp(f) = Tmp(g) PROVE f = g
  <2>1. f.name = g.name /\ f.tmps + 1 = g.tmps + 1
    BY <1>1, <1>3
  <2>2. f.tmps = g.tmps
    BY <1>1, <2>1
  <2> QED
    BY <1>1, <2>1, <2>2
<1>4. \A f, g \in Files : f.tmps = 0 => Tmp(g) # f
  BY <1>1
<1> QED
  BY <1>2, <1>3, <1>4

-----------------------------------------------------------------------------
(* Types.                                                                  *)

LEMMA TransactionTypes ==
  ASSUME TypeOK, NEW ds, NEW new, Transaction(ds, new),
         \A k \in DOMAIN new : new[k] \in Contents
  PROVE  /\ txns' \in 0..MaxTxns /\ txns' = txns + 1
         /\ store' \in [Keys -> Seq(Contents)]
         /\ since' \in [Keys -> 0..txns']
<1>1. txns \in Nat /\ txns < MaxTxns /\ txns' = txns + 1 /\ MaxTxns \in Nat
  BY UsersAssumption DEF Transaction, TypeOK
<1>2. store' \in [Keys -> Seq(Contents)]
  <2>1. ASSUME NEW k \in Keys PROVE store'[k] \in Seq(Contents)
    <3> DEFINE kept == IF k \in ds THEN <<>> ELSE store[k]
    <3>1. kept \in Seq(Contents)
      BY DEF TypeOK
    <3>2. store'[k] = IF k \in DOMAIN new THEN Append(kept, new[k]) ELSE kept
      BY DEF Transaction
    <3> QED
      BY <3>1, <3>2
  <2>2. store' = [k \in Keys |-> store'[k]]
    BY DEF Transaction
  <2> QED
    BY <2>1, <2>2
<1>3. since' \in [Keys -> 0..txns']
  <2>1. \A k \in Keys : since[k] \in 0..txns
    BY DEF TypeOK
  <2>2. \A k \in Keys : since[k] \in 0..txns + 1 /\ txns + 1 \in 0..txns + 1
    BY <1>1, <2>1
  <2> QED
    BY <1>1, <2>2 DEF Transaction
<1> QED
  BY <1>1, <1>2, <1>3

LEMMA InitTypeOK == Init => TypeOK
<1> SUFFICES ASSUME Init PROVE TypeOK
  OBVIOUS
<1> USE DEF Init
<1>1. /\ txns \in 0..MaxTxns /\ store \in [Keys -> Seq(Contents)]
      /\ since \in [Keys -> 0..txns]
      /\ pc \in [Users -> {"idle", "look", "push", "revert"} \cup PullPCs]
      /\ files \in [Users -> SUBSET Files] /\ stale \in [Users -> SUBSET Files]
      /\ looked \in [Users -> 0..txns \cup {Never}]
      /\ folder \in [Paths -> Contents \cup {Absent, Partial}] /\ todo \subseteq Files
  BY UsersAssumption
<1>2. service \in [Users -> Services]
  BY NamesAssumption
<1>3. \A u \in Users : pc[u] \notin PullPCs
  BY DEF PullPCs
<1>4. /\ DOMAIN batch = Users
      /\ \A u \in Users : DOMAIN batch[u] = {} /\ batch[u] = [k \in {} |-> 0]
  BY DEF Nothing
<1> QED
  BY <1>1, <1>2, <1>3, <1>4, UsersAssumption DEF TypeOK

(* The commands of one user leave those of the others alone.               *)
LEMMA NextTypeOK == TypeOK /\ [Next]_vars => TypeOK'
<1> SUFFICES ASSUME TypeOK, [Next]_vars PROVE TypeOK'
  OBVIOUS
<1> USE DEF TypeOK
<1>u. Puller \in Users
  BY UsersAssumption
<1>t. txns \in Nat
  OBVIOUS
<1>n. DOMAIN Nothing = {} /\ Nothing \in [{} -> Contents]
  BY DEF Nothing
<1>1. ASSUME NEW u \in Users, NEW s \in Services, NEW fs \in SUBSET Files,
             NEW delete \in BOOLEAN, BeginPush(u, s, fs, delete)
      PROVE  TypeOK'
  BY <1>1, <1>u DEF BeginPush, Go, remote, local, PullPCs
<1>2. ASSUME NEW u \in Users, Look(u) PROVE TypeOK'
  <2>1. FilesIn(KeysBelow(service[u])) \subseteq Files
    BY KeyFacts
  <2> QED
    BY <1>2, <1>u, <1>t, <2>1 DEF Look, Go, remote, local, PullPCs
<1>3. ASSUME NEW u \in Users, Push(u) PROVE TypeOK'
  <2> DEFINE new == [k \in {service[u]} \X (files[u] \cup {Root}) |-> txns + 1]
  <2>1. Transaction({service[u]} \X Deleted(u), new)
    BY <1>3 DEF Push
  <2>2. \A k \in DOMAIN new : new[k] \in Contents
    BY <2>1, UsersAssumption DEF Contents, Transaction
  <2>3. /\ txns' \in 0..MaxTxns /\ txns' = txns + 1
        /\ store' \in [Keys -> Seq(Contents)] /\ since' \in [Keys -> 0..txns']
    BY <2>1, <2>2, TransactionTypes
  <2> QED
    BY <1>3, <1>u, <1>t, <1>n, <2>3 DEF Push, Go, Forget, local, PullPCs
<1>4. ASSUME NEW u \in Users, NEW s \in Services, Remove(u, s) PROVE TypeOK'
  <2>1. Transaction(KeysFrom(s), Nothing)
    BY <1>4 DEF Remove
  <2>2. /\ txns' \in 0..MaxTxns /\ txns' = txns + 1
        /\ store' \in [Keys -> Seq(Contents)] /\ since' \in [Keys -> 0..txns']
    BY <2>1, <1>n, TransactionTypes
  <2> QED
    BY <1>4, <1>t, <2>2 DEF Remove, command, local
<1>5. ASSUME NEW u \in Users, NEW s \in Services, LookBack(u, s) PROVE TypeOK'
  <2> DEFINE ks == {k \in KeysFrom(s) : Version(k) > 1}
             old == [k \in ks |-> store[k][Version(k) - 1]]
  <2>1. ks \subseteq Keys
    BY KeyFacts
  <2>2. ASSUME NEW k \in ks PROVE store[k][Version(k) - 1] \in Contents
    <3>1. store[k] \in Seq(Contents) /\ Len(store[k]) > 1
      BY <2>1 DEF Version
    <3>2. Len(store[k]) - 1 \in 1..Len(store[k])
      BY <3>1
    <3> QED
      BY <3>1, <3>2 DEF Version
  <2>3. DOMAIN old \subseteq Keys /\ old \in [DOMAIN old -> Contents]
    BY <2>1, <2>2
  <2>4. batch' = [batch EXCEPT ![u] = old]
    BY <1>5 DEF LookBack
  <2> HIDE DEF old, ks
  <2> QED
    BY <1>5, <1>u, <1>t, <2>3, <2>4 DEF LookBack, Go, remote, local, PullPCs
<1>6. ASSUME NEW u \in Users, Revert(u) PROVE TypeOK'
  <2>1. Transaction({}, batch[u])
    BY <1>6 DEF Revert
  <2>2. /\ txns' \in 0..MaxTxns /\ txns' = txns + 1
        /\ store' \in [Keys -> Seq(Contents)] /\ since' \in [Keys -> 0..txns']
    BY <2>1, TransactionTypes
  <2> QED
    BY <1>6, <1>u, <1>t, <1>n, <2>2 DEF Revert, Go, Forget, local, PullPCs
<1>7. ASSUME NEW u \in Users, Fail(u) PROVE TypeOK'
  BY <1>7, <1>u, <1>n DEF Fail, Forget, remote, PullPCs
<1>8. ASSUME NEW s \in Services, NEW delete \in BOOLEAN, Pull(s, delete) PROVE TypeOK'
  <2> DEFINE ks == KeysBelow(s)
             now == ContentsOf(ks)
  <2>1. ks \subseteq Keys /\ FilesIn(ks) \subseteq Files /\ ks \subseteq {s} \X Files
    BY PullFacts DEF KeysBelow
  <2>2. ASSUME NEW k \in ks PROVE Content(k) \in Contents
    <3>1. store[k] \in Seq(Contents) /\ store[k] # <<>>
      BY <2>1, KeyFacts DEF Exists
    <3>2. Len(store[k]) \in 1..Len(store[k])
      BY <3>1
    <3> QED
      BY <3>1, <3>2 DEF Content, Version
  <2>3. DOMAIN now = ks /\ now \in [DOMAIN now -> Contents]
    BY <2>2 DEF ContentsOf
  <2>4. batch' = [batch EXCEPT ![Puller] = now] /\ todo' = FilesIn(ks)
    BY <1>8 DEF Pull
  <2>6. /\ pc' = [pc EXCEPT ![Puller] = "open"]
        /\ service' = [service EXCEPT ![Puller] = s]
        /\ looked' = [looked EXCEPT ![Puller] = txns]
        /\ UNCHANGED <<txns, store, since, files, stale>>
    BY <1>8 DEF Pull, Go, remote
  <2>5. folder' \in [Paths -> Contents \cup {Absent, Partial}]
    BY <1>8 DEF Pull
  <2> HIDE DEF now, ks
  <2> QED
    BY <1>u, <1>t, <2>1, <2>3, <2>4, <2>5, <2>6 DEF PullPCs
<1>9. ASSUME NEW f \in Files, Open(f) \/ Write(f) \/ Unlink(f) \/ Rename(f) PROVE TypeOK'
  <2>1. /\ pc[Puller] \in PullPCs /\ UNCHANGED <<remote, command>>
        /\ pc' = [pc EXCEPT ![Puller] = pc'[Puller]] /\ pc'[Puller] \in PullPCs
    BY <1>9, <1>u DEF Open, Write, Unlink, Rename, Each, Go, PullPCs
  <2>2. todo' \subseteq todo \/ todo' = Pulled
    BY <1>9 DEF Open, Write, Unlink, Rename, Each
  <2>3. Pulled \subseteq Files /\ \A g \in Pulled : <<service[Puller], g>> \in DOMAIN batch[Puller]
    <3>1. DOMAIN batch[Puller] \subseteq {service[Puller]} \X Files
      BY <2>1
    <3>2. ASSUME NEW g \in Pulled
          PROVE  g \in Files /\ <<service[Puller], g>> \in DOMAIN batch[Puller]
      <4>1. PICK k \in DOMAIN batch[Puller] : g = k[2]
        BY DEF Pulled, FilesIn
      <4>2. k = <<service[Puller], g>> /\ g \in Files
        BY <3>1, <4>1
      <4> QED
        BY <4>2
    <3> QED
      BY <3>2
  <2>4. folder' \in [Paths -> Contents \cup {Absent, Partial}]
    <3>1. CASE Open(f) \/ Unlink(f) \/ Rename(f)
      BY <3>1, PathFacts DEF Open, Unlink, Rename
    <3>2. CASE Write(f)
      <4>1. f \in Pulled /\ folder' = [folder EXCEPT ![Tmp(f)] = batch[Puller][<<service[Puller], f>>]]
        BY <2>1, <3>2 DEF Write, First, Pulled
      <4> QED
        BY <1>u, <2>3, <4>1, PathFacts
    <3> QED
      BY <1>9, <3>1, <3>2
  <2> QED
    BY <1>u, <2>1, <2>2, <2>3, <2>4 DEF remote, command, Pulled
<1>10. CASE Done
  BY <1>10, <1>u, <1>n DEF Done, Go, Forget, remote, PullPCs
<1>11. CASE UNCHANGED vars
  BY <1>11 DEF vars, remote, command, local
<1> HIDE DEF TypeOK
<1> QED
  BY <1>1, <1>2, <1>3, <1>4, <1>5, <1>6, <1>7, <1>8, <1>9, <1>10, <1>11
  DEF Next, User, PullAndSave

(* The variables keep their types: a command deletes, reverts and writes   *)
(* only what it pulled (ServiceConfigManager).                             *)
THEOREM TypeCorrect == Spec => []TypeOK
  BY InitTypeOK, NextTypeOK, PTL DEF Spec

-----------------------------------------------------------------------------
(* What the steps do to the store, and to a command that waits.            *)

LEMMA OnlyTransactions ==
  ASSUME [Next]_vars, \A u \in Users : ~ Push(u) /\ ~ Revert(u),
         \A u \in Users, s \in Services : ~ Remove(u, s)
  PROVE  UNCHANGED remote
<1>1. ASSUME NEW u \in Users, User(u) PROVE UNCHANGED remote
  BY <1>1 DEF User, BeginPush, LookBack, Look, Fail
<1>2. CASE PullAndSave
  BY <1>2 DEF PullAndSave, Pull, Open, Write, Unlink, Rename, Done
<1>3. CASE UNCHANGED vars
  BY <1>3 DEF vars
<1> QED
  BY <1>1, <1>2, <1>3 DEF Next

LEMMA TransactionVersions ==
  ASSUME TypeOK, NEW ds, NEW new, Transaction(ds, new), NEW k \in Keys,
         \A j \in DOMAIN new : new[j] \in Contents
  PROVE  /\ k \in ds /\ k \in DOMAIN new => store'[k] = <<new[k]>> /\ Version(k)' = 1
         /\ k \in ds /\ k \notin DOMAIN new => store'[k] = <<>> /\ Version(k)' = 0
         /\ k \notin ds /\ k \in DOMAIN new =>
              store'[k] = Append(store[k], new[k]) /\ Version(k)' = Version(k) + 1
         /\ k \notin ds /\ k \notin DOMAIN new =>
              store'[k] = store[k] /\ Version(k)' = Version(k)
<1> DEFINE kept == IF k \in ds THEN <<>> ELSE store[k]
<1>1. kept \in Seq(Contents)
  BY DEF TypeOK
<1>2. store'[k] = IF k \in DOMAIN new THEN Append(kept, new[k]) ELSE kept
  BY DEF Transaction
<1>3. k \in DOMAIN new => Len(Append(kept, new[k])) = Len(kept) + 1
  BY <1>1
<1>4. Append(<<>>, new[k]) = <<new[k]>>
  OBVIOUS
<1>5. Len(<<>>) = 0
  OBVIOUS
<1> QED
  BY <1>2, <1>3, <1>4, <1>5 DEF Version

(* A command that is about to write was there before, or has just looked.  *)
LEMMA RevertFrom ==
  ASSUME TypeOK, [Next]_vars, NEW v \in Users, pc'[v] = "revert"
  PROVE  \/ /\ pc[v] = "revert" /\ batch'[v] = batch[v]
            /\ looked'[v] = looked[v] /\ service'[v] = service[v]
         \/ \E s \in Services : LookBack(v, s)
<1> USE DEF TypeOK
<1>1. ASSUME NEW u \in Users, User(u), u # v
      PROVE  /\ pc[v] = "revert" /\ batch'[v] = batch[v]
             /\ looked'[v] = looked[v] /\ service'[v] = service[v]
  <2>1. ASSUME NEW s \in Services, \/ \E fs \in SUBSET Files, delete \in BOOLEAN : BeginPush(u, s, fs, delete)
                                   \/ Remove(u, s)
                                   \/ LookBack(u, s)
        PROVE  /\ pc[v] = "revert" /\ batch'[v] = batch[v]
               /\ looked'[v] = looked[v] /\ service'[v] = service[v]
    BY <1>1, <2>1 DEF BeginPush, Remove, LookBack, Go, command
  <2>2. CASE Look(u) \/ Push(u) \/ Revert(u) \/ Fail(u)
    BY <1>1, <2>2 DEF Look, Push, Revert, Fail, Go, Forget
  <2> QED
    BY <1>1, <2>1, <2>2 DEF User
<1>2. CASE User(v)
  <2>1. ASSUME NEW s \in Services, \/ \E fs \in SUBSET Files, delete \in BOOLEAN : BeginPush(v, s, fs, delete)
                                   \/ Remove(v, s)
        PROVE  FALSE
    BY <2>1 DEF BeginPush, Remove, Go
  <2>2. ASSUME Look(v) \/ Push(v) \/ Revert(v) \/ Fail(v)
        PROVE  FALSE
    BY <2>2 DEF Look, Push, Revert, Fail, Go
  <2> QED
    BY <1>2, <2>1, <2>2 DEF User
<1>3. CASE PullAndSave
  <2>1. Puller \in Users /\ pc'[Puller] # "revert" /\ pc' = [pc EXCEPT ![Puller] = pc'[Puller]]
    BY <1>3, UsersAssumption DEF PullAndSave, Pull, Open, Write, Unlink, Rename, Each, Done, Go
  <2>2. v # Puller => /\ batch'[v] = batch[v]
                      /\ looked'[v] = looked[v] /\ service'[v] = service[v]
    BY <1>3 DEF PullAndSave, Pull, Open, Write, Unlink, Rename, Done, Forget, command
  <2> QED
    BY <2>1, <2>2
<1>4. CASE UNCHANGED vars
  BY <1>4 DEF vars, command
<1> QED
  BY <1>1, <1>2, <1>3, <1>4 DEF Next

-----------------------------------------------------------------------------
(* The status counts the changes.                                          *)

(* A revert that writes a file of a service writes its status too.         *)
RevertsStatus ==
  \A u \in Users : pc[u] = "revert" =>
    \A s \in Services, f \in Files :
      <<s, f>> \in DOMAIN batch[u] => <<s, Root>> \in DOMAIN batch[u]

CInv == TypeOK /\ RevertsStatus /\ StatusCountsChanges

LEMMA NextCInv == CInv /\ [Next]_vars => CInv'
<1> SUFFICES ASSUME CInv, [Next]_vars PROVE RevertsStatus' /\ StatusCountsChanges'
  BY NextTypeOK DEF CInv
<1>0. TypeOK /\ RevertsStatus /\ StatusCountsChanges
  BY DEF CInv
<1>1. RevertsStatus'
  <2> SUFFICES ASSUME NEW v \in Users, pc'[v] = "revert", NEW s \in Services, NEW f \in Files,
                      <<s, f>> \in DOMAIN batch'[v]
               PROVE  <<s, Root>> \in DOMAIN batch'[v]
    BY DEF RevertsStatus
  <2>1. CASE pc[v] = "revert" /\ batch'[v] = batch[v]
    BY <1>0, <2>1 DEF RevertsStatus
  <2>2. ASSUME NEW r \in Services, LookBack(v, r) PROVE <<s, Root>> \in DOMAIN batch'[v]
    <3>1. DOMAIN batch'[v] = {k \in KeysFrom(r) : Version(k) > 1}
      BY <1>0, <2>2 DEF LookBack, TypeOK
    <3>2. <<s, f>> \in KeysFrom(r) /\ Version(<<s, f>>) > 1
      BY <3>1
    <3>3. Version(<<s, f>>) <= Version(<<s, Root>>)
      BY <1>0 DEF StatusCountsChanges
    <3>4. <<s, f>> \in Keys /\ <<s, Root>> \in Keys
      BY KeyFacts
    <3>5. Version(<<s, f>>) \in Nat /\ Version(<<s, Root>>) \in Nat
      BY <1>0, <3>4 DEF TypeOK, Version
    <3>6. s \in BeginsWith[r]
      BY <3>2 DEF KeysFrom
    <3>7. Version(<<s, Root>>) > 1
      BY <3>2, <3>3, <3>5
    <3>8. store[<<s, Root>>] # <<>>
      BY <3>7 DEF Version
    <3> QED
      BY <3>1, <3>6, <3>7, <3>8 DEF KeysFrom, Exists
  <2> QED
    BY <1>0, <2>1, <2>2, RevertFrom
<1>2. StatusCountsChanges'
  <2> SUFFICES ASSUME NEW s \in Services, NEW f \in Files
               PROVE  Version(<<s, f>>)' <= Version(<<s, Root>>)'
    BY DEF StatusCountsChanges
  <2> DEFINE kf == <<s, f>>
             kr == <<s, Root>>
  <2>1. kf \in Keys /\ kr \in Keys
    BY KeyFacts
  <2>2. Version(kf) \in Nat /\ Version(kr) \in Nat /\ Version(kf) <= Version(kr)
    BY <1>0, <2>1 DEF TypeOK, Version, StatusCountsChanges
  <2>3. ASSUME NEW u \in Users, Push(u) PROVE Version(kf)' <= Version(kr)'
    <3> DEFINE ds == {service[u]} \X Deleted(u)
               new == [k \in {service[u]} \X (files[u] \cup {Root}) |-> txns + 1]
    <3>1. Transaction(ds, new) /\ service[u] \in Services /\ files[u] \subseteq Files
      BY <1>0, <2>3 DEF Push, TypeOK
    <3>2. \A j \in DOMAIN new : new[j] \in Contents
      BY <1>0, <3>1, UsersAssumption DEF Contents, Transaction, TypeOK
    <3>3. kr \notin ds
      BY <1>0, NamesAssumption DEF Deleted, TypeOK
    <3>4. kf \in DOMAIN new => kr \in DOMAIN new
      OBVIOUS
    <3> HIDE DEF ds, new
    <3> QED
      BY <1>0, <2>1, <2>2, <3>1, <3>2, <3>3, <3>4, TransactionVersions
  <2>4. ASSUME NEW u \in Users, NEW r \in Services, Remove(u, r)
        PROVE  Version(kf)' <= Version(kr)'
    <3>1. Transaction(KeysFrom(r), Nothing) /\ DOMAIN Nothing = {}
      BY <2>4 DEF Remove, Nothing
    <3>2. kr \in KeysFrom(r) => kf \in KeysFrom(r) \/ Version(kf) = 0
      BY <1>0, <2>1, KeyFacts DEF Exists, Version, TypeOK
    <3> QED
      BY <1>0, <2>1, <2>2, <3>1, <3>2, TransactionVersions
  <2>5. ASSUME NEW u \in Users, Revert(u) PROVE Version(kf)' <= Version(kr)'
    <3>1. Transaction({}, batch[u]) /\ pc[u] = "revert"
      BY <2>5 DEF Revert, Go
    <3>2. \A j \in DOMAIN batch[u] : batch[u][j] \in Contents
      BY <1>0 DEF TypeOK
    <3>3. kf \in DOMAIN batch[u] => kr \in DOMAIN batch[u]
      BY <1>0, <3>1 DEF RevertsStatus
    <3> QED
      BY <1>0, <2>1, <2>2, <3>1, <3>2, <3>3, TransactionVersions
  <2>6. CASE store' = store
    BY <2>2, <2>6 DEF Version
  <2> QED
    BY <2>3, <2>4, <2>5, <2>6, OnlyTransactions DEF remote
<1> QED
  BY <1>1, <1>2

LEMMA InitCInv == Init => CInv
<1> SUFFICES ASSUME Init PROVE RevertsStatus /\ StatusCountsChanges
  BY InitTypeOK DEF CInv
<1>1. \A k \in Keys : store[k] = <<>>
  BY DEF Init
<1> QED
  BY <1>1, KeyFacts DEF Init, RevertsStatus, StatusCountsChanges, Version

(* However pushes, removals and reverts interleave, and whatever names     *)
(* begin with others, a service that has files has a status, which has     *)
(* changed as often as any of them (ServiceConfigManager.revert).          *)
THEOREM StatusCounts == Spec => []StatusCountsChanges
<1>1. CInv => StatusCountsChanges
  BY DEF CInv
<1> QED
  BY <1>1, InitCInv, NextCInv, PTL DEF Spec

-----------------------------------------------------------------------------
(* The local folder.                                                       *)

LEMMA OtherSteps ==
  ASSUME TypeOK, [Next]_vars, ~ PullAndSave
  PROVE  /\ folder' = folder
         /\ \/ pc'[Puller] \notin PullPCs
            \/ UNCHANGED <<pc[Puller], batch[Puller], service[Puller], todo>>
<1> USE DEF TypeOK
<1>u. Puller \in Users
  BY UsersAssumption
<1>1. ASSUME NEW u \in Users, NEW s \in Services,
             \/ \E fs \in SUBSET Files, delete \in BOOLEAN : BeginPush(u, s, fs, delete)
             \/ LookBack(u, s)
      PROVE  /\ folder' = folder
             /\ \/ pc'[Puller] \notin PullPCs
                \/ UNCHANGED <<pc[Puller], batch[Puller], service[Puller], todo>>
  BY <1>1, <1>u DEF BeginPush, LookBack, Go, local, PullPCs
<1>2. ASSUME NEW u \in Users, NEW s \in Services, Remove(u, s)
      PROVE  UNCHANGED <<folder, pc, batch, service, todo>>
  BY <1>2 DEF Remove, command, local
<1>3. ASSUME NEW u \in Users, Look(u) \/ Push(u) \/ Revert(u) \/ Fail(u)
      PROVE  /\ folder' = folder
             /\ \/ pc'[Puller] \notin PullPCs
                \/ UNCHANGED <<pc[Puller], batch[Puller], service[Puller], todo>>
  BY <1>3, <1>u DEF Look, Push, Revert, Fail, Go, Forget, local, PullPCs
<1>4. CASE UNCHANGED vars
  BY <1>4 DEF vars, command, local
<1> QED
  BY <1>1, <1>2, <1>3, <1>4 DEF Next, User

(* Neither the name nor the temporary name of f is that of another.        *)
Clean(f) == Tmp(f) \notin Pulled /\ \A g \in Pulled : Tmp(g) # f

(* What f has on the server.                                               *)
Served(f) == batch[Puller][<<service[Puller], f>>]

(* The progress of a pull: what is written, unlinked and renamed.          *)
Progress ==
  /\ pc[Puller] \in {"open", "write"} =>
       \A f \in Pulled \ todo : folder[Tmp(f)] = Served(f)
  /\ pc[Puller] \in {"unlink", "rename"} =>
       \A f \in Pulled : folder[Tmp(f)] # Partial
  /\ pc[Puller] = "unlink" =>
       \A f \in Pulled : Clean(f) => folder[Tmp(f)] = Served(f)
  /\ pc[Puller] = "rename" =>
       \A f \in Pulled : Clean(f) =>
         folder[IF f \in todo THEN Tmp(f) ELSE f] = Served(f)
  /\ pc[Puller] = "pulled" => \A f \in Pulled : Clean(f) => folder[f] = Served(f)

FInv == TypeOK /\ NeverPartial /\ Progress

LEMMA PulledFacts ==
  ASSUME TypeOK, pc[Puller] \in PullPCs
  PROVE  /\ Pulled \subseteq Files /\ todo \subseteq Pulled
         /\ \A f \in Pulled : Served(f) \in Contents
         /\ \A k \in DOMAIN batch[Puller] : k[2] \in Pulled /\ batch[Puller][k] = Served(k[2])
<1>1. /\ DOMAIN batch[Puller] \subseteq {service[Puller]} \X Files
      /\ todo \subseteq Pulled
      /\ batch[Puller] \in [DOMAIN batch[Puller] -> Contents]
  BY UsersAssumption DEF TypeOK, Pulled
<1>2. ASSUME NEW f \in Pulled PROVE f \in Files /\ Served(f) \in Contents
  <2>1. PICK k \in DOMAIN batch[Puller] : f = k[2]
    BY DEF Pulled, FilesIn
  <2>2. k = <<service[Puller], f>> /\ f \in Files
    BY <1>1, <2>1
  <2> QED
    BY <1>1, <2>1, <2>2 DEF Served
<1>3. ASSUME NEW k \in DOMAIN batch[Puller]
      PROVE  k[2] \in Pulled /\ batch[Puller][k] = Served(k[2])
  <2>1. k = <<service[Puller], k[2]>>
    BY <1>1
  <2> QED
    BY <2>1 DEF Pulled, FilesIn, Served
<1> QED
  BY <1>1, <1>2, <1>3

LEMMA NextFInv == FInv /\ [Next]_vars => FInv'
<1> SUFFICES ASSUME FInv, [Next]_vars PROVE NeverPartial' /\ Progress'
  BY NextTypeOK DEF FInv
<1>0. TypeOK /\ NeverPartial /\ Progress
  BY DEF FInv
<1>u. Puller \in Users /\ pc \in [Users -> {"idle", "look", "push", "revert"} \cup PullPCs]
  BY <1>0, UsersAssumption DEF TypeOK
<1>f. folder \in [Paths -> Contents \cup {Absent, Partial}]
  BY <1>0 DEF TypeOK
<1>c. \A x \in Contents : x # Partial /\ x # Absent
  BY UsersAssumption DEF Contents, Partial, Absent
<1>1. CASE ~ PullAndSave
  <2>1. CASE pc'[Puller] \notin PullPCs
    BY <1>0, <1>1, <2>1, OtherSteps DEF Progress, NeverPartial, PullPCs
  <2>2. CASE UNCHANGED <<pc[Puller], batch[Puller], service[Puller], todo>>
    BY <1>0, <1>1, <2>2, OtherSteps DEF Progress, NeverPartial, Pulled, Served, Clean
  <2> QED
    BY <1>0, <1>1, <2>1, <2>2, OtherSteps
<1>2. ASSUME NEW s \in Services, NEW delete \in BOOLEAN, Pull(s, delete)
      PROVE  NeverPartial' /\ Progress'
  <2>1. pc'[Puller] = "open" /\ todo' = FilesIn(KeysBelow(s))
    BY <1>u, <1>2 DEF Pull, Go
  <2>2. \A p \in Paths : folder'[p] = folder[p] \/ folder'[p] = Absent
    BY <1>2 DEF Pull
  <2>3. Pulled' = FilesIn(KeysBelow(s))
    BY <1>0, <1>u, <1>2 DEF Pull, Pulled, ContentsOf, TypeOK
  <2> QED
    BY <1>0, <2>1, <2>2, <2>3, PathFacts DEF NeverPartial, Progress, Partial, Absent
<1>3. ASSUME NEW f \in Files, Open(f) \/ Write(f) \/ Unlink(f) \/ Rename(f)
      PROVE  NeverPartial' /\ Progress'
  <2>1. pc[Puller] \in PullPCs /\ UNCHANGED <<batch, service>> /\ f \in todo
    BY <1>3 DEF Open, Write, Unlink, Rename, Each, First, Go, PullPCs, command
  <2>2. Pulled' = Pulled /\ \A g : Served(g)' = Served(g) /\ Clean(g)' = Clean(g)
    BY <2>1 DEF Pulled, Served, Clean
  <2>3. /\ Pulled \subseteq Files /\ todo \subseteq Pulled
        /\ \A g \in Pulled : Served(g) \in Contents
    BY <1>0, <2>1, PulledFacts
  <2>4. \A g \in Files : Tmp(g) = Tmp(f) <=> g = f
    BY PathFacts
  <2>5. f \in Paths /\ Tmp(f) \in Paths /\ \A g \in Files : g \in Paths /\ Tmp(g) \in Paths
    BY PathFacts
  <2>6. CASE Open(f)
    <3>1. /\ pc[Puller] = "open" /\ pc'[Puller] = "write" /\ todo' = todo
          /\ folder' = [folder EXCEPT ![Tmp(f)] = Partial]
      BY <1>u, <2>6 DEF Open, Go
    <3>2. NeverPartial'
      BY <1>0, <1>f, <2>5, <3>1, PathFacts DEF NeverPartial
    <3> QED
      BY <1>0, <1>f, <2>1, <2>2, <2>3, <2>4, <2>5, <3>1, <3>2 DEF Progress
  <2>7. CASE Write(f)
    <3>1. /\ pc[Puller] = "write"
          /\ folder' = [folder EXCEPT ![Tmp(f)] = Served(f)]
          /\ pc'[Puller] = IF todo = {f} THEN "unlink" ELSE "open"
          /\ todo' = IF todo = {f} THEN Pulled ELSE todo \ {f}
      BY <1>u, <2>7 DEF Write, Go, Served
    <3>2. NeverPartial'
      BY <1>0, <1>f, <2>5, <3>1, PathFacts DEF NeverPartial
    <3>3. \A g \in Pulled : g \notin todo \ {f} => folder'[Tmp(g)] = Served(g)
      BY <1>0, <1>f, <2>3, <2>4, <2>5, <3>1 DEF Progress
    <3>4. CASE todo = {f}
      <4>1. \A g \in Pulled : folder'[Tmp(g)] = Served(g) /\ Served(g) # Partial
        BY <1>c, <2>3, <3>3, <3>4
      <4> QED
        BY <2>2, <3>1, <3>2, <3>4, <4>1 DEF Progress
    <3>5. CASE todo # {f}
      BY <2>2, <3>1, <3>2, <3>3, <3>5 DEF Progress
    <3> QED
      BY <3>4, <3>5
  <2>8. CASE Unlink(f)
    <3>1. /\ pc[Puller] = "unlink"
          /\ folder' = [folder EXCEPT ![f] = Absent]
          /\ pc'[Puller] = IF todo = {f} THEN "rename" ELSE "unlink"
          /\ todo' = IF todo = {f} THEN Pulled ELSE todo \ {f}
      BY <1>u, <2>8 DEF Unlink, Each, Go
    <3>2. NeverPartial'
      BY <1>0, <1>f, <2>5, <3>1, PathFacts DEF NeverPartial, Partial, Absent
    <3>3. \A g \in Pulled : folder'[Tmp(g)] # Partial
      BY <1>0, <1>f, <2>3, <2>5, <3>1 DEF Progress, Partial, Absent
    <3>4. \A g \in Pulled : Clean(g) => folder'[Tmp(g)] = Served(g)
      BY <1>0, <1>f, <2>1, <2>3, <2>5, <3>1 DEF Progress, Clean
    <3> QED
      BY <2>2, <3>1, <3>2, <3>3, <3>4 DEF Progress
  <2>9. CASE Rename(f)
    <3>1. /\ pc[Puller] = "rename"
          /\ folder' = [folder EXCEPT ![f] = folder[Tmp(f)], ![Tmp(f)] = Absent]
          /\ pc'[Puller] = IF todo = {f} THEN "pulled" ELSE "rename"
          /\ todo' = IF todo = {f} THEN Pulled ELSE todo \ {f}
      BY <1>u, <2>9 DEF Rename, Each, Go
    <3>2. folder[Tmp(f)] # Partial /\ Tmp(f) # f
      BY <1>0, <2>1, <2>3, <3>1, PathFacts DEF Progress
    <3>3. /\ folder'[f] = folder[Tmp(f)] /\ folder'[Tmp(f)] = Absent
          /\ \A p \in Paths : p # f /\ p # Tmp(f) => folder'[p] = folder[p]
      BY <1>f, <2>5, <3>1, <3>2
    <3>4. NeverPartial'
      BY <1>0, <2>5, <3>2, <3>3, PathFacts DEF NeverPartial, Partial, Absent
    <3>5. ASSUME NEW g \in Pulled PROVE folder'[Tmp(g)] # Partial
      <4>1. Tmp(g) \in Paths /\ folder[Tmp(g)] # Partial
        BY <1>0, <2>3, <2>5, <3>1, <3>5 DEF Progress
      <4>2. CASE Tmp(g) = f \/ Tmp(g) = Tmp(f)
        BY <3>2, <3>3, <4>2 DEF Partial, Absent
      <4>3. CASE Tmp(g) # f /\ Tmp(g) # Tmp(f)
        BY <3>3, <4>1, <4>3
      <4> QED
        BY <4>2, <4>3
    <3>6. ASSUME NEW g \in Pulled, Clean(g)
          PROVE  folder'[IF g \in todo \ {f} THEN Tmp(g) ELSE g] = Served(g)
      <4>1. CASE g = f
        <5>1. folder[IF g \in todo THEN Tmp(g) ELSE g] = Served(g)
          BY <1>0, <3>1, <3>6 DEF Progress
        <5>2. g \in todo /\ g \notin todo \ {f}
          BY <2>1, <4>1
        <5> QED
          BY <3>3, <4>1, <5>1, <5>2
      <4>2. CASE g # f
        <5>1. Tmp(g) # f /\ Tmp(g) # Tmp(f) /\ g # Tmp(f)
          BY <2>1, <2>3, <2>4, <3>6, <4>2 DEF Clean
        <5>2. folder[IF g \in todo THEN Tmp(g) ELSE g] = Served(g)
          BY <1>0, <3>1, <3>6 DEF Progress
        <5> QED
          BY <2>3, <2>5, <3>3, <4>2, <5>1, <5>2
      <4> QED
        BY <4>1, <4>2
    <3>7. CASE todo = {f}
      BY <2>2, <3>1, <3>4, <3>6, <3>7 DEF Progress
    <3>8. CASE todo # {f}
      BY <2>2, <3>1, <3>4, <3>5, <3>6, <3>8 DEF Progress
    <3> QED
      BY <3>7, <3>8
  <2> QED
    BY <1>3, <2>6, <2>7, <2>8, <2>9
<1>4. CASE Done
  BY <1>0, <1>u, <1>4 DEF Done, Go, NeverPartial, Progress
<1> QED
  BY <1>1, <1>2, <1>3, <1>4 DEF PullAndSave

LEMMA InitFInv == Init => FInv
<1> SUFFICES ASSUME Init PROVE NeverPartial /\ Progress
  BY InitTypeOK DEF FInv
<1>1. NeverPartial
  BY PathFacts DEF Init, NeverPartial, Absent, Partial
<1>2. pc[Puller] = "idle"
  BY UsersAssumption DEF Init
<1> QED
  BY <1>1, <1>2 DEF Progress

(* Wherever a pull is cut, the files it replaces are whole, the old ones   *)
(* or the new ones, or not there (pull_and_save).                          *)
THEOREM FilesAreWhole == Spec => []NeverPartial
<1>1. FInv => NeverPartial
  BY DEF FInv
<1> QED
  BY <1>1, InitFInv, NextFInv, PTL DEF Spec

(* A pull that ends leaves what the server had when it was asked, whatever *)
(* is in the folder and whatever others push meanwhile (pull_and_save).    *)
THEOREM PullIsFaithful == Spec => []PulledAsServed
<1>1. ASSUME FInv PROVE PulledAsServed
  BY <1>1, PulledFacts DEF FInv, Progress, PulledAsServed, Clean, PullPCs
<1> QED
  BY <1>1, InitFInv, NextFInv, PTL DEF Spec

-----------------------------------------------------------------------------
(* A push with --delete.                                                   *)

(* A key that is there was there before, or is new.                        *)
Persists(k) == since'[k] = since[k] /\ Exists(k)
Created(k) == since'[k] > txns

LEMMA StoreHistory ==
  ASSUME TypeOK, [Next]_vars, NEW k \in Keys, Exists(k)'
  PROVE  Persists(k) \/ Created(k)
<1>1. ASSUME NEW ds, NEW new, Transaction(ds, new), \A j \in DOMAIN new : new[j] \in Contents
      PROVE  Persists(k) \/ Created(k)
  <2>1. since'[k] = IF k \in DOMAIN new /\ (k \in ds \/ ~ Exists(k)) THEN txns + 1 ELSE since[k]
    BY <1>1 DEF Transaction
  <2>2. txns + 1 > txns
    BY DEF TypeOK
  <2>3. k \notin DOMAIN new => k \notin ds /\ Exists(k)
    BY <1>1, TransactionVersions DEF Exists
  <2> QED
    BY <2>1, <2>2, <2>3 DEF Persists, Created
<1>2. ASSUME NEW u \in Users, Push(u) PROVE Persists(k) \/ Created(k)
  <2> DEFINE ds == {service[u]} \X Deleted(u)
             new == [j \in {service[u]} \X (files[u] \cup {Root}) |-> txns + 1]
  <2>1. Transaction(ds, new)
    BY <1>2 DEF Push
  <2>2. \A j \in DOMAIN new : new[j] \in Contents
    BY <2>1, UsersAssumption DEF Contents, Transaction, TypeOK
  <2> HIDE DEF ds, new
  <2> QED
    BY <1>1, <2>1, <2>2
<1>3. ASSUME NEW u \in Users, NEW s \in Services, Remove(u, s) PROVE Persists(k) \/ Created(k)
  <2>1. Transaction(KeysFrom(s), Nothing) /\ DOMAIN Nothing = {}
    BY <1>3 DEF Remove, Nothing
  <2> QED
    BY <1>1, <2>1
<1>4. ASSUME NEW u \in Users, Revert(u) PROVE Persists(k) \/ Created(k)
  <2>1. Transaction({}, batch[u])
    BY <1>4 DEF Revert
  <2>2. \A j \in DOMAIN batch[u] : batch[u][j] \in Contents
    BY DEF TypeOK
  <2> QED
    BY <1>1, <2>1, <2>2
<1>5. CASE UNCHANGED remote
  BY <1>5 DEF remote, Persists, Exists
<1> QED
  BY <1>2, <1>3, <1>4, <1>5, OnlyTransactions

(* What a push with --delete has not taken as stale is new.                *)
StaleKnown(u) ==
  \A f \in Files \ files[u] :
    Exists(<<service[u], f>>) => f \in stale[u] \/ since[<<service[u], f>>] > looked[u]

DInv ==
  /\ TypeOK
  /\ \A u \in Users : pc[u] \in {"idle", "look"} => looked[u] = Never
  /\ \A u \in Users : pc[u] = "push" /\ looked[u] # Never => StaleKnown(u)

Waits(v) == UNCHANGED <<pc[v], service[v], files[v], stale[v], looked[v]>>

LEMMA PushFrom ==
  ASSUME TypeOK, [Next]_vars, NEW v \in Users
  PROVE  \/ Waits(v)
         \/ pc'[v] \in {"idle", "look", "push"} /\ looked'[v] = Never
         \/ pc[v] = "idle" /\ pc'[v] \in {"look", "push"} /\ looked'[v] = looked[v]
         \/ pc'[v] \in {"revert"} \cup PullPCs
         \/ Look(v)
<1> DEFINE P == \/ Waits(v)
                \/ pc'[v] \in {"idle", "look", "push"} /\ looked'[v] = Never
                \/ pc[v] = "idle" /\ pc'[v] \in {"look", "push"} /\ looked'[v] = looked[v]
                \/ pc'[v] \in {"revert"} \cup PullPCs
                \/ Look(v)
<1> USE DEF TypeOK
<1>1. ASSUME NEW u \in Users, User(u), u # v PROVE Waits(v)
  <2>1. ASSUME NEW s \in Services, \/ \E fs \in SUBSET Files, delete \in BOOLEAN : BeginPush(u, s, fs, delete)
                                   \/ Remove(u, s)
                                   \/ LookBack(u, s)
        PROVE  Waits(v)
    BY <1>1, <2>1 DEF BeginPush, Remove, LookBack, Go, command, Waits
  <2>2. CASE Look(u) \/ Push(u) \/ Revert(u) \/ Fail(u)
    BY <1>1, <2>2 DEF Look, Push, Revert, Fail, Go, Forget, Waits
  <2> QED
    BY <1>1, <2>1, <2>2 DEF User
<1>2. CASE User(v)
  <2>1. ASSUME NEW s \in Services, NEW fs \in SUBSET Files, NEW delete \in BOOLEAN, BeginPush(v, s, fs, delete)
        PROVE  P
    BY <2>1 DEF BeginPush, Go
  <2>2. ASSUME NEW s \in Services, Remove(v, s) PROVE Waits(v)
    BY <2>2 DEF Remove, Waits, command
  <2>3. ASSUME NEW s \in Services, LookBack(v, s) PROVE P
    BY <2>3 DEF LookBack, Go
  <2>4. CASE Push(v) \/ Revert(v) \/ Fail(v)
    BY <2>4 DEF Push, Revert, Fail, Go, Forget
  <2> QED
    BY <1>2, <2>1, <2>2, <2>3, <2>4 DEF User
<1>3. CASE PullAndSave
  <2>1. CASE Done
    BY <2>1, UsersAssumption DEF Done, Go, Forget, Waits
  <2>2. ASSUME NEW s \in Services, NEW delete \in BOOLEAN, Pull(s, delete) PROVE P
    BY <2>2, UsersAssumption DEF Pull, Go, Waits, PullPCs
  <2>3. ASSUME NEW f \in Files, Open(f) \/ Write(f) \/ Unlink(f) \/ Rename(f) PROVE P
    BY <2>3, UsersAssumption DEF Open, Write, Unlink, Rename, Each, Go, Waits, command, PullPCs
  <2> QED
    BY <1>3, <2>1, <2>2, <2>3 DEF PullAndSave
<1>4. CASE UNCHANGED vars
  BY <1>4 DEF vars, command, Waits
<1> QED
  BY <1>1, <1>2, <1>3, <1>4 DEF Next

LEMMA NextDInv == DInv /\ [Next]_vars => DInv'
<1> SUFFICES ASSUME DInv, [Next]_vars, NEW v \in Users
             PROVE  /\ pc'[v] \in {"idle", "look"} => looked'[v] = Never
                    /\ pc'[v] = "push" /\ looked'[v] # Never => StaleKnown(v)'
  BY NextTypeOK DEF DInv
<1>0. TypeOK
  BY DEF DInv
<1>1. CASE Waits(v)
  <2>1. pc'[v] \in {"idle", "look"} => looked'[v] = Never
    BY <1>1 DEF DInv, Waits
  <2>2. PICK s \in Services : s = service[v] /\ s = service'[v]
    BY <1>0, <1>1 DEF Waits, TypeOK
  <2>3. ASSUME pc'[v] = "push", looked'[v] # Never, NEW f \in Files \ files'[v],
               Exists(<<s, f>>)'
        PROVE  f \in stale'[v] \/ since'[<<s, f>>] > looked'[v]
    <3>1. StaleKnown(v) /\ f \in Files \ files[v]
      BY <1>1, <2>3 DEF DInv, Waits
    <3>2. PICK k \in Keys : k = <<s, f>>
      BY KeyFacts
    <3>3. since[k] \in Int /\ looked[v] \in Int /\ looked[v] <= txns /\ txns \in Int
      BY <1>0 DEF TypeOK, Never
    <3>4. since'[k] \in Int
      BY <1>0, NextTypeOK DEF TypeOK
    <3>5. Persists(k) \/ Created(k)
      BY <1>0, <2>3, <3>2, StoreHistory
    <3>6. CASE Persists(k)
      BY <1>1, <2>2, <3>1, <3>2, <3>6 DEF StaleKnown, Persists, Waits
    <3>7. CASE Created(k)
      BY <1>1, <3>2, <3>3, <3>4, <3>7 DEF Created, Waits
    <3> QED
      BY <3>5, <3>6, <3>7
  <2>4. ASSUME pc'[v] = "push", looked'[v] # Never PROVE StaleKnown(v)'
    BY <2>2, <2>3, <2>4 DEF StaleKnown, Exists
  <2> QED
    BY <2>1, <2>4
<1>2. CASE Look(v)
  <2>1. pc'[v] = "push" /\ UNCHANGED <<remote, service, files>>
        /\ stale'[v] = FilesIn(KeysBelow(service[v])) \ files[v]
    BY <1>0, <1>2 DEF Look, Go, TypeOK
  <2>2. \A f \in Files : Exists(<<service[v], f>>) => f \in FilesIn(KeysBelow(service[v]))
    BY <1>0, KeyFacts DEF TypeOK
  <2> QED
    BY <2>1, <2>2 DEF StaleKnown, Exists, remote
<1>3. CASE pc[v] = "idle" /\ pc'[v] \in {"look", "push"} /\ looked'[v] = looked[v]
  BY <1>3 DEF DInv
<1> QED
  BY <1>0, <1>1, <1>2, <1>3, PushFrom DEF PullPCs

LEMMA InitDInv == Init => DInv
  BY InitTypeOK DEF Init, DInv

(* Whatever others push, remove or revert between the look of a push with  *)
(* --delete and its transaction, it leaves no file that was there at the   *)
(* look and that it did not push (ServiceConfigManager.push).              *)
THEOREM DeleteIsComplete == Spec => NothingStaleLeft
<1>1. ASSUME DInv, [Next]_vars, NEW u \in Users, Push(u), looked[u] # Never,
             NEW f \in FilesIn(KeysBelow(service[u])') \ files[u]
      PROVE  since'[<<service[u], f>>] > looked[u]
  <2> DEFINE k == <<service[u], f>>
             ds == {service[u]} \X Deleted(u)
             new == [j \in {service[u]} \X (files[u] \cup {Root}) |-> txns + 1]
  <2>0. TypeOK /\ StaleKnown(u) /\ service[u] \in Services /\ service'[u] = service[u]
    BY <1>1 DEF DInv, Push, Go, Forget, TypeOK
  <2>1. f \in Files /\ store'[k] # <<>> /\ k \in Keys
    <3>1. f \in Files /\ Exists(k)'
      BY <1>1, <2>0 DEF KeysBelow, FilesIn
    <3> QED
      BY <2>0, <3>1, KeyFacts DEF Exists
  <2>2. k \notin DOMAIN new
    BY <1>1, <2>1, NamesAssumption
  <2>3. Transaction(ds, new)
    BY <1>1 DEF Push
  <2>4. \A j \in DOMAIN new : new[j] \in Contents
    BY <2>0, <2>3, UsersAssumption DEF Contents, Transaction, TypeOK
  <2>5. since'[k] = since[k]
    BY <2>1, <2>2, <2>3 DEF Transaction
  <2>6. k \notin ds /\ Exists(k)
    <3> HIDE DEF ds, new
    <3> QED
      BY <2>0, <2>1, <2>2, <2>3, <2>4, TransactionVersions DEF Exists
  <2>7. f \notin stale[u]
    BY <2>0, <2>6, NamesAssumption DEF Deleted, TypeOK
  <2> QED
    BY <1>1, <2>0, <2>1, <2>5, <2>6, <2>7 DEF StaleKnown
<1>2. DInv /\ [Next]_vars =>
        [\A u \in Users :
           (Push(u) /\ looked[u] # Never) =>
             \A f \in FilesIn(KeysBelow(service[u])') \ files[u] :
               since'[<<service[u], f>>] > looked[u]]_vars
  BY <1>1
<1> QED
  BY <1>2, InitDInv, NextDInv, PTL DEF Spec, NothingStaleLeft

-----------------------------------------------------------------------------
(* Two reverts.                                                            *)

(* The version before the current one, and the keys that have one.         *)
Previous(k) == store[k][Version(k) - 1]
Revertible(s) == {k \in KeysFrom(s) : Version(k) > 1}

(* What a revert undid is the version before, or the only one.             *)
UndoneIsPrevious ==
  \A k \in DOMAIN undone :
    /\ k \in Keys
    /\ \/ Version(k) = 1 /\ Content(k) = undone[k]
       \/ Version(k) > 1 /\ Previous(k) = undone[k]

(* An undisturbed revert is about to put the version before of each.       *)
RevertsToPrevious ==
  \A u \in Users : pc[u] = "revert" /\ Undisturbed(u) =>
    /\ DOMAIN batch[u] = Revertible(service[u])
    /\ \A k \in Revertible(service[u]) : batch[u][k] = Previous(k)

RInv == TypeOK /\ UndoneIsPrevious /\ RevertsToPrevious

(* A key after an undisturbed revert.                                      *)
LEMMA RevertEffect ==
  ASSUME RInv, NEW u \in Users, Revert(u), Undisturbed(u), NEW k \in KeysFrom(service[u])
  PROVE  /\ k \in Keys /\ Version(k) \in Nat \ {0}
         /\ Version(k) = 1 => store'[k] = store[k] /\ Version(k)' = 1
         /\ Version(k) > 1 =>
              /\ store'[k] = Append(store[k], Previous(k)) /\ Version(k)' = Version(k) + 1
              /\ Content(k)' = Previous(k) /\ Previous(k)' = Content(k)
<1>0. TypeOK /\ Transaction({}, batch[u]) /\ pc[u] = "revert" /\ service[u] \in Services
  BY DEF RInv, Revert, Go, TypeOK
<1>1. k \in Keys /\ store[k] \in Seq(Contents) /\ store[k] # <<>>
  BY <1>0, KeyFacts DEF TypeOK, Exists
<1>2. Version(k) \in Nat \ {0}
  BY <1>1 DEF Version
<1>3. /\ k \in DOMAIN batch[u] <=> Version(k) > 1
      /\ Version(k) > 1 => batch[u][k] = Previous(k)
  BY <1>0 DEF RInv, RevertsToPrevious, Revertible
<1>4. \A j \in DOMAIN batch[u] : batch[u][j] \in Contents
  BY <1>0 DEF TypeOK
<1>5. CASE Version(k) = 1
  BY <1>0, <1>1, <1>2, <1>3, <1>4, <1>5, TransactionVersions
<1>6. CASE Version(k) > 1
  <2>1. store'[k] = Append(store[k], Previous(k)) /\ Version(k)' = Version(k) + 1
    BY <1>0, <1>1, <1>3, <1>4, <1>6, TransactionVersions
  <2>2. Previous(k) \in Contents
    BY <1>3, <1>4, <1>6
  <2>3. /\ Append(store[k], Previous(k))[Version(k) + 1] = Previous(k)
        /\ Append(store[k], Previous(k))[Version(k)] = store[k][Version(k)]
    BY <1>1, <1>2, <2>2 DEF Version
  <2>4. Content(k)' = store'[k][Version(k) + 1]
    BY <2>1 DEF Content
  <2>5. Previous(k)' = store'[k][Version(k)]
    <3>1. Len(store'[k]) = Len(store[k]) + 1 /\ Len(store[k]) \in Nat
      BY <1>1, <2>1 DEF Version
    <3>2. Previous(k)' = store'[k][Len(store'[k]) - 1]
      BY DEF Previous, Version
    <3>3. Len(store'[k]) - 1 = Len(store[k])
      BY <3>1
    <3> QED
      BY <3>2, <3>3 DEF Version
  <2>6. Content(k) = store[k][Version(k)]
    BY DEF Content
  <2>7. Content(k)' = Previous(k) /\ Previous(k)' = Content(k)
    BY <2>1, <2>3, <2>4, <2>5, <2>6
  <2> QED
    BY <1>1, <1>2, <1>6, <2>1, <2>7
<1> QED
  BY <1>1, <1>2, <1>5, <1>6

LEMMA NextRInv == RInv /\ [Next]_vars => RInv'
<1> SUFFICES ASSUME RInv, [Next]_vars PROVE UndoneIsPrevious' /\ RevertsToPrevious'
  BY NextTypeOK DEF RInv
<1>0. TypeOK /\ UndoneIsPrevious /\ RevertsToPrevious
  BY DEF RInv
<1>1. UndoneIsPrevious'
  <2>1. CASE undone' = Nothing
    BY <2>1 DEF UndoneIsPrevious, Nothing
  <2>2. ASSUME NEW u \in Users, Revert(u), undone' # Nothing PROVE UndoneIsPrevious'
    <3>1. Undisturbed(u) /\ undone' = ContentsOf(KeysFrom(service[u]))
      BY <2>2 DEF Revert
    <3>2. DOMAIN undone' = KeysFrom(service[u])
          /\ \A k \in KeysFrom(service[u]) : undone'[k] = Content(k)
      BY <3>1 DEF ContentsOf
    <3>3. ASSUME NEW k \in KeysFrom(service[u])
          PROVE  /\ k \in Keys
                 /\ \/ Version(k)' = 1 /\ Content(k)' = undone'[k]
                    \/ Version(k)' > 1 /\ Previous(k)' = undone'[k]
      <4>1. CASE Version(k) = 1
        BY <1>0, <2>2, <3>1, <3>2, <4>1, RevertEffect DEF Content
      <4>2. CASE Version(k) > 1
        BY <2>2, <3>1, <3>2, <4>2, RevertEffect
      <4> QED
        BY <2>2, <3>1, <4>1, <4>2, RevertEffect
    <3> QED
      BY <3>2, <3>3 DEF UndoneIsPrevious
  <2>3. CASE UNCHANGED remote
    BY <1>0, <2>3 DEF remote, UndoneIsPrevious, Version, Content, Previous
  <2> QED
    BY <2>1, <2>2, <2>3, OnlyTransactions DEF Push, Remove
<1>2. RevertsToPrevious'
  <2> SUFFICES ASSUME NEW v \in Users, pc'[v] = "revert", looked'[v] = txns'
               PROVE  /\ DOMAIN batch'[v] = Revertible(service[v])'
                      /\ \A k \in Revertible(service[v])' : batch'[v][k] = Previous(k)'
    BY DEF RevertsToPrevious, Undisturbed
  <2>1. CASE pc[v] = "revert" /\ UNCHANGED <<batch[v], looked[v], service[v]>>
    <3>1. txns \in Nat /\ looked[v] <= txns
      BY <1>0 DEF TypeOK, Never
    <3>2. txns' # txns + 1
      BY <2>1, <3>1
    <3>3. UNCHANGED remote
      BY <3>2, OnlyTransactions DEF Push, Remove, Revert, Transaction
    <3> QED
      BY <1>0, <2>1, <3>3 DEF RevertsToPrevious, Undisturbed, remote, Revertible, KeysFrom, Exists,
                              Version, Previous
  <2>2. ASSUME NEW s \in Services, LookBack(v, s)
        PROVE  /\ DOMAIN batch'[v] = Revertible(service[v])'
               /\ \A k \in Revertible(service[v])' : batch'[v][k] = Previous(k)'
    <3>1. /\ UNCHANGED remote /\ service'[v] = s
          /\ batch'[v] = [k \in Revertible(s) |-> Previous(k)]
      BY <1>0, <2>2 DEF LookBack, Revertible, Previous, TypeOK
    <3>2. Revertible(service[v])' = Revertible(s) /\ \A k : Previous(k)' = Previous(k)
      BY <3>1 DEF remote, Revertible, KeysFrom, Exists, Version, Previous
    <3> QED
      BY <3>1, <3>2
  <2> QED
    BY <1>0, <2>1, <2>2, RevertFrom
<1> QED
  BY <1>1, <1>2

LEMMA InitRInv == Init => RInv
<1> SUFFICES ASSUME Init PROVE UndoneIsPrevious /\ RevertsToPrevious
  BY InitTypeOK DEF RInv
<1> QED
  BY DEF Init, UndoneIsPrevious, RevertsToPrevious, Nothing

(* Whatever files a service has, and however often each was written, the   *)
(* second of two reverts in a row takes back what the first did            *)
(* (ServiceConfigManager.revert).                                          *)
THEOREM RevertIsItsInverse == Spec => RevertTwiceRestores
<1>1. ASSUME RInv, NEW u \in Users, Revert(u), Undisturbed(u), DOMAIN undone = KeysFrom(service[u]),
             NEW k \in DOMAIN undone
      PROVE  Content(k)' = undone[k]
  <2>1. k \in KeysFrom(service[u]) /\ UndoneIsPrevious
    BY <1>1 DEF RInv
  <2>2. CASE Version(k) = 1
    <3>1. Content(k)' = Content(k)
      BY <1>1, <2>1, <2>2, RevertEffect DEF Content
    <3> QED
      BY <2>1, <2>2, <3>1 DEF UndoneIsPrevious
  <2>3. CASE Version(k) > 1
    <3>1. Content(k)' = Previous(k)
      BY <1>1, <2>1, <2>3, RevertEffect
    <3> QED
      BY <2>1, <2>3, <3>1 DEF UndoneIsPrevious
  <2> QED
    BY <2>1, <2>2, <2>3 DEF UndoneIsPrevious
<1>2. RInv /\ [Next]_vars =>
        [\A u \in Users :
           (Revert(u) /\ Undisturbed(u) /\ DOMAIN undone = KeysFrom(service[u])) =>
             \A k \in DOMAIN undone : Content(k)' = undone[k]]_vars
  BY <1>1
<1> QED
  BY <1>2, InitRInv, NextRInv, PTL DEF Spec, RevertTwiceRestores
=============================================================================
