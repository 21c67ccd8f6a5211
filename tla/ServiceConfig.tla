--------------------------- MODULE ServiceConfig ---------------------------
(***************************************************************************)
(* The configuration server: the files of a service are keys of a store,   *)
(* /ec/config/<service>/<file>, and the status of a service is the key     *)
(* /ec/config/<service>.  Several users run aviso-config: push, remove and *)
(* revert (ServiceConfigManager).  One of them also pulls a service into a *)
(* local folder.                                                           *)
(*                                                                         *)
(* A command makes several requests, and other commands come in between.   *)
(* A transaction of the store is atomic.  Services are not inside one      *)
(* another, but the name of one may begin with that of another, and so may *)
(* those of files.                                                         *)
(***************************************************************************)
EXTENDS Integers, Sequences

CONSTANTS
  Users,
  Services,
  Files,       \* records: a name and how many ".tmp" there are after it
  BeginsWith,  \* of a service or a file, those whose names begin with its name
  Puller,      \* the user who pulls into the folder
  Does,        \* of each user, the commands that it runs
  MaxTxns,     \* bound: number of transactions of the store
  LastPull     \* bound: no pull into the folder begins after this transaction

Root == [name |-> "", tmps |-> 0]  \* in place of a file: the status
Keys == Services \X (Files \cup {Root})

Tmp(f) == [f EXCEPT !.tmps = @ + 1]
Paths == Files \cup {Tmp(f) : f \in Files}

ASSUME NamesAssumption ==
  /\ Services # {}
  /\ Files \subseteq [name : STRING, tmps : Nat] /\ Root \notin Files
  /\ DOMAIN BeginsWith = Services \cup Files
  /\ \A s \in Services : s \in BeginsWith[s] /\ BeginsWith[s] \subseteq Services
  /\ \A f \in Files : f \in BeginsWith[f] /\ BeginsWith[f] \subseteq Files
ASSUME UsersAssumption ==
  /\ Puller \in Users
  /\ Does \in [Users -> SUBSET {"push", "remove", "revert", "pull"}]
  /\ \A u \in Users : "pull" \in Does[u] => u = Puller
  /\ MaxTxns \in Nat /\ LastPull \in Nat

(* A content is the number of the transaction that pushed it.              *)
Contents == 1..MaxTxns
Absent == -1
Partial == 0    \* a local file that is not written to its end
Never == -1

VARIABLES
  txns,      \* number of transactions of the store
  store,     \* of each key, the contents of its versions since its creation
  since,     \* history: the transaction that created each key
  undone,    \* history: the contents before the last transaction, a revert
  pc,        \* where each user's command is
  service,   \* the service of the command
  files,     \* the files that it pushes
  stale,     \* ks_delete
  looked,    \* history: the transaction at which it pulled
  batch,     \* the contents that it pulled
  folder,    \* the files of the local folder
  todo       \* the files that the pull has still to write, unlink or rename

remote == <<txns, store, since, undone>>
command == <<service, files, stale, looked, batch>>
local == <<folder, todo>>
vars == <<remote, pc, command, local>>

Version(k) == Len(store[k])
Exists(k) == store[k] # <<>>
Content(k) == store[k][Version(k)]

(* The keys of a pull with the key of the folder, and with the root key.   *)
KeysBelow(s) == {k \in {s} \X Files : Exists(k)}
KeysFrom(s) == {k \in BeginsWith[s] \X (Files \cup {Root}) : Exists(k)}
FilesIn(ks) == {k[2] : k \in ks}
ContentsOf(ks) == [k \in ks |-> Content(k)]

Nothing == [k \in {} |-> 0]

PullPCs == {"open", "write", "unlink", "rename", "pulled"}

TypeOK ==
  /\ txns \in 0..MaxTxns
  /\ store \in [Keys -> Seq(Contents)]
  /\ since \in [Keys -> 0..txns]
  /\ pc \in [Users -> {"idle", "look", "push", "revert"} \cup PullPCs]
  /\ \A u \in Users : pc[u] \in PullPCs => u = Puller
  /\ service \in [Users -> Services]
  /\ files \in [Users -> SUBSET Files]
  /\ stale \in [Users -> SUBSET Files]
  /\ looked \in [Users -> 0..txns \cup {Never}]
  /\ DOMAIN batch = Users
  /\ \A u \in Users : batch[u] \in [DOMAIN batch[u] -> Contents]
  /\ \A u \in Users : DOMAIN batch[u] \subseteq Keys
  /\ folder \in [Paths -> Contents \cup {Absent, Partial}]
  /\ todo \subseteq Files
  /\ pc[Puller] \in PullPCs =>
       /\ DOMAIN batch[Puller] \subseteq {service[Puller]} \X Files
       /\ todo \subseteq FilesIn(DOMAIN batch[Puller])

Init ==
  /\ txns = 0
  /\ store = [k \in Keys |-> <<>>]
  /\ since = [k \in Keys |-> 0]
  /\ undone = Nothing
  /\ pc = [u \in Users |-> "idle"]
  /\ service \in [Users -> {CHOOSE s \in Services : TRUE}]
  /\ files = [u \in Users |-> {}]
  /\ stale = [u \in Users |-> {}]
  /\ looked = [u \in Users |-> Never]
  /\ batch = [u \in Users |-> Nothing]
  /\ folder = [p \in Paths |-> Absent]
  /\ todo = {}

-----------------------------------------------------------------------------
(* The commands of the users.                                              *)

Go(u, from, to) == pc[u] = from /\ pc' = [pc EXCEPT ![u] = to]

(* A command that ends forgets everything.                                 *)
Forget(u) ==
  /\ files' = [files EXCEPT ![u] = {}]
  /\ stale' = [stale EXCEPT ![u] = {}]
  /\ looked' = [looked EXCEPT ![u] = Never]
  /\ batch' = [batch EXCEPT ![u] = Nothing]
  /\ UNCHANGED service

(* A transaction: keys ds are deleted, then those of new get a version     *)
(* more.                                                                   *)
Transaction(ds, new) ==
  /\ txns < MaxTxns
  /\ txns' = txns + 1
  /\ store' = [k \in Keys |->
       LET kept == IF k \in ds THEN <<>> ELSE store[k]
       IN IF k \in DOMAIN new THEN Append(kept, new[k]) ELSE kept]
  /\ since' = [k \in Keys |->
       IF k \in DOMAIN new /\ (k \in ds \/ ~ Exists(k)) THEN txns + 1 ELSE since[k]]

(* push: the files are read, and unless --delete is given pushed ...       *)
BeginPush(u, s, fs, delete) ==
  /\ "push" \in Does[u]
  /\ fs # {}
  /\ Go(u, "idle", IF delete THEN "look" ELSE "push")
  /\ service' = [service EXCEPT ![u] = s]
  /\ files' = [files EXCEPT ![u] = fs]
  /\ UNCHANGED <<remote, stale, looked, batch, local>>

(* Mutant: the root key is used, and the status is among the keys.         *)
Look_Root(u) ==
  /\ Go(u, "look", "push")
  /\ stale' = [stale EXCEPT ![u] = FilesIn(KeysFrom(service[u])) \ files[u]]
  /\ looked' = [looked EXCEPT ![u] = txns]
  /\ UNCHANGED <<remote, service, files, batch, local>>

(* Mutant: names are compared up to the length of the pushed one.          *)
Look_Prefix(u) ==
  /\ Go(u, "look", "push")
  /\ stale' = [stale EXCEPT ![u] =
       FilesIn(KeysBelow(service[u])) \ UNION {BeginsWith[f] : f \in files[u]}]
  /\ looked' = [looked EXCEPT ![u] = txns]
  /\ UNCHANGED <<remote, service, files, batch, local>>

(* ... otherwise those on the server are pulled first ...                  *)
Look(u) ==
  /\ Go(u, "look", "push")
  /\ stale' = [stale EXCEPT ![u] = FilesIn(KeysBelow(service[u])) \ files[u]]
  /\ looked' = [looked EXCEPT ![u] = txns]
  /\ UNCHANGED <<remote, service, files, batch, local>>

(* ... and those that are not pushed are deleted, each with what begins    *)
(* with its name.  A transaction that deletes and puts a key is refused.   *)
Deleted(u) == UNION {BeginsWith[f] : f \in stale[u]}

Push(u) ==
  /\ Go(u, "push", "idle")
  /\ Deleted(u) \cap files[u] = {}
  /\ Transaction({service[u]} \X Deleted(u),
                 [k \in {service[u]} \X (files[u] \cup {Root}) |-> txns + 1])
  /\ undone' = Nothing
  /\ Forget(u)
  /\ UNCHANGED local

(* remove: one request.                                                    *)
Remove(u, s) ==
  /\ "remove" \in Does[u]
  /\ pc[u] = "idle"
  /\ KeysFrom(s) # {}
  /\ Transaction(KeysFrom(s), Nothing)
  /\ undone' = Nothing
  /\ UNCHANGED <<pc, command, local>>

(* Mutant: the status is left out.                                         *)
LookBack_Files(u, s) ==
  LET ks == {k \in KeysBelow(s) : Version(k) > 1} IN
    /\ "revert" \in Does[u]
    /\ ks # {}
    /\ Go(u, "idle", "revert")
    /\ service' = [service EXCEPT ![u] = s]
    /\ looked' = [looked EXCEPT ![u] = txns]
    /\ batch' = [batch EXCEPT ![u] = [k \in ks |-> store[k][Version(k) - 1]]]
    /\ UNCHANGED <<remote, files, stale, local>>

(* Mutant: the first version of each.                                      *)
LookBack_First(u, s) ==
  LET ks == {k \in KeysFrom(s) : Version(k) > 1} IN
    /\ "revert" \in Does[u]
    /\ ks # {}
    /\ Go(u, "idle", "revert")
    /\ service' = [service EXCEPT ![u] = s]
    /\ looked' = [looked EXCEPT ![u] = txns]
    /\ batch' = [batch EXCEPT ![u] = [k \in ks |-> store[k][1]]]
    /\ UNCHANGED <<remote, files, stale, local>>

(* revert: the keys are pulled, then the version before of each.  That was *)
(* current just before the last one was written, and does not change any   *)
(* more: it is read in the same step ...                                   *)
LookBack(u, s) ==
  LET ks == {k \in KeysFrom(s) : Version(k) > 1} IN
    /\ "revert" \in Does[u]
    /\ ks # {}
    /\ Go(u, "idle", "revert")
    /\ service' = [service EXCEPT ![u] = s]
    /\ looked' = [looked EXCEPT ![u] = txns]
    /\ batch' = [batch EXCEPT ![u] = [k \in ks |-> store[k][Version(k) - 1]]]
    /\ UNCHANGED <<remote, files, stale, local>>

(* ... and pushed.                                                         *)
Undisturbed(u) == looked[u] = txns

Revert(u) ==
  /\ Go(u, "revert", "idle")
  /\ Transaction({}, batch[u])
  /\ undone' = IF Undisturbed(u) THEN ContentsOf(KeysFrom(service[u])) ELSE Nothing
  /\ Forget(u)
  /\ UNCHANGED local

(* A request is refused or gets no answer, or the process ends.            *)
Fail(u) ==
  /\ pc[u] # "idle"
  /\ pc' = [pc EXCEPT ![u] = "idle"]
  /\ todo' = IF u = Puller THEN {} ELSE todo
  /\ Forget(u)
  /\ UNCHANGED <<remote, folder>>

-----------------------------------------------------------------------------
(* pull_and_save: the steps are those of the file system.                  *)

(* The files are pulled.  rmtree may fail half-way, which is only reported.*)
Pull(s, delete) ==
  /\ "pull" \in Does[Puller]
  /\ txns <= LastPull
  /\ KeysBelow(s) # {}
  /\ Go(Puller, "idle", "open")
  /\ service' = [service EXCEPT ![Puller] = s]
  /\ looked' = [looked EXCEPT ![Puller] = txns]
  /\ batch' = [batch EXCEPT ![Puller] = ContentsOf(KeysBelow(s))]
  /\ todo' = FilesIn(KeysBelow(s))
  /\ \E gone \in IF delete THEN SUBSET Paths ELSE {{}} :
       folder' = [p \in Paths |-> IF p \in gone THEN Absent ELSE folder[p]]
  /\ UNCHANGED <<remote, files, stale>>

Pulled == FilesIn(DOMAIN batch[Puller])

(* The keys come in descending order: a name with ".tmp" comes first.      *)
First(f) == f \in todo /\ \A g \in todo : g.name = f.name => g.tmps <= f.tmps

(* A step of a loop over the files pulled, of which the one after is next. *)
Each(f, here, next) ==
  /\ First(f)
  /\ todo' = IF todo = {f} THEN Pulled ELSE todo \ {f}
  /\ Go(Puller, here, IF todo = {f} THEN next ELSE here)

(* Mutant: the file itself is opened.                                      *)
Open_InPlace(f) ==
  /\ First(f)
  /\ Go(Puller, "open", "write")
  /\ folder' = [folder EXCEPT ![f] = Partial]
  /\ UNCHANGED <<remote, command, todo>>

(* The files are first written under temporary names ...                   *)
Open(f) ==
  /\ First(f)
  /\ Go(Puller, "open", "write")
  /\ folder' = [folder EXCEPT ![Tmp(f)] = Partial]
  /\ UNCHANGED <<remote, command, todo>>

(* Mutant: each file is pulled when it is written.                         *)
Write_Later(f) ==
  LET k == <<service[Puller], f>> IN
    /\ First(f)
    /\ folder' = [folder EXCEPT ![Tmp(f)] = IF Exists(k) THEN Content(k) ELSE batch[Puller][k]]
    /\ todo' = IF todo = {f} THEN Pulled ELSE todo \ {f}
    /\ Go(Puller, "write", IF todo = {f} THEN "unlink" ELSE "open")
    /\ UNCHANGED <<remote, command>>

Write(f) ==
  /\ First(f)
  /\ folder' = [folder EXCEPT ![Tmp(f)] = batch[Puller][<<service[Puller], f>>]]
  /\ todo' = IF todo = {f} THEN Pulled ELSE todo \ {f}
  /\ Go(Puller, "write", IF todo = {f} THEN "unlink" ELSE "open")
  /\ UNCHANGED <<remote, command>>

(* ... then the ones to replace are removed ...                            *)
Unlink(f) ==
  /\ Each(f, "unlink", "rename")
  /\ folder' = [folder EXCEPT ![f] = Absent]
  /\ UNCHANGED <<remote, command>>

(* ... and the new ones renamed.  If one is not there the command fails    *)
(* (Fail).                                                                 *)
Rename(f) ==
  /\ folder[Tmp(f)] # Absent
  /\ Each(f, "rename", "pulled")
  /\ folder' = [folder EXCEPT ![f] = folder[Tmp(f)], ![Tmp(f)] = Absent]
  /\ UNCHANGED <<remote, command>>

Done ==
  /\ Go(Puller, "pulled", "idle")
  /\ todo' = {}
  /\ Forget(Puller)
  /\ UNCHANGED <<remote, folder>>

-----------------------------------------------------------------------------
User(u) ==
  \/ \E s \in Services :
       \/ \E fs \in SUBSET Files, delete \in BOOLEAN : BeginPush(u, s, fs, delete)
       \/ Remove(u, s)
       \/ LookBack(u, s)
  \/ Look(u) \/ Push(u) \/ Revert(u) \/ Fail(u)

PullAndSave ==
  \/ \E s \in Services, delete \in BOOLEAN : Pull(s, delete)
  \/ \E f \in Files : Open(f) \/ Write(f) \/ Unlink(f) \/ Rename(f)
  \/ Done

Next == (\E u \in Users : User(u)) \/ PullAndSave

Spec == Init /\ [][Next]_vars

-----------------------------------------------------------------------------
(* Properties.                                                             *)

(* A service that has files has a status, and it counts at least as many   *)
(* changes as any of its files does, whatever was reverted or removed      *)
(* meanwhile (revert, remove).                                             *)
StatusCountsChanges ==
  \A s \in Services, f \in Files : Version(<<s, f>>) <= Version(<<s, Root>>)

(* After a push with --delete there is no file but those it pushed and     *)
(* those that others have created since it looked (push).                  *)
NothingStaleLeft ==
  [][\A u \in Users :
       (Push(u) /\ looked[u] # Never) =>
         \A f \in FilesIn(KeysBelow(service[u])') \ files[u] :
           since'[<<service[u], f>>] > looked[u]]_vars

(* Two reverts in a row, without anything in between, change nothing       *)
(* (revert).                                                               *)
RevertTwiceRestores ==
  [][\A u \in Users :
       (Revert(u) /\ Undisturbed(u) /\ DOMAIN undone = KeysFrom(service[u])) =>
         \A k \in DOMAIN undone : Content(k)' = undone[k]]_vars

(* A local file is never half written, wherever a pull is cut: only the    *)
(* temporary ones are (pull_and_save).                                     *)
NeverPartial == \A f \in Files : f.tmps = 0 => folder[f] # Partial

(* A pull leaves the files as they were on the server at one time, whatever*)
(* an earlier pull that was cut has left in the folder, unless one of them *)
(* has the name of the temporary file of another (pull_and_save).          *)
PulledAsServed ==
  pc[Puller] = "pulled" =>
    \A k \in DOMAIN batch[Puller] :
      (Tmp(k[2]) \notin Pulled /\ \A g \in Pulled : Tmp(g) # k[2])
         => folder[k[2]] = batch[Puller][k]
=============================================================================
