----------------------------- MODULE EtcdStore -----------------------------
(***************************************************************************)
(* The part of the etcd key-value store that Aviso relies on, as operators *)
(* on its state.  etcd is not part of the repository: what is here is what *)
(* pyaviso/engine/etcd_rest_engine.py asks of it.                          *)
(*                                                                         *)
(* A store is a function "mod" that gives every key the revision of the    *)
(* transaction that wrote it last, or Absent.  One transaction takes one   *)
(* revision, whatever the number of keys it writes.  Keys are numbered in  *)
(* their lexicographic order, so that < is the order of a range query.     *)
(***************************************************************************)
EXTENDS Naturals, FiniteSets

Absent == 0

(* The keys of "range" whose current version is in the window [min, max]   *)
(* ("min_mod_revision" and "max_mod_revision" of a range request).         *)
Matching(mod, range, min, max) ==
  {k \in range : mod[k] # Absent /\ min <= mod[k] /\ mod[k] <= max}

(* The "limit" keys of S that come first in descending key order.          *)
FirstDescending(S, limit) ==
  {k \in S : Cardinality({j \in S : k < j}) < limit}

(* The reply to a range request sorted by descending key, cut to "limit".  *)
RangeReply(mod, range, min, max, limit) ==
  FirstDescending(Matching(mod, range, min, max), limit)

(* A transaction that puts the keys S at revision r.                       *)
PutAll(mod, S, r) == [k \in DOMAIN mod |-> IF k \in S THEN r ELSE mod[k]]

(* A transaction that removes the keys S.                                  *)
DeleteAll(mod, S) == [k \in DOMAIN mod |-> IF k \in S THEN Absent ELSE mod[k]]

(* The keys that were put by the same transaction as k and not since: a    *)
(* push with a ttl attaches all its keys to one lease, and a later put     *)
(* detaches a key from it.                                                 *)
SameLease(mod, k) == {j \in DOMAIN mod : mod[j] = mod[k]}
=============================================================================
