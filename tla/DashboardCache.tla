--------------------------- MODULE DashboardCache ---------------------------
(***************************************************************************)
(* The cached dashboard summary of one store.  A version key in Redis is   *)
(* part of every data key; a change of the store's data increments the     *)
(* version after its commit, so that older summaries are not found again.  *)
(*                                                                         *)
(* Database contents are represented by their revision, the number of      *)
(* changes committed so far.  A summary is represented by the revision its *)
(* first query saw; each query of READ COMMITTED sees at least that.       *)
(* Stores and date ranges are parts of the keys and do not interact: one   *)
(* of each is modelled.                                                    *)
(*                                                                         *)
(* The cache and NotificationDelivery are what a commit is followed by;    *)
(* they share no variable and no name, so that one module can extend both. *)
(***************************************************************************)
EXTENDS Integers, FiniteSets

CONSTANTS
  Writer,  \* requests that change the store's data, each at most once
  Reader   \* clients of the dashboard, each as often as it likes

NoKey == 0  \* the version key is absent, or a reader has no key

VARIABLES
  db,       \* revision of the committed tables
  version,  \* the version key in Redis, or NoKey
  data,     \* the data keys in Redis: a set of [version, revision]
  change,   \* Writer -> the point it has reached
  own,      \* Writer -> the revision its commit has produced
  read,     \* Reader -> the point it has reached
  key,      \* Reader -> the version its data key is made of
  seen,     \* Reader -> the revision of the summary it holds
  settled,  \* newest revision whose invalidation has reached Redis
  floor     \* Reader -> "settled" as it was when its request arrived

redis == <<version, data>>
writers == <<change, own>>
readers == <<read, key, seen, floor>>
cacheVars == <<db, redis, writers, readers, settled>>

Idle ==
  /\ db = 0 /\ settled = 0
  /\ data = {}
  /\ change = [w \in Writer |-> "idle"]
  /\ own = [w \in Writer |-> 0]
  /\ read = [r \in Reader |-> "idle"]
  /\ key = [r \in Reader |-> NoKey]
  /\ seen = [r \in Reader |-> 0]
  /\ floor = [r \in Reader |-> 0]

\* Redis has nothing of the store, or its dashboard has been viewed.
CacheInit == Idle /\ version \in {NoKey, 1}

-----------------------------------------------------------------------------
(* A change of the store's data and invalidate_dashboard_cache *)

\* Faulty form: the invalidation runs inside the transaction.
CommitInvalidated(w) ==
  \/ /\ change[w] = "idle" /\ version # NoKey
     /\ change' = [change EXCEPT ![w] = "invalidated"]
     /\ version' = version + 1
     /\ UNCHANGED <<db, settled, own, data, readers>>
  \/ /\ change[w] = "invalidated"
     /\ db' = db + 1
     /\ settled' = db'
     /\ change' = [change EXCEPT ![w] = "done"]
     /\ UNCHANGED <<own, redis, readers>>

Commit(w) ==
  /\ change[w] = "idle"
  /\ db' = db + 1
  /\ own' = [own EXCEPT ![w] = db + 1]
  /\ change' = [change EXCEPT ![w] = "committed"]
  /\ UNCHANGED <<redis, readers, settled>>

\* cache.get(key), whose result decides between set and incr.
LookUpVersion(w) ==
  /\ change[w] = "committed"
  /\ change' = [change EXCEPT ![w] =
                  IF version = NoKey THEN "missing" ELSE "present"]
  /\ UNCHANGED <<db, own, redis, readers, settled>>

\* The invalidation of w has reached Redis.  Whether the answer arrives or times
\* out is one: a lost answer is logged, and nothing depends on it.
Settle(w, how) ==
  /\ settled' = IF own[w] > settled THEN own[w] ELSE settled
  /\ change' = [change EXCEPT ![w] = how]
  /\ UNCHANGED <<db, own, data, readers>>

\* Whatever the version is by now.
SetVersion(w) ==
  /\ change[w] = "missing"
  /\ version' = 2
  /\ Settle(w, "reset")

Increment(w) ==
  /\ change[w] = "present"
  /\ version' = version + 1
  /\ Settle(w, "done")

\* Redis fails before it carries the command out, which is logged, or the
\* process dies.
InvalidationFails(w) ==
  /\ change[w] \in {"committed", "missing", "present"}
  /\ change' = [change EXCEPT ![w] = "done"]
  /\ UNCHANGED <<db, own, redis, readers, settled>>

-----------------------------------------------------------------------------
(* DashboardView.get *)

ReaderAt(r, point) == read' = [read EXCEPT ![r] = point]

\* get_or_set, first look: the version is there, or has to be added.
ReadVersion(r) ==
  /\ read[r] \in {"idle", "served"}
  /\ floor' = [floor EXCEPT ![r] = settled]
  /\ key' = [key EXCEPT ![r] = version]
  /\ ReaderAt(r, IF version = NoKey THEN "adding" ELSE "keyed")
  /\ UNCHANGED <<db, redis, writers, seen, settled>>

\* SET NX: an existing version is left alone.
AddVersion(r) ==
  /\ read[r] = "adding"
  /\ version' = IF version = NoKey THEN 1 ELSE version
  /\ ReaderAt(r, "added")
  /\ UNCHANGED <<db, data, writers, key, seen, floor, settled>>

\* get_or_set, second look.
ReadAddedVersion(r) ==
  /\ read[r] = "added"
  /\ key' = [key EXCEPT ![r] = version]
  /\ ReaderAt(r, "keyed")
  /\ UNCHANGED <<db, redis, writers, seen, floor, settled>>

\* cache.get(data key): a hit is served as it is.
Hit(r) ==
  /\ read[r] = "keyed"
  /\ \E d \in data : /\ d.version = key[r]
                     /\ seen' = [seen EXCEPT ![r] = d.revision]
  /\ ReaderAt(r, "served")
  /\ UNCHANGED <<db, redis, writers, key, floor, settled>>

Miss(r) ==
  /\ read[r] = "keyed"
  /\ \A d \in data : d.version # key[r]
  /\ ReaderAt(r, "missed")
  /\ UNCHANGED <<db, redis, writers, key, seen, floor, settled>>

\* Redis fails: the summary is computed and not stored.
ReadFails(r) ==
  /\ read[r] \in {"adding", "added", "keyed"}
  /\ key' = [key EXCEPT ![r] = NoKey]
  /\ ReaderAt(r, "missed")
  /\ UNCHANGED <<db, redis, writers, seen, floor, settled>>

\* The summary is computed from the tables.
Query(r) ==
  /\ read[r] = "missed"
  /\ seen' = [seen EXCEPT ![r] = db]
  /\ ReaderAt(r, "computed")
  /\ UNCHANGED <<db, redis, writers, key, floor, settled>>

\* Faulty form: the summary is stored under the version of that moment.
StoreUnderLatest(r) ==
  /\ read[r] = "computed" /\ key[r] # NoKey
  /\ data' = {d \in data : d.version # version}
             \cup {[version |-> version, revision |-> seen[r]]}
  /\ ReaderAt(r, "served")
  /\ UNCHANGED <<db, version, writers, key, seen, floor, settled>>

\* cache.set under the key made before the summary was computed.
Store(r) ==
  /\ read[r] = "computed" /\ key[r] # NoKey
  /\ data' = {d \in data : d.version # key[r]}
             \cup {[version |-> key[r], revision |-> seen[r]]}
  /\ ReaderAt(r, "served")
  /\ UNCHANGED <<db, version, writers, key, seen, floor, settled>>

\* No key, or Redis fails: the summary is served without being stored.
ServeUnstored(r) ==
  /\ read[r] = "computed"
  /\ ReaderAt(r, "served")
  /\ UNCHANGED <<db, redis, writers, key, seen, floor, settled>>

-----------------------------------------------------------------------------
(* Redis *)

\* Faulty form: what is stored under the current version does not expire.
ExpireOldVersions(d) ==
  /\ d \in data /\ d.version # version
  /\ data' = data \ {d}
  /\ UNCHANGED <<db, version, writers, readers, settled>>

\* The time to live of a summary ends.
Expire(d) ==
  /\ d \in data
  /\ data' = data \ {d}
  /\ UNCHANGED <<db, version, writers, readers, settled>>

-----------------------------------------------------------------------------
(* Specification *)

WriterStep(w) == \/ LookUpVersion(w) \/ SetVersion(w) \/ Increment(w)
                 \/ InvalidationFails(w)

ReaderStep(r) == \/ AddVersion(r) \/ ReadAddedVersion(r) \/ Hit(r) \/ Miss(r)
                 \/ ReadFails(r) \/ Query(r) \/ Store(r) \/ ServeUnstored(r)

CacheNext ==
  \/ \E w \in Writer : Commit(w) \/ WriterStep(w)
  \/ \E r \in Reader : ReadVersion(r) \/ ReaderStep(r)
  \/ \E d \in data : Expire(d)

CacheSpec == CacheInit /\ [][CacheNext]_cacheVars

\* The versions that set, add and incr can reach.
Versions == 1 .. Cardinality(Writer) + 2

\* Live processes go on, and each data key has a time to live of its own.
CacheFairness ==
  /\ \A w \in Writer : WF_cacheVars(WriterStep(w))
  /\ \A r \in Reader : WF_cacheVars(ReaderStep(r))
  /\ \A v \in Versions : WF_cacheVars(\E d \in data : d.version = v /\ Expire(d))

FairCacheSpec == CacheSpec /\ CacheFairness

-----------------------------------------------------------------------------
(* Properties *)

\* Types; a reader that waits for its data key has a version.
CacheTypeOK ==
  /\ db \in Nat /\ settled \in 0 .. db
  /\ version \in Nat
  /\ data \subseteq [version: Nat \ {NoKey}, revision: 0 .. db]
  /\ change \in [Writer -> {"idle", "committed", "missing", "present",
                            "reset", "done"}]
  /\ own \in [Writer -> 0 .. db]
  /\ read \in [Reader -> {"idle", "adding", "added", "keyed", "missed",
                          "computed", "served"}]
  /\ key \in [Reader -> Nat]
  /\ seen \in [Reader -> 0 .. db]
  /\ floor \in [Reader -> 0 .. settled]

\* No invalidation has set the version because it had found none.
NoReset == \A w \in Writer : change[w] # "reset"

\* As long as no invalidation has set the version, what is stored under the
\* current version is no older than any change whose invalidation has reached
\* Redis, although summaries are computed and stored while changes commit and
\* the version is added and incremented.
CurrentIsFresh ==
  NoReset => \A d \in data : d.version = version => d.revision >= settled

Fresh(r) == read[r] = "served" => seen[r] >= floor[r]

\* As long as no invalidation has set the version, a dashboard shows at least
\* the changes whose invalidation had been done when it was asked for.
ReadsAreFresh == NoReset => \A r \in Reader : Fresh(r)

\* Whatever invalidations fail or overtake each other, once the changes have
\* ended no outdated summary stays in the cache: its time to live ends.
StalenessEnds == <>[](\A d \in data : d.revision = db)
=============================================================================
