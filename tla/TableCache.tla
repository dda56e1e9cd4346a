----------------------------- MODULE TableCache -----------------------------
(***************************************************************************)
(* The cache of open tables of leveldb (db/table_cache.cc over a shard of  *)
(* the cache of util/cache.cc): reads, iterators, flushes and compactions  *)
(* look a table up, open it when it is not there and keep a handle on it   *)
(* while they use it, and DeleteObsoleteFiles evicts and deletes tables.   *)
(*                                                                         *)
(* Two locks are at work.  The shard's mutex_ covers one operation of the  *)
(* cache; Insert goes round its loop with it held, so the variable mutex   *)
(* names the client that keeps it between two actions.  DBImpl's mutex_    *)
(* covers what pins files and what deletes them, but no use of the cache   *)
(* by readers: it is held from the moment obsolete is computed until the   *)
(* last of these files is gone.                                            *)
(*                                                                         *)
(* What the tables hold and which of them a compaction replaces is module  *)
(* Compaction; here it replaces any of those it reads.  All files are of   *)
(* one shard: an operation only ever touches the shard of its key.         *)
(***************************************************************************)
EXTENDS Integers, Sequences, FiniteSets, SequencesExt

CONSTANTS
  Client,    \* reads, iterators and builders of tables, each with one handle
  Handle,    \* where malloc may put an LRUHandle
  None,      \* NULL
  Capacity,  \* capacity_ of the shard
  Existing,  \* tables that DB::Open found, numbered from 1
  MaxFile    \* bound: file numbers handed out

ASSUME TableCacheAssumption ==
  /\ Capacity \in Nat /\ Existing \in Nat /\ MaxFile \in Nat
  /\ None \notin Client \cup Handle
  /\ IsFiniteSet(Client)

VARIABLES
  cache,     \* the shard, see CacheType
  mutex,     \* the client that holds the shard's mutex_ between two actions
  client,    \* what each client is doing, see ClientType
  live,      \* the tables of the current version
  disk,      \* the tables in the directory
  next,      \* next_file_number_
  obsolete,  \* tables that DeleteObsoleteFiles has still to delete
  evicted,   \* the one it has evicted and not yet deleted, or 0
  bg_error,  \* ~bg_error_.ok()
  closed     \* the database was deleted, and its cache with it

vars == <<cache, mutex, client, live, disk, next, obsolete, evicted, bg_error, closed>>

File == 1 .. MaxFile

(***************************************************************************)
(* LRUHandle: a freed one has no key.  The shard has its hash table, lru_  *)
(* with the oldest entry first, and in_use_.                               *)
(***************************************************************************)
LRUHandle == [key : File \cup {0}, refs : Int, in_cache : BOOLEAN]
Free == [key |-> 0, refs |-> 0, in_cache |-> FALSE]

CacheType ==
  [entry : [Handle -> LRUHandle], table : [File -> Handle \cup {None}],
   lru : Seq(Handle), in_use : SUBSET Handle, usage : Int]

(***************************************************************************)
(* A client is "idle"; "pinned", with files that it keeps from deletion:   *)
(* those of the version it reads, or the output it builds, or both;        *)
(* "miss" when the table it wants was not in the cache, "opened" when it   *)
(* has opened it, "evicting" in the loop of Insert; "using" its handle;    *)
(* "failed" when it builds a table and could not open one.                 *)
(***************************************************************************)
ClientType ==
  [pc : {"idle", "pinned", "miss", "opened", "evicting", "using", "failed"},
   pins : SUBSET File, build : File \cup {0}, want : File \cup {0},
   handle : Handle \cup {None}]

Resting == [pc |-> "idle", pins |-> {}, build |-> 0, want |-> 0, handle |-> None]

TypeOK ==
  /\ cache \in CacheType
  /\ mutex \in Client \cup {None}
  /\ client \in [Client -> ClientType]
  /\ live \subseteq File /\ disk \subseteq File /\ obsolete \subseteq File
  /\ next \in Nat \ {0} /\ evicted \in File \cup {0}
  /\ bg_error \in BOOLEAN /\ closed \in BOOLEAN

Init ==
  /\ cache = [entry |-> [h \in Handle |-> Free], table |-> [n \in File |-> None],
              lru |-> <<>>, in_use |-> {}, usage |-> 0]
  /\ mutex = None
  /\ client = [c \in Client |-> Resting]
  /\ live = File \cap 1 .. Existing /\ disk = live /\ next = Existing + 1
  /\ obsolete = {} /\ evicted = 0
  /\ bg_error = FALSE /\ closed = FALSE

-----------------------------------------------------------------------------
(* Reference counts and lists of the shard.                                *)

\* LRU_Remove: unlinks an entry from the list it is in.
Unlinked(s, h) ==
  [s EXCEPT !.lru = IF \E i \in DOMAIN @ : @[i] = h
                    THEN RemoveAt(@, CHOOSE i \in DOMAIN @ : @[i] = h) ELSE @,
            !.in_use = @ \ {h}]

Ref(s, h) ==
  LET e == s.entry[h]
      t == IF e.refs = 1 /\ e.in_cache
           THEN [Unlinked(s, h) EXCEPT !.in_use = @ \cup {h}] ELSE s
  IN  [t EXCEPT !.entry[h].refs = @ + 1]

\* The last reference deletes the table and its file object and frees the entry.
Unref(s, h) ==
  LET e == s.entry[h]
      t == [s EXCEPT !.entry[h].refs = @ - 1]
  IN  IF e.refs = 1 THEN [t EXCEPT !.entry[h] = Free]
      ELSE IF e.refs = 2 /\ e.in_cache
      THEN [Unlinked(t, h) EXCEPT !.lru = Append(@, h)]
      ELSE t

\* Mutation: the cache's reference is not dropped.
FinishEraseLeaks(s, h) ==
  IF h = None THEN s
  ELSE [Unlinked(s, h) EXCEPT !.entry[h].in_cache = FALSE, !.usage = @ - 1]

\* FinishErase, for an entry that is in the hash table no longer.
FinishErase(s, h) ==
  IF h = None THEN s
  ELSE Unref([Unlinked(s, h) EXCEPT !.entry[h].in_cache = FALSE, !.usage = @ - 1], h)

\* FinishErase(table_.Remove(key)), as in Erase and in the loop of Insert.
Erased(s, n) == FinishErase([s EXCEPT !.table[n] = None], s.table[n])

\* Mutation: the entry that another client inserted meanwhile is not taken out.
InsertedOver(s, h, n) ==
  IF Capacity = 0
  THEN [s EXCEPT !.entry[h] = [key |-> n, refs |-> 1, in_cache |-> FALSE]]
  ELSE [s EXCEPT !.entry[h] = [key |-> n, refs |-> 2, in_cache |-> TRUE],
                 !.in_use = @ \cup {h}, !.usage = @ + 1, !.table[n] = h]

\* Insert in front of its loop; a capacity of 0 turns caching off.
Inserted(s, h, n) ==
  IF Capacity = 0
  THEN [s EXCEPT !.entry[h] = [key |-> n, refs |-> 1, in_cache |-> FALSE]]
  ELSE FinishErase([s EXCEPT !.entry[h] = [key |-> n, refs |-> 2, in_cache |-> TRUE],
                             !.in_use = @ \cup {h}, !.usage = @ + 1, !.table[n] = h],
                   s.table[n])

Overfull(s) == s.usage > Capacity /\ s.lru # <<>>

-----------------------------------------------------------------------------
(* Clients.                                                                *)

\* DBImpl's mutex_ is not with DeleteObsoleteFiles.
DBMutexFree == obsolete = {} /\ ~closed

\* DBImpl::Get, NewInternalIterator: a reference on the current version.
BeginRead(c) ==
  /\ client[c].pc = "idle" /\ DBMutexFree
  /\ client' = [client EXCEPT ![c] = [Resting EXCEPT !.pc = "pinned", !.pins = live]]
  /\ UNCHANGED <<cache, mutex, live, disk, next, obsolete, evicted, bg_error, closed>>

\* A flush writes a table, its number being in pending_outputs_; a compaction
\* also holds its input version.  One may run inside the other.
BeginBuild(c) ==
  /\ client[c].pc = "idle" /\ DBMutexFree /\ ~bg_error
  /\ next <= MaxFile
  /\ \E pins \in {{next}, live \cup {next}} :
       client' = [client EXCEPT ![c] =
                    [Resting EXCEPT !.pc = "pinned", !.pins = pins, !.build = next]]
  /\ disk' = disk \cup {next} /\ next' = next + 1
  /\ UNCHANGED <<cache, mutex, live, obsolete, evicted, bg_error, closed>>

\* FindTable: the lookup finds an entry, and takes a handle on it ...
Hit(c, n) ==
  /\ cache.table[n] # None
  /\ cache' = Ref(cache, cache.table[n])
  /\ client' = [client EXCEPT ![c] =
                  [@ EXCEPT !.pc = "using", !.want = n, !.handle = cache.table[n]]]

\* ... or it finds none.
Miss(c, n) ==
  /\ cache.table[n] = None
  /\ client' = [client EXCEPT ![c] = [@ EXCEPT !.pc = "miss", !.want = n]]
  /\ UNCHANGED cache

Lookup(c) ==
  /\ client[c].pc = "pinned" /\ mutex = None
  /\ \E n \in client[c].pins : Hit(c, n) \/ Miss(c, n)
  /\ UNCHANGED <<mutex, live, disk, next, obsolete, evicted, bg_error, closed>>

\* FindTable: NewRandomAccessFile and Table::Open, without any lock.
OpenTable(c) ==
  /\ client[c].pc = "miss"
  /\ client[c].want \in disk
  /\ client' = [client EXCEPT ![c].pc = "opened"]
  /\ UNCHANGED <<cache, mutex, live, disk, next, obsolete, evicted, bg_error, closed>>

\* An error is not cached; a reader reports it and may go on.
OpenFails(c) ==
  /\ client[c].pc = "miss"
  /\ client' = [client EXCEPT ![c].pc = IF client[c].build = 0 THEN "pinned" ELSE "failed"]
  /\ UNCHANGED <<cache, mutex, live, disk, next, obsolete, evicted, bg_error, closed>>

\* FindTable: Insert up to its loop, in what malloc gives it ...
InsertEntry(c, h) ==
  /\ cache.entry[h] = Free
  /\ cache' = Inserted(cache, h, client[c].want)
  /\ client' = [client EXCEPT ![c] = [@ EXCEPT !.pc = "evicting", !.handle = h]]

Insert(c) ==
  /\ client[c].pc = "opened" /\ mutex = None
  /\ \E h \in Handle : InsertEntry(c, h)
  /\ mutex' = c
  /\ UNCHANGED <<live, disk, next, obsolete, evicted, bg_error, closed>>

\* ... each round of the loop ...
EvictOldest(c) ==
  /\ client[c].pc = "evicting" /\ Overfull(cache)
  /\ cache' = Erased(cache, cache.entry[Head(cache.lru)].key)
  /\ UNCHANGED <<mutex, client, live, disk, next, obsolete, evicted, bg_error, closed>>

\* ... and its end.
InsertDone(c) ==
  /\ client[c].pc = "evicting" /\ ~Overfull(cache)
  /\ mutex' = None
  /\ client' = [client EXCEPT ![c].pc = "using"]
  /\ UNCHANGED <<cache, live, disk, next, obsolete, evicted, bg_error, closed>>

\* The end of TableCache::Get, or UnrefEntry when an iterator is deleted.
Release(c) ==
  /\ client[c].pc = "using" /\ mutex = None
  /\ cache' = Unref(cache, client[c].handle)
  /\ client' = [client EXCEPT ![c] = [@ EXCEPT !.pc = "pinned", !.want = 0, !.handle = None]]
  /\ UNCHANGED <<mutex, live, disk, next, obsolete, evicted, bg_error, closed>>

\* The version is released.
EndRead(c) ==
  /\ client[c].pc = "pinned" /\ client[c].build = 0 /\ DBMutexFree
  /\ client' = [client EXCEPT ![c] = Resting]
  /\ UNCHANGED <<cache, mutex, live, disk, next, obsolete, evicted, bg_error, closed>>

-----------------------------------------------------------------------------
(* The background thread.                                                  *)

\* A version that is live, or pending_outputs_, has these.
PinnedBy(cs) == UNION {client[c].pins : c \in cs}

\* The version with the new table, without those it replaces, becomes current;
\* DeleteObsoleteFiles makes the set of what nobody needs any more.
Install(c) ==
  /\ client[c].pc = "pinned" /\ client[c].build # 0 /\ DBMutexFree
  /\ \E del \in SUBSET (live \cap client[c].pins) :
       live' = (live \ del) \cup {client[c].build}
  /\ obsolete' = IF bg_error THEN {} ELSE disk \ (live' \cup PinnedBy(Client \ {c}))
  /\ client' = [client EXCEPT ![c] = Resting]
  /\ UNCHANGED <<cache, mutex, disk, next, evicted, bg_error, closed>>

\* The flush or compaction failed, and nothing is deleted after an error but
\* what BuildTable could not open again.
Abandon(c) ==
  /\ client[c].pc \in {"pinned", "failed"} /\ client[c].build # 0 /\ DBMutexFree
  /\ bg_error' = TRUE
  /\ disk' \in {disk} \cup (IF client[c].pc = "failed" /\ client[c].pins = {client[c].build}
                            THEN {disk \ client[c].pins} ELSE {})
  /\ client' = [client EXCEPT ![c] = Resting]
  /\ UNCHANGED <<cache, mutex, live, next, obsolete, evicted, closed>>

\* Mutation: the table stays in the cache.
EvictFileForgotten ==
  /\ evicted = 0 /\ mutex = None
  /\ \E n \in obsolete : evicted' = n
  /\ UNCHANGED <<cache, mutex, client, live, disk, next, obsolete, bg_error, closed>>

\* DeleteObsoleteFiles: TableCache::Evict, and then the file is deleted, or not.
EvictFile ==
  /\ evicted = 0 /\ mutex = None
  /\ \E n \in obsolete : cache' = Erased(cache, n) /\ evicted' = n
  /\ UNCHANGED <<mutex, client, live, disk, next, obsolete, bg_error, closed>>

DeleteFile ==
  /\ evicted # 0
  /\ disk' \in {disk, disk \ {evicted}}
  /\ obsolete' = obsolete \ {evicted} /\ evicted' = 0
  /\ UNCHANGED <<cache, mutex, client, live, next, bg_error, closed>>

\* ~DBImpl deletes the cache, which drops its reference on what is in lru_.
Close ==
  /\ DBMutexFree /\ \A c \in Client : client[c].pc = "idle"
  /\ cache' = [entry |-> [h \in Handle |-> IF \E i \in DOMAIN cache.lru : cache.lru[i] = h
                                           THEN Free ELSE cache.entry[h]],
               table |-> [n \in File |-> None], lru |-> <<>>, in_use |-> cache.in_use,
               usage |-> 0]
  /\ closed' = TRUE
  /\ UNCHANGED <<mutex, client, live, disk, next, obsolete, evicted, bg_error>>

Next ==
  \/ \E c \in Client :
       \/ BeginRead(c) \/ BeginBuild(c) \/ Lookup(c) \/ OpenTable(c) \/ OpenFails(c)
       \/ Insert(c) \/ EvictOldest(c) \/ InsertDone(c) \/ Release(c) \/ EndRead(c)
       \/ Install(c) \/ Abandon(c)
  \/ EvictFile \/ DeleteFile \/ Close

Spec == Init /\ [][Next]_vars

-----------------------------------------------------------------------------
(* Properties.                                                             *)

Holds(c, h) == client[c].pc \in {"evicting", "using"} /\ client[c].handle = h
Holders(h) == {c \in Client : Holds(c, h)}
Allocated == {h \in Handle : cache.entry[h] # Free}
Cached == {h \in Allocated : cache.entry[h].in_cache}

\* Whoever has a handle has the table it asked for, and that table is not
\* deleted under it: not when another client that missed it too inserts it again,
\* not when it is evicted, by the limit or by DeleteObsoleteFiles.
HandlesValid ==
  \A c \in Client : client[c].pc \in {"evicting", "using"} =>
    cache.entry[client[c].handle].key = client[c].want

\* What the comments of LRUCache say of refs, in_cache and the two lists, with
\* refs being what it counts: the holders of handles, and the cache.
ListsAgree ==
  \A h \in Handle : LET e == cache.entry[h] IN
    /\ e.refs = Cardinality(Holders(h)) + (IF e.in_cache THEN 1 ELSE 0)
    /\ (\E i \in DOMAIN cache.lru : cache.lru[i] = h) <=> (e.in_cache /\ e.refs = 1)
    /\ h \in cache.in_use <=> (e.in_cache /\ e.refs >= 2)
    /\ e.in_cache <=> (e # Free /\ cache.table[e.key] = h)
    /\ e = Free <=> e.refs = 0

\* The two together: a handle on a table, and what the cache counts of them.
CacheConsistent == HandlesValid /\ ListsAgree

\* No more tables are open than the capacity and one for each client, and all are
\* closed with the database.  (Release evicts nothing: when many were in use at
\* once the cache stays above its capacity until the next Insert.)
OpenTablesBounded ==
  /\ mutex = None => Cardinality(Allocated) <= Capacity + Cardinality(Client)
  /\ closed => Allocated = {}

\* No table stays open once its file was deleted, and nobody opens one then: what
\* DeleteObsoleteFiles evicted does not come back into the cache.
OpenTablesExist ==
  /\ \A h \in Allocated : cache.entry[h].key \in disk
  /\ \A c \in Client : client[c].pins \subseteq disk
=============================================================================
