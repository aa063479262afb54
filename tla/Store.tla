------------------------------- MODULE Store --------------------------------
(***************************************************************************)
(* The keyspace of src/server.cpp: g_data.db (the hash table of Entry),    *)
(* g_data.heap (the TTL min-heap) and the monotonic clock, with the        *)
(* command handlers do_* and the expiry half of process_timers.            *)
(*                                                                         *)
(* db maps every key to an Entry or to Nil.  An Entry is                   *)
(*   [type |-> "str",  str |-> v]        (T_STR, Entry::str)               *)
(*   [type |-> "zset", zset |-> z]       (T_ZSET, z a function from the    *)
(*                                        member names to their scores)    *)
(* heap is the set of HeapItem {val, ref}: val the expiry time and ref the *)
(* entry (by its key) whose heap_idx points at the item.  Entry::heap_idx  *)
(* = -1 is "no item refers to the entry".  The array layout of the heap    *)
(* and its sift operations (heap.cpp, not part of the sources) are         *)
(* abstracted to the set of items; heap[0] is an item of least val.        *)
(*                                                                         *)
(* The handlers are operators on a store S = [db |-> .., heap |-> ..] and  *)
(* the clock reading t, so that the modules of the AOF and of the event    *)
(* loop compose them with what else the request path does.  In this       *)
(* module AOF is off (g_data.aof_enabled = false: the server after a       *)
(* failed open of the log), so a request is exactly its handler.          *)
(***************************************************************************)
EXTENDS Naturals, Integers, FiniteSets

CONSTANTS
    Keys,       \* key strings the clients use
    StrVals,    \* string values of set
    Names,      \* zset member names
    Scores,     \* zset scores (never NaN: str2dbl rejects it)
    TtlArgs,    \* pexpire arguments that parse as int64 (negative clears)
    MaxWorks,   \* k_max_works of process_timers (2000 in the code)
    MaxTime,    \* the clock is not advanced beyond this bound
    Nil

VARIABLES db, heap, now

vars == <<db, heap, now>>

StrEntry(v) == [type |-> "str", str |-> v]
ZsetEntry(z) == [type |-> "zset", zset |-> z]

\* The heap item of the entry of key k, if any (Entry::heap_idx != -1).
ItemsOf(h, k) == {i \in h : i.ref = k}
HasTtl(h, k) == ItemsOf(h, k) # {}

\* A faulty entry_set_ttl without the branch for a negative TTL.
EntrySetTtlNoClear(h, k, ttl, t) ==
    (h \ ItemsOf(h, k)) \cup {[val |-> t + ttl, ref |-> k]}

\* heap_upsert / heap_delete through entry_set_ttl(ent, ttl_ms):
\* a negative TTL removes the entry's item if it has one; otherwise the
\* entry's item is updated in place or a new item is pushed.
EntrySetTtl(h, k, ttl, t) ==
    IF ttl < 0 THEN h \ ItemsOf(h, k)
    ELSE (h \ ItemsOf(h, k)) \cup {[val |-> t + ttl, ref |-> k]}

\* A faulty entry_del that frees the entry without detaching its heap item.
EntryDelNoDetach(h, k) == h

\* entry_del: detach from the heap (entry_set_ttl(ent, -1)), then free the
\* entry inline or on the thread pool; the freeing itself changes no state
\* the main thread can see.
EntryDel(h, k) == EntrySetTtl(h, k, -1, 0)

\* do_set: overwrite a string value or insert a new T_STR entry; a key
\* holding a zset is left alone (ERR_BAD_TYP).  The TTL is kept.
DoSet(S, k, v) ==
    IF S.db[k] # Nil /\ S.db[k].type # "str" THEN S
    ELSE [S EXCEPT !.db[k] = StrEntry(v)]

\* do_del: hm_delete, then entry_del of the removed entry.
DoDel(S, k) ==
    IF S.db[k] = Nil THEN S
    ELSE [db |-> [S.db EXCEPT ![k] = Nil], heap |-> EntryDel(S.heap, k)]

\* do_expire: entry_set_ttl on an existing key (the argument has already
\* been parsed by str2int).
DoExpire(S, k, ttl, t) ==
    IF S.db[k] = Nil THEN S
    ELSE [S EXCEPT !.heap = EntrySetTtl(S.heap, k, ttl, t)]

\* do_zadd: create an empty zset for a missing key, refuse a string key,
\* then zset_insert adds the member or updates its score.
DoZadd(S, k, score, name) ==
    LET z == IF S.db[k] = Nil THEN [n \in {} |-> 0] ELSE S.db[k].zset
    IN  IF S.db[k] # Nil /\ S.db[k].type # "zset" THEN S
        ELSE [S EXCEPT !.db[k] =
                ZsetEntry([n \in DOMAIN z \cup {name} |->
                             IF n = name THEN score ELSE z[n]])]

\* do_zrem: expect_zset treats a missing key as the shared empty zset; the
\* member is deleted if present.  An entry whose zset becomes empty stays.
DoZrem(S, k, name) ==
    IF S.db[k] = Nil \/ S.db[k].type # "zset" THEN S
    ELSE LET z == S.db[k].zset
         IN  [S EXCEPT !.db[k] =
                ZsetEntry([n \in DOMAIN z \ {name} |-> z[n]])]

\* A faulty due test, off by one millisecond.
ExpiredItemsLate(S, t) == {i \in S.heap : i.val + 1 < t}

\* process_timers, TTL part: while heap[0] has val < now, delete its entry
\* from db and the heap; the loop breaks after the item for which
\* nworks++ >= k_max_works, i.e. after MaxWorks + 1 deletions.  Items of
\* equal val leave the heap in an order the model does not fix.
ExpiredItems(S, t) == {i \in S.heap : i.val < t}

ExpireBatches(S, t) ==
    LET E == ExpiredItems(S, t)
        n == IF Cardinality(E) < MaxWorks + 1 THEN Cardinality(E) ELSE MaxWorks + 1
    IN  {D \in SUBSET E :
            /\ Cardinality(D) = n
            /\ \A d \in D, e \in E \ D : d.val <= e.val}

ExpireKeys(S, D) ==
    LET gone == {d.ref : d \in D}
    IN  [db   |-> [k \in Keys |-> IF k \in gone THEN Nil ELSE S.db[k]],
         heap |-> {i \in S.heap : i.ref \notin gone}]

-----------------------------------------------------------------------------
(* The server with AOF off: one action per mutating command and the timer  *)
(* pass of the event loop.  Read-only commands change nothing.            *)

St == [db |-> db, heap |-> heap]

Apply(S) == /\ db' = S.db
            /\ heap' = S.heap
            /\ UNCHANGED now

Init ==
    /\ db = [k \in Keys |-> Nil]
    /\ heap = {}
    /\ now = 0

Set    == \E k \in Keys, v \in StrVals : Apply(DoSet(St, k, v))
Del    == \E k \in Keys : Apply(DoDel(St, k))
Expire == \E k \in Keys, ttl \in TtlArgs : Apply(DoExpire(St, k, ttl, now))
Zadd   == \E k \in Keys, s \in Scores, n \in Names : Apply(DoZadd(St, k, s, n))
Zrem   == \E k \in Keys, n \in Names : Apply(DoZrem(St, k, n))

\* The end of an event-loop iteration with keys due.
ProcessTimers ==
    /\ ExpiredItems(St, now) # {}
    /\ \E D \in ExpireBatches(St, now) : Apply(ExpireKeys(St, D))

\* get_monotonic_msec advancing between two readings.
Tick ==
    /\ now < MaxTime
    /\ now' = now + 1
    /\ UNCHANGED <<db, heap>>

Next == Set \/ Del \/ Expire \/ Zadd \/ Zrem \/ ProcessTimers \/ Tick

\* poll() is woken by the TTL timer (next_timer_ms), so a due timer pass
\* is not postponed forever.
Spec == Init /\ [][Next]_vars /\ WF_vars(ProcessTimers)

-----------------------------------------------------------------------------
Entry == [type : {"str"}, str : StrVals] \cup
         [type : {"zset"}, zset : UNION {[N -> Scores] : N \in SUBSET Names}]

TypeOK ==
    /\ db \in [Keys -> Entry \cup {Nil}]
    /\ heap \subseteq [val : Nat, ref : Keys]
    /\ now \in 0..MaxTime

\* The TTL heap and the table agree: every heap item refers to an entry
\* that is still in db (no item survives del, expiry or overwrite of its
\* entry, which would be a use of a freed Entry), and no entry has two
\* items (heap_idx names one slot).
HeapTracksEntries ==
    \A k \in Keys :
        /\ HasTtl(heap, k) => db[k] # Nil
        /\ Cardinality(ItemsOf(heap, k)) <= 1

\* A key whose TTL is in the past is eventually removed by the timer pass.
ExpiredEventuallyRemoved ==
    \A k \in Keys :
        (\E i \in ItemsOf(heap, k) : i.val < now) ~> ~(\E i \in ItemsOf(heap, k) : i.val < now)
=============================================================================
