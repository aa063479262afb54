------------------------------- MODULE AofLog -------------------------------
(***************************************************************************)
(* The append-only file as a log of commands (src/server.cpp): do_request  *)
(* appends every mutating command to the log before running its handler,  *)
(* load_aof_file replays the log through do_request at start-up, and      *)
(* bgrewriteaof (aof_rewrite, aof_rewrite_do, aof_rewrite_entry,          *)
(* aof_rewrite_finish) replaces the log by commands that rebuild the      *)
(* store.  The log is the sequence of commands the file will hold once    *)
(* the AOF buffer has been written; how the bytes get there (the ring     *)
(* buffer, short writes, fsync) is module AofWrite.  The keyspace and its *)
(* handlers are module Store.                                             *)
(*                                                                         *)
(* A command is a record [op, key, ...] holding the arguments after       *)
(* parsing: the score of zadd is the double strtod produced, the TTL of   *)
(* pexpire the int64 of strtoll.  Scores are counted in units of 1e-7 so  *)
(* that std::to_string, which prints six decimals, can be modelled.       *)
(***************************************************************************)
EXTENDS Naturals, Integers, Sequences, FiniteSets

CONSTANTS
    Keys, StrVals, Names, Scores, TtlArgs, MaxWorks, MaxTime, Nil,
    EmptyName,  \* the member name "" (znode->len == 0)
    MaxLog,     \* the log is not grown beyond this many commands
    MaxRewrites \* bgrewriteaof is not run more often than this

VARIABLES db, heap, now, log,
    rewrites    \* how many rewrites have run (bounds the model only)

vars == <<db, heap, now, log, rewrites>>

S == INSTANCE Store
LOCAL SE == INSTANCE SequencesExt

SetCmds  == [op : {"set"}, key : Keys, val : StrVals]
DelCmds  == [op : {"del"}, key : Keys]
ExpCmds  == [op : {"pexpire"}, key : Keys, ttl : TtlArgs]
ZaddCmds == [op : {"zadd"}, key : Keys, score : Scores, name : Names]
ZremCmds == [op : {"zrem"}, key : Keys, name : Names]

\* The commands do_request passes to aof_write_command.
MutatingCmds == SetCmds \cup DelCmds \cup ExpCmds \cup ZaddCmds \cup ZremCmds

\* do_request with a mutating command: the handler it dispatches to.
Exec(st, c, t) ==
    CASE c.op = "set"     -> S!DoSet(st, c.key, c.val)
      [] c.op = "del"     -> S!DoDel(st, c.key)
      [] c.op = "pexpire" -> S!DoExpire(st, c.key, c.ttl, t)
      [] c.op = "zadd"    -> S!DoZadd(st, c.key, c.score, c.name)
      [] c.op = "zrem"    -> S!DoZrem(st, c.key, c.name)

EmptyStore == [db |-> [k \in Keys |-> Nil], heap |-> {}]

\* A faulty load loop that stops one record early.
ReplayDropLast(lg, t) ==
    SE!FoldLeft(LAMBDA st, c : Exec(st, c, t), EmptyStore, SubSeq(lg, 1, Len(lg) - 1))

\* load_aof_file: run every logged command through do_request, in order,
\* with AOF off, at clock reading t.
Replay(lg, t) == SE!FoldLeft(LAMBDA st, c : Exec(st, c, t), EmptyStore, lg)

\* std::to_string(double): "%f", six decimals, rounding to the nearest.
ToString(score) == ((score + 5) \div 10) * 10

\* A faulty aof_rewrite_entry whose string branch forgets the pexpire.
RewriteEntryNoTtl(st, k, t) ==
    LET e    == st.db[k]
        rest == {i.val - t : i \in S!ItemsOf(st.heap, k)}
        ttl  == IF \E r \in rest : r > 0
                THEN <<[op |-> "pexpire", key |-> k, ttl |-> CHOOSE r \in rest : TRUE]>>
                ELSE <<>>
        zadd(n) == [op |-> "zadd", key |-> k, score |-> ToString(e.zset[n]), name |-> n]
    IN  IF e.type = "str"
        THEN <<[op |-> "set", key |-> k, val |-> e.str]>>
        ELSE SE!SetToSeq({zadd(n) : n \in DOMAIN e.zset \ {EmptyName}}) \o ttl

\* aof_rewrite_entry: the commands written for one entry.  A string gets
\* set then, if its TTL is still in the future, pexpire with the remaining
\* milliseconds; a zset gets one zadd per member whose name is not empty,
\* with the score as std::to_string prints it, then the same pexpire.
RewriteEntry(st, k, t) ==
    LET e    == st.db[k]
        rest == {i.val - t : i \in S!ItemsOf(st.heap, k)}
        ttl  == IF \E r \in rest : r > 0
                THEN <<[op |-> "pexpire", key |-> k, ttl |-> CHOOSE r \in rest : TRUE]>>
                ELSE <<>>
        zadd(n) == [op |-> "zadd", key |-> k, score |-> ToString(e.zset[n]), name |-> n]
    IN  IF e.type = "str"
        THEN <<[op |-> "set", key |-> k, val |-> e.str]>> \o ttl
        ELSE SE!SetToSeq({zadd(n) : n \in DOMAIN e.zset \ {EmptyName}}) \o ttl

\* aof_rewrite_do: every entry of the table, in hash-table order (any
\* order: entries of different keys do not interact on replay).
RewriteLog(st, t) ==
    SE!FoldLeft(LAMBDA acc, k : acc \o RewriteEntry(st, k, t), <<>>,
                SE!SetToSeq({k \in Keys : st.db[k] # Nil}))

-----------------------------------------------------------------------------
St == [db |-> db, heap |-> heap]

Init ==
    /\ S!Init
    /\ log = <<>>
    /\ rewrites = 0

\* do_request for a mutating command: aof_write_command, the handler,
\* aof_flush_and_sync.  The command is logged whether or not the handler
\* succeeds (a set on a zset key is logged and fails again on replay).
Request ==
    /\ Len(log) < MaxLog
    /\ \E c \in MutatingCmds :
         /\ log' = Append(log, c)
         /\ S!Apply(Exec(St, c, now))
    /\ UNCHANGED rewrites

\* do_aof_rewrite when AOF is on and no rewrite runs (aof_rewriting is set
\* and cleared within the call): the temporary file receives the rewrite,
\* the pending buffer goes to the old file, rename replaces the log.
Bgrewriteaof ==
    /\ rewrites < MaxRewrites
    /\ rewrites' = rewrites + 1
    /\ log' = RewriteLog(St, now)
    /\ UNCHANGED <<db, heap, now>>

\* The timer pass: expiry deletes keys without logging anything.
ProcessTimers ==
    /\ S!ProcessTimers
    /\ UNCHANGED <<log, rewrites>>

Tick ==
    /\ S!Tick
    /\ UNCHANGED <<log, rewrites>>

\* The process is killed and started again: aof_init replays the log.
Restart ==
    LET r == Replay(log, now)
    IN  /\ db' = r.db
        /\ heap' = r.heap
        /\ UNCHANGED <<now, log, rewrites>>

Next == Request \/ Bgrewriteaof \/ ProcessTimers \/ Tick \/ Restart

Spec == Init /\ [][Next]_vars /\ WF_vars(ProcessTimers)

-----------------------------------------------------------------------------
TypeOK ==
    /\ S!TypeOK
    /\ log \in Seq(MutatingCmds \cup [op : {"pexpire"}, key : Keys, ttl : Nat]
                                 \cup [op : {"zadd"}, key : Keys, score : Nat, name : Names])

EmptyZset(e) == e # Nil /\ e.type = "zset" /\ DOMAIN e.zset = {}

\* The expiry time of key k in store st, or Nil when it has no TTL.
ExpiryOf(st, k) ==
    IF S!HasTtl(st.heap, k) THEN (CHOOSE i \in S!ItemsOf(st.heap, k) : TRUE).val
    ELSE Nil

\* AOF replay determinism (spec, Testable properties): replaying the log
\* into an empty store yields the store the server holds: every entry, and
\* a TTL on exactly the keys that have one.  pexpire is logged with its
\* relative argument, so replay re-bases expiry times on the clock of the
\* restart; the spec allows that drift, and only TTL presence is compared.
ReplayReproducesStore ==
    LET r == Replay(log, now)
    IN  \A k \in Keys : r.db[k] = db[k] /\ S!HasTtl(r.heap, k) = S!HasTtl(heap, k)

\* Replaying lg at time t rebuilds store st as a rewrite must.
RewriteMatches(st, lg, t) ==
    LET r == Replay(lg, t)
    IN  \A k \in Keys :
          /\ IF EmptyZset(st.db[k]) THEN r.db[k] \in {st.db[k], Nil}
                                    ELSE r.db[k] = st.db[k]
          /\ r.db[k] # Nil /\ ExpiryOf(st, k) # Nil /\ ExpiryOf(st, k) > t
               => ExpiryOf(r, k) = ExpiryOf(st, k)

\* Rewrite equivalence as the design of aof_rewrite_entry states it:
\* replaying the rewritten log at the time of the rewrite yields every entry
\* of the store, with the same expiry time when that time is in the
\* future; an entry holding an empty zset may be missing.
RewriteReproducesStore == [][Bgrewriteaof => RewriteMatches(St, log', now)]_vars

\* A rewrite never turns a key with a TTL into a permanent key: every entry
\* the rewritten log recreates has a TTL when the entry in the store has
\* one, whether or not that TTL is already due (aof_rewrite_entry writes
\* pexpire only when the remaining time is positive).
RewriteKeepsTtl ==
    [][Bgrewriteaof =>
         LET r == Replay(log', now)
         IN  \A k \in Keys : r.db[k] # Nil /\ S!HasTtl(heap, k) => S!HasTtl(r.heap, k)]_vars
=============================================================================
