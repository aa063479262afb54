------------------------------ MODULE AofWrite ------------------------------
(***************************************************************************)
(* The append-only file as bytes (src/server.cpp): aof_write_command       *)
(* frames a mutating command into g_data.aof_buf, a Buffer (module         *)
(* Buffer); aof_flush_and_sync hands the first contiguous span of it to    *)
(* one write() and consumes what was written; bgrewriteaof writes the      *)
(* rewrite commands to the temporary file and renames it over the log;     *)
(* load_aof_file decodes the file frame by frame at start-up and passes    *)
(* every argument vector to do_request.  The keyspace is module Store, the *)
(* command log and its replay module AofLog: the commands the file and the *)
(* buffer hold, decoded, are the log of AofLog (Image below).              *)
(*                                                                         *)
(* The file system may fail as far as Faults allows: write() may return   *)
(* an error ("error") or write a part of its span ("short"), rename() may *)
(* fail ("rename"), and so may the open() after it ("reopen") or the one   *)
(* in aof_init ("open").  A crash is the process being killed (the file   *)
(* keeps every byte written to it, aof_buf is lost) or, if "power" is in   *)
(* Faults, the machine losing power: the file keeps only the bytes an      *)
(* fsync made durable.  aof_flush_and_sync fsyncs when more than SyncMs    *)
(* (1000 ms) have passed since the last fsync; aof_rewrite_do fsyncs the   *)
(* temporary file before the rename, which is taken to be atomic.  No TTL  *)
(* falls due here: process_timers writes nothing to the AOF, and what      *)
(* expiry does to the log is checked in module AofLog.                     *)
(*                                                                         *)
(* Arguments are strings.  A command name is its ASCII bytes; a key or a   *)
(* value is the bytes Code gives its model value; a member name the bytes  *)
(* NameBytes gives it ("" has none); a TTL or a score is its decimal text  *)
(* (scores in units of 1e-7, as in AofLog).                                *)
(***************************************************************************)
EXTENDS Integers, Sequences

CONSTANTS
    Keys, StrVals, Names, Scores, TtlArgs, MaxWorks, MaxTime, Nil, EmptyName,
    MaxRewrites,
    Junk, InitCap, GrowStep,  \* aof_buf: Buffer(1024) and its growth rule
    Code(_),      \* the bytes of a key or string value
    NameBytes(_), \* the bytes of a member name
    MaxBytes,     \* the file and aof_buf never hold more bytes than this
    Faults,       \* the failures of the file system that may happen
    SyncMs        \* the 1000 ms of fsync everysec, in clock ticks

VARIABLES db, heap, now, rewrites,
    aofBuf,       \* g_data.aof_buf
    file,         \* the bytes of the file g_data.aof_filename names
    aofEnabled,   \* g_data.aof_enabled
    lastSave,     \* g_data.aof_last_save_ms
    synced,       \* how many bytes of file an fsync has made durable
    syncedSt,     \* the store when they were made durable (history)
    syncedWhole   \* that fsync left aof_buf empty (history)

vars == <<db, heap, now, rewrites, aofBuf, file, aofEnabled, lastSave, synced, syncedSt, syncedWhole>>

LOCAL SE == INSTANCE SequencesExt

B == INSTANCE Buffer WITH Vals <- 0..255, buf <- aofBuf, MaxLen <- 0, MaxSize <- 0

U32(n) == [i \in 1..4 |-> (n \div (256 ^ (i - 1))) % 256]

\* k_max_args
K_MAX_ARGS == 200000

\* std::to_string of an integer.
RECURSIVE Digits(_)
Digits(n) == IF n < 10 THEN <<48 + n>> ELSE Digits(n \div 10) \o <<48 + (n % 10)>>
NumText(n) == IF n < 0 THEN <<45>> \o Digits(-n) ELSE Digits(n)

OpName(op) ==
    CASE op = "set"     -> <<115, 101, 116>>
      [] op = "del"     -> <<100, 101, 108>>
      [] op = "pexpire" -> <<112, 101, 120, 112, 105, 114, 101>>
      [] op = "zadd"    -> <<122, 97, 100, 100>>
      [] op = "zrem"    -> <<122, 114, 101, 109>>

\* The argument vector a command record stands for.
CmdArgs(c) ==
    <<OpName(c.op), Code(c.key)>> \o
    CASE c.op = "set"     -> <<Code(c.val)>>
      [] c.op = "del"     -> <<>>
      [] c.op = "pexpire" -> <<NumText(c.ttl)>>
      [] c.op = "zadd"    -> <<NumText(c.score), NameBytes(c.name)>>
      [] c.op = "zrem"    -> <<NameBytes(c.name)>>

-----------------------------------------------------------------------------
(* Writing.                                                                *)

\* aof_write_command: buf_append_u32(nstr), then buf_append_u32(len) and
\* buf_append(bytes) per argument; every append may grow the buffer.
RECURSIVE AppendArgs(_, _)
AppendArgs(b, args) ==
    IF args = <<>> THEN b
    ELSE AppendArgs(B!BufAppend(B!BufAppend(b, U32(Len(Head(args)))), Head(args)), Tail(args))

AofWriteCommand(b, c) == AppendArgs(B!BufAppend(b, U32(Len(CmdArgs(c)))), CmdArgs(c))

\* The length of a command's frame.
FrameLen(c) == 4 + 4 * Len(CmdArgs(c)) + Len(SE!FlattenSeq(CmdArgs(c)))

\* What write() may return for a span of n bytes: all of them, an error,
\* or a short count.
WriteResults(n) ==
    {n} \cup (IF "error" \in Faults THEN {-1} ELSE {})
        \cup (IF "short" \in Faults THEN 1..(n - 1) ELSE {})

\* The results of the write() aof_flush_and_sync makes on buffer b.
FlushResults(b) == WriteResults(B!ContinuousLen(b, 0))

\* aof_flush_and_sync when write() of get_continuous_data(0) returns rv:
\* nothing when aof_buf is empty; an error is only logged; otherwise
\* consume(rv).  Returns the buffer left and the bytes appended to the file.
AofFlushAndSync(b, rv) ==
    IF b.size = 0 \/ rv < 0 THEN [buf |-> b, out |-> <<>>]
    ELSE [buf |-> B!Consume(b, rv), out |-> B!Peek(b, 0, rv)]

\* The fsync everysec at the end of aof_flush_and_sync on buffer b: only
\* after a write() that did not fail on a non-empty aof_buf, and only when
\* more than SyncMs have passed since the last one.
Fsyncs(b, rv) == b.size > 0 /\ rv >= 0 /\ now - lastSave > SyncMs

\* What that fsync leaves durable, f being the file after the write, st
\* the store after the command and rest what aof_buf still holds.
AfterSync(b, rv, f, st, rest) ==
    IF Fsyncs(b, rv)
    THEN /\ lastSave' = now
         /\ synced' = Len(f)
         /\ syncedSt' = st
         /\ syncedWhole' = (rest.size = 0)
    ELSE UNCHANGED <<lastSave, synced, syncedSt, syncedWhole>>

\* aof_rewrite_entry writes, for each command, the first span of a fresh
\* Buffer holding the frame (a fresh buffer never wraps: all of it).
RewriteBytes(cmds) ==
    SE!FlattenSeq([i \in 1..Len(cmds) |->
        LET fb == AofWriteCommand(B!NewBuffer(InitCap), cmds[i])
        IN  B!Peek(fb, 0, B!ContinuousLen(fb, 0))])

\* A faulty rewrite that renames the temporary file without fsyncing it.
RewriteDurableNoFsync(f) == 0

\* aof_rewrite_do ends with fsync(aof_rewrite_fd): all of the file the
\* rename puts in place is durable.
RewriteDurable(f) == Len(f)

-----------------------------------------------------------------------------
(* Reading: load_aof_file.  A u32 read from four bytes f[i..i+3]; a value  *)
(* of 2^18 or more only ever exceeds k_max_args and the bytes left, so it  *)
(* is represented by 2^18.                                                 *)

U32At(f, i) ==
    IF f[i + 3] > 0 \/ f[i + 2] > 3 THEN 2 ^ 18
    ELSE f[i] + 256 * f[i + 1] + 65536 * f[i + 2]

\* The inner loop from offset p: n more strings to read into cmd.  A short
\* fread leaves the file at its end.
RECURSIVE ReadArgs(_, _, _, _), ReadArg(_, _, _, _, _)
\* A faulty read that takes the string from one byte too early.
ReadArgEarly(f, p, n, cmd, len) ==
    IF p + len > Len(f) THEN [cmd |-> cmd, pos |-> Len(f)]
    ELSE ReadArgs(f, p + len, n - 1, Append(cmd, SubSeq(f, p, p + len - 1)))
ReadArgs(f, p, n, cmd) ==
    IF n = 0 THEN [cmd |-> cmd, pos |-> p]
    ELSE IF p + 4 > Len(f) THEN [cmd |-> cmd, pos |-> Len(f)]
    ELSE ReadArg(f, p + 4, n, cmd, U32At(f, p + 1))
ReadArg(f, p, n, cmd, len) ==
    IF p + len > Len(f) THEN [cmd |-> cmd, pos |-> Len(f)]
    ELSE ReadArgs(f, p + len, n - 1, Append(cmd, SubSeq(f, p + 1, p + len)))

\* After one argument vector r: it is passed to do_request, and the loop
\* goes on from where the reads stopped.
RECURSIVE LoadFrom(_, _), LoadRecord(_, _), LoadNext(_, _)
LoadNext(f, r) == <<r.cmd>> \o LoadFrom(f, r.pos)
LoadRecord(f, p) ==
    LET n == U32At(f, p + 1)
    IN  IF n > K_MAX_ARGS THEN <<>> ELSE LoadNext(f, ReadArgs(f, p + 4, n, <<>>))

\* The outer loop from offset p: the argument vectors passed to do_request,
\* the one cut short by the end of the file included; nstr > k_max_args
\* ends it.
LoadFrom(f, p) == IF p + 4 > Len(f) THEN <<>> ELSE LoadRecord(f, p)

-----------------------------------------------------------------------------
A == INSTANCE AofLog WITH log <- <<>>, MaxLog <- 0

\* The commands a file's argument vectors can be: those of clients and
\* those a rewrite writes (remaining TTLs, scores as to_string prints them).
Universe ==
    A!MutatingCmds
    \cup [op : {"pexpire"}, key : Keys, ttl : UNION {1..x : x \in TtlArgs}]
    \cup [op : {"zadd"}, key : Keys, score : {A!ToString(s) : s \in Scores}, name : Names]

\* do_request's dispatch on (size, name): a vector that is no command of
\* Universe (a cut-short one: wrong size) gets "unknown command" and
\* changes nothing, so it is dropped.
Commands(f) ==
    LET vs == LoadFrom(f, 0)
        cs == [i \in 1..Len(vs) |-> {c \in Universe : CmdArgs(c) = vs[i]}]
        ok == SelectSeq(cs, LAMBDA m : m # {})
    IN  [i \in 1..Len(ok) |-> CHOOSE c \in ok[i] : TRUE]

\* What a start-up would replay: the file followed by the unwritten bytes.
ImageOf(f, b) == Commands(f \o B!Contents(b))
Image == ImageOf(file, aofBuf)

\* The refinement mapping: the log of AofLog is what the bytes decode to.
Log == INSTANCE AofLog WITH log <- Image, MaxLog <- 0

St == [db |-> db, heap |-> heap]

Init ==
    /\ A!S!Init
    /\ rewrites = 0
    /\ aofBuf = B!NewBuffer(InitCap)
    /\ file = <<>>
    /\ aofEnabled = TRUE
    /\ lastSave = 0
    /\ synced = 0
    /\ syncedSt = St
    /\ syncedWhole = TRUE

\* do_request for a mutating command: with AOF on, aof_write_command, the
\* handler, aof_flush_and_sync; with AOF off, the handler alone.
Request ==
    \E c \in A!MutatingCmds :
        /\ A!S!Apply(A!Exec(St, c, now))
        /\ \/ /\ aofEnabled
              /\ Len(file) + aofBuf.size + FrameLen(c) <= MaxBytes
              /\ \E b \in {AofWriteCommand(aofBuf, c)} :
                 \E rv \in FlushResults(b) :
                 \E w \in {AofFlushAndSync(b, rv)} :
                        /\ aofBuf' = w.buf
                        /\ file' = file \o w.out
                        /\ AfterSync(b, rv, file', [db |-> db', heap |-> heap'], w.buf)
           \/ /\ ~aofEnabled
              /\ UNCHANGED <<aofBuf, file, lastSave, synced, syncedSt, syncedWhole>>
        /\ UNCHANGED <<rewrites, aofEnabled>>

\* The outcomes of aof_rewrite_finish's rename() and of the open() that
\* reopens the log after it.
RenameResults == {"ok"} \cup (Faults \cap {"rename", "reopen"})

\* do_aof_rewrite (refused with AOF off) -> aof_rewrite: aof_rewrite_do
\* writes the rewrite to the temporary file; aof_rewrite_finish flushes
\* aof_buf to the old file and renames the temporary file over the log.
\* A failed rename() unlinks the temporary file and leaves the log; a
\* failed reopen switches AOF off.  The renamed file was fsynced as a
\* whole by aof_rewrite_do.  Whatever aof_buf still holds is
\* written to the log that is there when AOF next flushes.  r is the
\* outcome of the rename and the reopen.
BgrewriteaofWith(r) ==
    /\ aofEnabled
    /\ rewrites < MaxRewrites
    /\ rewrites' = rewrites + 1
    /\ \E rv \in FlushResults(aofBuf) :
       \E w \in {AofFlushAndSync(aofBuf, rv)} :
          /\ aofBuf' = w.buf
          /\ aofEnabled' = (r # "reopen")
          /\ IF r = "rename"
             THEN /\ file' = file \o w.out
                  /\ AfterSync(aofBuf, rv, file', St, w.buf)
             ELSE /\ file' = RewriteBytes(A!RewriteLog(St, now))
                  /\ lastSave' = IF Fsyncs(aofBuf, rv) THEN now ELSE lastSave
                  /\ synced' = RewriteDurable(file')
                  /\ syncedSt' = St
                  /\ syncedWhole' = TRUE
    /\ UNCHANGED <<db, heap, now>>

Bgrewriteaof == \E r \in RenameResults : BgrewriteaofWith(r)

Tick ==
    /\ A!S!Tick
    /\ UNCHANGED <<rewrites, aofBuf, file, aofEnabled, lastSave, synced, syncedSt, syncedWhole>>

\* The process is killed and started again: aof_buf is gone (AOF is on by
\* default), aof_last_save_ms is 0 again, aof_init reopens the file for
\* appending and load_aof_file replays it; if that open() fails, AOF is off
\* and the store is empty, and so it is if load_aof_file's fopen() fails,
\* which returns before restoring the aof_enabled it cleared.  A kill leaves the written bytes to the kernel;
\* a power loss keeps only the prefix the last fsync made durable.
Restart ==
    \E f \in {file} \cup (IF "power" \in Faults THEN {SubSeq(file, 1, synced)} ELSE {}) :
    \E r \in {A!Replay(Commands(f), now)} :
        /\ aofBuf' = B!NewBuffer(InitCap)
        /\ file' = f
        /\ lastSave' = 0
        /\ \/ /\ db' = r.db
              /\ heap' = r.heap
              /\ aofEnabled' = TRUE
           \/ /\ Faults \cap {"open", "fopen"} # {}
              /\ db' = [k \in Keys |-> Nil]
              /\ heap' = {}
              /\ aofEnabled' = FALSE
        /\ UNCHANGED <<now, rewrites, synced, syncedSt, syncedWhole>>

Next == Request \/ Bgrewriteaof \/ Tick \/ Restart

Spec == Init /\ [][Next]_vars

-----------------------------------------------------------------------------
TypeOK ==
    /\ A!S!TypeOK
    /\ B!TypeOK
    /\ file \in Seq(0..255)
    /\ rewrites \in 0..MaxRewrites
    /\ aofEnabled \in BOOLEAN
    /\ lastSave \in 0..MaxTime
    /\ synced \in 0..Len(file)
    /\ syncedWhole \in BOOLEAN

\* AOF replay determinism (spec, Testable properties) at the level of the
\* bytes: decoding the file and the unwritten rest of aof_buf with
\* load_aof_file's loop and replaying the commands rebuilds the store the
\* server holds, across flushes, rewrites and restarts: the same entries,
\* and a TTL on the same keys.  It is AofLog's property under the mapping
\* log <- Image.
LogReproducesStore == aofEnabled => Log!ReplayReproducesStore

\* Rewrite equivalence at the level of the bytes: right after a
\* bgrewriteaof whose rename() succeeded, the renamed file and what aof_buf
\* still holds decode to commands that rebuild the store, with the same
\* future expiry times; a failed flush before the rename leaves commands
\* in aof_buf that will follow the rewrite.
RewriteReproducesStore == [][(BgrewriteaofWith("ok") \/ BgrewriteaofWith("reopen")) => A!RewriteMatches(St, ImageOf(file', aofBuf'), now)]_vars

\* Durability across a power loss (spec: fsync at most once per second):
\* when the last fsync, of aof_flush_and_sync or of aof_rewrite_do before
\* its rename, found every acknowledged byte written (aof_buf empty), the
\* prefix it made durable, which a restart after a power loss loads,
\* decodes and replays to the store the server held when that fsync ran:
\* the same entries and a TTL on the same keys.  An fsync after a write of
\* the first span of a wrapped aof_buf makes a torn frame durable instead.
SyncedLogReproduces ==
    syncedWhole =>
        \E r \in {A!Replay(Commands(SubSeq(file, 1, synced)), now)} :
            \A k \in Keys : /\ r.db[k] = syncedSt.db[k]
                           /\ A!S!HasTtl(r.heap, k) = A!S!HasTtl(syncedSt.heap, k)
=============================================================================
