# TLA+ models of build-your-own-redis

This directory holds TLA+ models of the server in `src/`. The sources are
`src/buffer.h` and `src/buffer.cpp` (the ring buffer), and `src/server.cpp`
(everything else). The checks are run with TLC.

## The system

The server is a single-threaded poll loop (`main`). Its parts are:

| Part | Code | State |
|---|---|---|
| RingBuffer | `class Buffer` | `head`, `tail`, `capacity`, `_size`, `data` |
| Value store | `do_set`, `do_del`, `do_expire`, `do_zadd`, `do_zrem`, read-only `do_get`, `do_ttl`, `do_keys`, `do_zscore`, `do_zquery` | `g_data.db` (hashtable of `Entry`) |
| Timer service | `process_timers`, `next_timer_ms` | `g_data.heap` (TTL min-heap), `g_data.idle_list` |
| AOF engine | `aof_write_command`, `aof_flush_and_sync`, `load_aof_file`, `aof_init`, `aof_rewrite*`, `do_aof_rewrite` | `aof_fd`, `aof_buf`, `aof_last_save_ms`, `aof_rewriting`, `aof_rewrite_fd` |
| Codec | `parse_req`, `try_one_request`, `out_*`, `response_begin`, `response_end`, `out_begin_arr`, `out_end_arr` | bytes in `Conn::incoming` and `Conn::outgoing` |
| Connections | `handle_accept`, `handle_read`, `try_one_request`, `handle_write`, `conn_destroy` | `Conn` flags and its two Buffers, `fd2conn` |
| External containers | hashtable, zset, heap, list, thread pool | not part of `src/` |

The parts interact as follows:

1. `handle_read` appends socket bytes to `incoming`.
2. `try_one_request` parses one request at a time (pipelining).
3. `do_request` appends every mutating command to `aof_buf` *before* it runs the handler. Then `aof_flush_and_sync` writes one contiguous span of `aof_buf` and fsyncs at most once a second.
4. The reply is encoded into `outgoing`, and its length header is patched by `response_end`.
5. `handle_write` writes one contiguous span of `outgoing`.
6. At the end of each loop iteration, `process_timers` closes idle connections and deletes due keys. Those deletions are not logged.
7. `bgrewriteaof` runs synchronously on the main thread:
   - it writes one command sequence per entry to `redis.aof.temp`;
   - it flushes `aof_buf` into the old file;
   - it renames the temporary file over the log and reopens it.
8. At start-up, `aof_init` replays the log through `do_request` with AOF off.

## Modules

| Module | Models | State and actions |
|---|---|---|
| `ByteQueue` | what `Buffer` promises: a FIFO of bytes with in-place overwrite | `q`; `Put`, `Take`, `Overwrite` |
| `Buffer` | `class Buffer` | `buf` record with the class's fields plus `oob` (a memcpy left its array: undefined behaviour); one operator per method; driver actions `AppendBytes`, `ConsumeBytes`, `PatchBytes` make the calls its callers make |
| `Store` | the keyspace, the mutating handlers, the TTL half of `process_timers` | `db : Keys -> Entry ∪ {Nil}`, `heap` (set of `[val, ref]` items), `now`; handlers are operators on `[db, heap]`; actions `Set`, `Del`, `Expire`, `Zadd`, `Zrem`, `ProcessTimers`, `Tick` |
| `AofLog` | the AOF as a log of commands: logging, replay, rewrite | Store's variables plus `log` and `rewrites`; `Request`, `Bgrewriteaof`, `ProcessTimers`, `Tick`, `Restart` |
| `AofWrite` | the AOF as bytes: `aof_buf`, the flush, the rewrite's file, failing system calls, fsync, a process kill or power loss, `load_aof_file`'s decoding | Store's variables plus `rewrites`, `aofBuf` (a Buffer), `file` (a sequence of bytes), `aofEnabled`, `lastSave` (`aof_last_save_ms`), and the history variables `synced` (the bytes the last fsync covered), `syncedSt` (the store at that fsync) and `syncedWhole` (that fsync found `aof_buf` empty); `Request`, `Bgrewriteaof`, `Tick`, `Restart` |
| `EventLoop` | the poll loop of `main` with its connections, `next_timer_ms` and the whole of `process_timers` | Store's variables plus `conn` (`fd2conn`: per fd a record of the flags, "outgoing is non-empty" and `last_active_ms`, or Nil), `idle` (the idle list as a sequence), `phase`, `deadline` (when the pending poll times out) and `ready` (the revents not yet handled); `PreparePoll`, `PollEvents`, `PollTimeout`, `PollInterrupted`, `HandleConn`, `ProcessTimers`, `Tick` |
| `Codec` | both directions of one connection's bytes: request framing and parsing from `Conn::incoming`, response encoding into `Conn::outgoing`, and the write side | `incoming` and `out` (Buffers), `stream` (bytes sent and not yet read), `pending` (bytes the client must still receive), `wantRead`, `wantClose`, histories `sent` and `executed`; `HandleRead` (a read, the `try_one_request` loop and the optimistic write), `HandleWrite` |
| `MC*` | instantiate the above for TLC | model values and bounds |

### How the modules correspond to the code

**Buffer.** Each operator of `Buffer` models one method, with every branch of the code:
- `Resize` has the one-memcpy and two-memcpy branches. It copies as many bytes as the code does, whether or not they fit the new array.
- `BufAppend` has the growth rule and the split copy.
- `Insert` extends the size, grows, and then does a wrapping copy.
- `ContinuousLen` uses the exact test and result of `get_continuous_data`.

`Contents(buf)` is what `peek(dst, 0, size)` returns. The refinement `Queue == INSTANCE ByteQueue WITH q <- Contents(buf)` states that the ring buffer is a FIFO.

**Store.** `Entry` is a record tagged `"str"` or `"zset"`. A zset is a function from member names to scores. The tree and hash of `zset.h` are abstracted away, because no property here depends on member order.

The heap is abstracted to its set of items, and `heap_idx` to "an item refers to this key". `process_timers` removes a batch: the `MaxWorks + 1` items of smallest `val` among the due ones (`val < now`). The order among equal `val`s is left open, as the heap leaves it.

**AofLog.** A command is a record of parsed arguments, and the log is a sequence of such records.
- `Exec` is `do_request`'s dispatch.
- `Replay` folds `Exec` over the log (`FoldLeft` of SequencesExt) at the restart clock, as `load_aof_file` does.
- `RewriteEntry` and `RewriteLog` are `aof_rewrite_entry` and `aof_rewrite_do`:
  - a string entry is written as `set`, then `pexpire remaining` only when the remaining time is > 0;
  - a zset entry is written as one `zadd` per member with a non-empty name, with the score as `std::to_string` prints it, then the same `pexpire`.

  Scores are integers in units of 1e-7, so `ToString` rounds to a multiple of 10.
- `Restart` replaces the store by the replay of the log.

**AofWrite.** Arguments are the bytes the code handles. A command name is its ASCII bytes. Keys and values are one byte each, given by the MC module. A TTL or score is its `std::to_string` text.
- `AofWriteCommand` is the chain of `buf_append_u32` and `buf_append` calls of `aof_write_command` on `aof_buf`, a Buffer instance. Growth and wrap-around come from module Buffer.
- `AofFlushAndSync` hands `get_continuous_data(0)`, the first contiguous span only, to `write()` and consumes what it returns. An error (-1) is only logged, so the bytes stay in `aof_buf`.
- The constant `Faults` says which failures of the file system and the machine may happen. `WriteResults` gives what `write()` returns: the whole span; -1 with `"error"`; a short count with `"short"`.
- `Request` is `do_request` for a mutating command. With AOF on it appends the frame, runs the Store handler, then flushes. With AOF off it runs the handler alone.
- `BgrewriteaofWith(r)` is `do_aof_rewrite` (refused with AOF off) through `aof_rewrite_finish`, where `r` is the outcome of the rename and the reopen (`RenameResults`). It flushes `aof_buf` into the old file. Then:
  - `"ok"` replaces the file by `RewriteBytes`, the first span of one fresh Buffer per command;
  - `"rename"` (a failed `rename()`) unlinks the temporary file and keeps the old log;
  - `"reopen"` (a failed `open()` after the rename) replaces the file and switches AOF off.

  Whatever `aof_buf` keeps is written later to whatever file is then the log.
- `Fsyncs` and `AfterSync` are the "fsync everysec" tail of `aof_flush_and_sync`: after a write that did not fail, if more than `SyncMs` has passed since `aof_last_save_ms`, the whole file written so far becomes durable, `syncedSt` records the store after the command, and `syncedWhole` whether `aof_buf` was left empty. With a wrapped `aof_buf` the write covers only the first span, and that fsync makes a torn frame durable. `RewriteDurable` is the `fsync` that ends `aof_rewrite_do`: the renamed file is durable as a whole.
- `Restart` is a process kill followed by `aof_init`. `aof_buf` is lost and `aof_last_save_ms` is 0 again. After a kill the file keeps its bytes; after a power loss (`"power"` in `Faults`) it keeps only the first `synced` bytes. AOF is on again, as `g_data` initializes it, unless the `open()` of `aof_init` fails (`"open"`), or the `fopen()` of `load_aof_file` does (`"fopen"`): then AOF is off and the store is empty. After a failed `open()`, `load_aof_file` is not called. After a failed `fopen()`, `load_aof_file` returns without restoring the `aof_enabled` it cleared, so AOF stays off while `aof_init` reports it enabled. Otherwise `load_aof_file`'s loop decodes the file:
  - `LoadFrom`, `LoadRecord`, `ReadArgs` and `ReadArg` follow the freads, including a short fread that ends the loop;
  - `Commands` keeps the vectors `do_request` accepts;
  - AofLog's `Replay` executes them.
- Refinement: `Log == INSTANCE AofLog WITH log <- Image`, where `Image` decodes the file followed by the unwritten bytes of `aof_buf`. AofLog's `ReplayReproducesStore` is checked through this mapping while AOF is on. Once AOF is off, later commands are not logged, which the spec's error policy allows ("durability is sacrificed for availability").
- `process_timers` is left out of `Next`. It writes nothing to the AOF, and its effect on replay is AofLog's `aof_expiry` finding. With a key that can fall due, the pass run would only find that finding again.

**EventLoop.** One loop iteration is a sequence of actions, in the code's order:
- `PreparePoll` builds the poll set and takes the timeout from `NextTimerMs`. That is the earlier of the idle list's first timeout and the heap's least `val`; it gives -1 with no timers and 0 once one has passed. Otherwise it is the distance cast to `int32_t` (`Int32`, at a scaled width).
- Then `poll()` ends one of three ways:
  - `PollEvents`: a client connects (`handle_accept` gives the lowest free fd), and/or some polled fds report one event each;
  - `PollTimeout`: the deadline has passed;
  - `PollInterrupted`: EINTR, which starts the iteration over.
- `HandleConn` takes the ready fds in fd order:
  - it touches the connection (`last_active_ms`, move to the back of the idle list);
  - it runs `handle_read` on POLLIN or `handle_write` on POLLOUT;
  - it destroys the connection on POLLERR or `want_close`.
- `ProcessTimers` destroys the expired connections at the front of the idle list, then deletes Store's batch of due keys.

A read is EAGAIN, an error, EOF, or data. Data holds no request or one request (a mutating command run through AofLog's `Exec`, or a read-only one), possibly followed by a frame `try_one_request` rejects. A write is EAGAIN, an error, a short write or a full write. A connection's buffers are reduced to whether `outgoing` is non-empty; Codec models their bytes. The clock is read once per action, and time passes in `Tick`.

**Codec.** The client's frames are chosen in `Init` from `Requests` (good ones, and four kinds that close the connection: `nstr` over `k_max_args`, trailing bytes, a length over `k_max_msg`, and a string length one past the frame). `ReqFrame` builds their bytes from the spec's request frame. `stream` holds the bytes read() has not yet returned.
- `HandleRead` is one `read()` of one byte or of all that is left, `buf_append` to `incoming`, the loop `while (try_one_request(conn))`, and the optimistic `handle_write`.
- `TryRequests` is that loop. Each turn is `try_one_request`: `ReqLen` is `peek_u32(0)`, `Complete` is the two length checks, `ReqArgs` is the body `peek` parsed by `ParseReq`/`ParseStrs` (`parse_req`, `read_u32`, `read_str`), and `Consumed` is `consume(4 + len)`. `Rejected` is the `want_close` exit.
- A u32 of 2^18 or more is read as 2^18 (`U32Val`). Such a value only ever fails a bound check, and TLC's integers are 32 bits.
- Once a memcpy has run past an array, the behaviour is undefined, so the loop stops there. The state is already a `NoOverrun` violation.

Every serializer is the exact chain of `buf_append*` calls of the code, so growth happens call by call, as in the code.
- `Respond` is `response_begin`, the handler body, and `response_end`.
- `OutEndArr` is the 4-byte memcpy at `&out[ctx]`. It writes consecutive array cells from the wrapped index, and sets `oob` when they run past the end.
- `Frame` is the response frame of section 4.2 of the spec, written independently of the buffer code: `u32 len` then the tagged value, or a single ERR(TOO_BIG) when the value exceeds `k_max_msg`.
- The property `OutgoingIsFrames` compares the two.
- Bytes are numbers 0..255. Name and double bytes are an opaque model value.
- A `write()` returns EAGAIN (0 bytes) or any length up to the contiguous span.

## Runs

| Run | cfg | Expect | Checks | Shows |
|---|---|---|---|---|
| buffer | `MCBuffer.cfg` | pass | `TypeOK`, `NoOverrun`, `ContinuousSpanSafe`, `ImplementsByteQueue` | Through growth and wrap-around, no memcpy leaves the array, no uninitialized byte is read as data, the span handed to `write()` is non-empty and inside the live bytes, and the contents behave as a FIFO. |
| event_loop | `MCEventLoop.cfg` | pass | `TypeOK`, `HeapTracksEntries`, `HandlerAssertsHold`, `IdleListTracksConns`, `ExpiredEventuallyRemoved`, `IdleConnEventuallyClosed` | With requests arriving through two connections: no heap item outlives its entry; the asserts of the loop and of `handle_write` hold; the idle list holds exactly the live connections in last-active order; and with no client doing anything, `next_timer_ms` wakes `poll()` so that every due key and every idle connection is removed. |
| codec | `MCCodec.cfg` | pass | `TypeOK`, `OutgoingIsFrames`, `NoOverrun`, `RequestsServedInOrder` | Up to four pipelined frames (get, pexpire, keys and the four bad kinds), split into reads of one byte or of everything. Exactly the frames before the first bad one reach `do_request`, in order and once each. Once all is read, the connection is closing exactly when a bad frame was sent. `outgoing` always holds exactly the response frames not yet sent, with correct length headers. |
| codec_arr_wrap | `MCCodecArrWrap.cfg` | violation | `NoOverrun` | A zquery reply whose array count lies in the last three bytes of the ring makes `out_end_arr` write past the array. |
| codec_too_big | `MCCodecTooBig.cfg` | violation | `NoOverrun` | `response_end`'s `out.resize(header + 4)` on an oversized reply copies the whole body into a smaller array. |
| aof_write | `MCAofWrite.cfg` | pass | `TypeOK`, `LogReproducesStore`, `RewriteReproducesStore`, `SyncedLogReproduces` | At the level of bytes, the file plus `aof_buf` decode to commands whose replay rebuilds the store while AOF is on. This holds through appends, flushes, a rewrite whose rename or reopen may fail, and restarts after a kill or a power loss whose `open()` or `fopen()` may fail. Right after a rewrite the bytes rebuild the store with the same expiry times. When the last fsync found `aof_buf` empty, the prefix it made durable, which is what a power loss leaves, replays to the store of that fsync. The run's `aof_buf` never wraps, so the torn durable frame of a wrapped one (hazard at server.cpp:928) is not reached. |
| aof_torn_tail | `MCAofTornTail.cfg` | violation | `LogReproducesStore` | Once `aof_buf` wraps, one flush writes only part of a frame. A kill leaves the torn frame in the file, and `aof_init` appends behind it. Every later command is lost to replay. |
| aof_rewrite_leftover | `MCAofLeftover.cfg` | violation | `LogReproducesStore` | Two commands whose `write()` failed, `pexpire k 2` on a missing key and then `set k a`, stay in `aof_buf` through a rewrite whose flush fails too. They are later written behind the rewritten `set k a`, so replay gives `k` a TTL it never had. |
| aof_expiry | `MCAofExpiry.cfg` | violation | `ReplayReproducesStore` | Expiry is not logged, so a restart resurrects the key. |
| aof_empty_zset | `MCAofEmptyZset.cfg` | violation | `ReplayReproducesStore` | zadd, zrem, bgrewriteaof: the emptied zset disappears from the log but not from the live table, so a later `set` differs. |
| aof_rewrite_members | `MCAofMembers.cfg` | violation | `RewriteReproducesStore` | The rewrite loses zset members: after `zadd k 13 ''` and `bgrewriteaof` the log is empty, because a member with an empty name is skipped. The six-decimal `std::to_string` of scores (server.cpp:605) is modelled by `ToString` but shows in no trace. |
| aof_due_ttl | `MCAofDueTtl.cfg` | violation | `RewriteKeepsTtl` | A key whose TTL is due but which the timer has not yet removed becomes permanent. |

`ReplayReproducesStore` compares TTL *presence*, not expiry times. `pexpire` is logged with its relative argument, so replay re-bases every TTL on the clock at restart. The spec allows this ("ignoring TTL clock drift").

Each property of a passing run has a mutant in `PROJECT.json`: a faulty variant of a mapped operator, written just before it, that TLC shows violating the property. The mutants are:
- a swapped memcpy in resize;
- a missing second memcpy;
- an unclamped span;
- a consume without modulo;
- a missing negative-TTL branch;
- a missing heap detach;
- a `handle_write` that leaves `want_write` set;
- a touch that does not move the connection;
- a `next_timer_ms` that forgets the heap, and one that forgets the idle list;
- a `load_aof_file` read that takes each string one byte early;
- a string rewrite without `pexpire`;
- a rewrite renamed without the `fsync` of the temporary file;
- a response length patch off by the header, an insert that does not wrap, and a `try_one_request` that consumes `len` without the 4-byte header.

## Bounds, and why they are enough

- **Buffer:** two byte values, initial capacity 2, growth step 4, appends of 1 to 2 bytes, at most 4 bytes buffered.
  - This reaches every branch: wrap of append with `tail == capacity`; growth of a wrapped, a full and a non-wrapped buffer; both branches of the growth rule (3 bytes needed double the capacity to 6, 4 add the step, to 8); patches across the wrap.
  - 7261 states.
- **EventLoop:** two fds, two keys, one value, TTL arguments -1 and 1, clock up to 3, `k_max_works` scaled to 0 and `k_idle_timeout_ms` to 1.
  - Two due keys take two timer passes.
  - A connection falls idle within the clock bound. Two connections can change places in the idle list and be ready in the same iteration.
  - `INT32_MAX` is scaled to 32767, and every timeout stays below it, so the cast is the identity here (see the hazard at `server.cpp:1172`).
  - Zset commands are left out: with one member and one score the run takes about four minutes. The zset handlers are exercised only by the violation runs of AofLog.
  - 51k states, about a minute.
- **AofLog:** two keys, and at most 4 logged commands.
  - The TTL, name, score and rewrite inputs are chosen per question: each violation run offers only the input that triggers it.
  - The AofLog runs are all violation runs. Their passing counterparts are the byte-level runs of AofWrite.
- **AofWrite:** two keys, one value, TTL arguments -1 and 2, clock up to 1, at most 60 bytes in the file plus `aof_buf` (three commands, such as two sets and a del), and one rewrite. `SyncMs` is 0: one tick stands for more than the 1000 ms of fsync everysec, so a flush at a later tick than the last fsync fsyncs again, and a flush at the same tick does not.
  - No TTL falls due before the clock bound, so expiry's known divergence (`aof_expiry`) and the dropped due TTL (`aof_due_ttl`) stay out of the pass run.
  - No zset is used, so the emptied-zset finding (`aof_empty_zset`) stays out too. Zset commands are covered in AofLog.
  - `aof_buf` starts at capacity 160 in the pass run, so it never wraps within 60 bytes. A frame is 16 to 26 bytes.
  - The pass run may fail every `rename`, reopen and `open`, and may lose power at any restart, but not fail a `write()`. A failed or short write followed by a rewrite is `aof_rewrite_leftover`, and a short write followed by a kill is the torn tail again.
  - The torn-tail run uses capacity 24 and no faults, so the second frame already wraps. The leftover run uses capacity 160 and only failed writes.
  - 144k states, about 80 s.

- **Codec:** the initial capacity is 8 instead of 1024, scaled down with the replies (nil 5 bytes, int 13, keys with one key 15, zquery with one member 24 bytes, header included).
  - `incoming` starts at capacity 16 instead of 1024. Request frames are 8 to 23 bytes, so `incoming` grows and its head wraps.
  - A read returns one byte or all that is left, so reads end inside headers, inside bodies, and between frames, and a read of everything pipelines every frame sent.
  - The client sends up to 4 frames in the pass run (239k states, about a minute) and up to 6 in the array-wrap run. A read of everything pipelines them all in one `try_one_request` loop.
  - This gives several growths and head positions all around both rings.
  - `k_max_msg` is 64, or 10 in the TOO_BIG run: above the keys request (9 bytes of body), below its reply (11).
  - The pass run leaves out zquery replies, because their count patch is the known overrun (`codec_arr_wrap`).

`append` can leave `tail == capacity` (an append ending exactly at the array end), where the spec's RingBuffer invariant says `tail = (head + size) mod capacity`. Every later use of `tail` copes with it, and `ImplementsByteQueue` and `ContinuousSpanSafe` hold through such states.

## Fairness

Store and AofLog assume `WF_vars(ProcessTimers)`. EventLoop derives it instead:
- the server's own steps are weakly fair (`PreparePoll`, `HandleConn`, `ProcessTimers`);
- `poll()` returning on its deadline is strongly fair (`SF_vars(PollTimeout)`). EINTR disables it between iterations, and the assumption is only that signals do not interrupt every `poll()` forever;
- clients, signals and the clock get no fairness.

So a due key or an idle connection is removed only because `next_timer_ms` set a deadline that `poll()` reaches. The mutants that drop either timer from `next_timer_ms` break the liveness properties.

## Not modelled

1. **AOF durability.** `fsync` is taken to succeed, although its result is ignored, and `rename()` is taken to be atomic and durable: the directory is never fsynced after it, so which name survives a power loss is up to the file system. Writes to the rewrite's temporary file are taken to succeed, although `aof_rewrite_entry` ignores their results.
   Two AOF hazards are modelled but no run shows them: an fsync after the first span of a wrapped `aof_buf` makes a torn frame durable (`SyncedLogReproduces` is stated only for an fsync that found `aof_buf` empty); and after a failed `fopen()` the server runs with AOF off, which the byte-level properties, stated while AOF is on, do not question.
   Also not checked: the off-by-one of the timer batch. `process_timers` deletes `k_max_works + 1` keys per pass (2001), where the spec says at most 2000. The model's batch deletes as the code does, but no run checks the spec's bound.
2. **Codec's dropped replies.** When a bad frame follows good ones in one read, the good ones are answered into `outgoing`. The connection is destroyed after a single optimistic write, so some replies may never be sent. The spec does not promise them, so no property asks for them. `read()` and `write()` errors are EventLoop's.
3. **EventLoop with bytes.** EventLoop's connections carry a flag, not Buffers: composing Codec's byte-level `outgoing` into it, and `POLLHUP` without `POLLERR` (which `main` neither reads nor writes nor closes on), are left out. With a pexpire of about 25 days and no connection open, the int32 cast turns the timeout negative. That case is outside the run's bounds: the clock would have to pass the scaled `INT32_MAX`.
4. **zquery.** The seek, offset and limit algorithm of `do_zquery`, as an operator checked against a reference over small sets.

The external containers (`hashtable.h`, `zset.h`, `heap.h`, `list.h`, `thread_pool.h`) are not part of `src/`. They appear only through the abstractions above. The thread pool frees entries that are already detached, which changes no state the main thread reads.
