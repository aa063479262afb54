------------------------------ MODULE EventLoop ------------------------------
(***************************************************************************)
(* The event loop of main (src/server.cpp) with the connections it serves  *)
(* and the keyspace their requests change: one iteration builds the poll   *)
(* set from every Conn's want_read / want_write and computes the timeout   *)
(* with next_timer_ms, waits in poll(), accepts at most one connection,    *)
(* handles the ready connections in fd order (touch the idle timer, read,  *)
(* write, destroy), and ends with process_timers, whose idle half destroys *)
(* the connections idle for k_idle_timeout_ms and whose TTL half is the    *)
(* batch of module Store.                                                  *)
(*                                                                         *)
(* A connection is its flags and its idle timer; its buffers are reduced   *)
(* to "outgoing is non-empty" (what the bytes are is module Codec).  A     *)
(* read brings EAGAIN, an error or EOF, or data holding no request or one  *)
(* request, possibly followed by a frame try_one_request rejects; a write  *)
(* is EAGAIN, an error, a short write or a full one.  A request is a       *)
(* mutating command of AofLog or a read-only one (ReadOnly), with AOF off  *)
(* as in Store.  The clock is read once per action: the handlers of one    *)
(* iteration run within a millisecond, time passes in Tick.                *)
(*                                                                         *)
(* Only the server's own steps are fair.  Clients (a connect, data,        *)
(* a writable socket, an error) may do nothing, ever.                      *)
(***************************************************************************)
EXTENDS Integers, Sequences, FiniteSets

CONSTANTS
    Keys, StrVals, Names, Scores, TtlArgs, MaxWorks, MaxTime, Nil, EmptyName,
    Fds,          \* the descriptors accept() can return, in fd order
    IdleTimeout,  \* k_idle_timeout_ms
    Int32Max,     \* INT32_MAX: the width of next_timer_ms's int32_t cast
    ReadOnly      \* a request for get, pttl, keys, zscore or zquery

VARIABLES db, heap, now,
    conn,       \* g_data.fd2conn: a Conn record, or Nil
    idle,       \* g_data.idle_list from the sentinel's next to its prev
    phase,      \* where the loop is: "prepare", "poll", "conns", "timers"
    deadline,   \* when the pending poll() times out (-1: never)
    ready       \* the revents of the polled fds not yet handled

vars == <<db, heap, now, conn, idle, phase, deadline, ready>>

LOCAL SE == INSTANCE SequencesExt
LOCAL FS == INSTANCE FiniteSetsExt

S == INSTANCE Store
A == INSTANCE AofLog WITH log <- <<>>, rewrites <- 0, MaxLog <- 0, MaxRewrites <- 0

Conn == [wantRead : BOOLEAN, wantWrite : BOOLEAN, wantClose : BOOLEAN,
         out : BOOLEAN,               \* outgoing.size() > 0
         lastActive : 0..MaxTime]     \* last_active_ms

Requests == A!MutatingCmds \cup {ReadOnly}

Live == {fd \in Fds : conn[fd] # Nil}

St == [db |-> db, heap |-> heap]

-----------------------------------------------------------------------------
(* Timers.                                                                 *)

\* (int32_t) of a uint64_t: the low 32 bits read as two's complement.
Int32(d) ==
    LET r == d % (2 * (Int32Max + 1))
    IN  IF r > Int32Max THEN r - 2 * (Int32Max + 1) ELSE r

\* A faulty next_timer_ms that forgets the idle timers.
NextTimerMsNoIdle(cs, idl, h, t) ==
    LET due == IF h = {} THEN {} ELSE {FS!Min({i.val : i \in h})}
    IN  IF due = {} THEN -1
        ELSE IF FS!Min(due) <= t THEN 0 ELSE Int32(FS!Min(due) - t)

\* A faulty next_timer_ms that forgets the TTL heap.
NextTimerMsNoHeap(cs, idl, h, t) ==
    LET due == IF idl = <<>> THEN {} ELSE {cs[Head(idl)].lastActive + IdleTimeout}
    IN  IF due = {} THEN -1
        ELSE IF FS!Min(due) <= t THEN 0 ELSE Int32(FS!Min(due) - t)

\* next_timer_ms: the earlier of the first idle connection's timeout and
\* heap[0].val; -1 without timers, 0 when it has passed, otherwise the
\* distance cast to int32_t (poll() waits forever on a negative timeout).
NextTimerMs(cs, idl, h, t) ==
    LET due == (IF idl = <<>> THEN {} ELSE {cs[Head(idl)].lastActive + IdleTimeout})
               \cup (IF h = {} THEN {} ELSE {FS!Min({i.val : i \in h})})
    IN  IF due = {} THEN -1
        ELSE IF FS!Min(due) <= t THEN 0 ELSE Int32(FS!Min(due) - t)

\* process_timers, idle part: the connections at the front of the idle list
\* whose last_active_ms + k_idle_timeout_ms < now; the loop stops at the
\* first one that is not.
RECURSIVE IdleExpired(_, _, _)
IdleExpired(cs, idl, t) ==
    IF idl # <<>> /\ cs[Head(idl)].lastActive + IdleTimeout < t
    THEN <<Head(idl)>> \o IdleExpired(cs, Tail(idl), t)
    ELSE <<>>

-----------------------------------------------------------------------------
(* One connection.                                                         *)

\* A faulty handle_write that leaves want_write set after a full write.
HandleWriteNoReset(c, rv) ==
    CASE rv = "eagain" -> c
      [] rv = "error"  -> [c EXCEPT !.wantClose = TRUE]
      [] rv = "short"  -> c
      [] rv = "all"    -> [c EXCEPT !.out = FALSE, !.wantRead = TRUE]

\* handle_write after write() returned rv: EAGAIN changes nothing, an error
\* asks for close, a write of everything switches back to reading.
HandleWrite(c, rv) ==
    CASE rv = "eagain" -> c
      [] rv = "error"  -> [c EXCEPT !.wantClose = TRUE]
      [] rv = "short"  -> c
      [] rv = "all"    -> [c EXCEPT !.out = FALSE, !.wantRead = TRUE, !.wantWrite = FALSE]

WriteResults == {"eagain", "error", "short", "all"}

\* What one read() brings: EAGAIN, an error, EOF, or data holding req
\* (Nil: no complete request) and bad (a frame try_one_request rejects
\* follows), with the result rv of the optimistic write.
ReadResults ==
    [kind : {"eagain", "error", "eof"}] \cup
    [kind : {"data"}, req : Requests \cup {Nil}, bad : BOOLEAN, rv : WriteResults]

\* The keyspace after the requests of read r.
Served(st, r, t) ==
    IF r.kind = "data" /\ r.req \notin {Nil, ReadOnly} THEN A!Exec(st, r.req, t) ELSE st

\* handle_read with read r: an error or EOF asks for close; data is parsed
\* by try_one_request in a loop, each request appending a response; a
\* response switches the connection to writing and is written at once.
HandleRead(c, r) ==
    IF r.kind \in {"error", "eof"} THEN [c EXCEPT !.wantClose = TRUE]
    ELSE IF r.kind = "eagain" THEN c
    ELSE LET c1 == [c EXCEPT !.out = (@ \/ r.req # Nil), !.wantClose = (@ \/ r.bad)]
         IN  IF c1.out
             THEN HandleWrite([c1 EXCEPT !.wantRead = FALSE, !.wantWrite = TRUE], r.rv)
             ELSE c1

\* A faulty touch that updates last_active_ms but leaves the node in place.
TouchInPlace(idl, fd) == idl

\* The touch of a ready connection: dlist_detach, then dlist_insert_before
\* the sentinel (the most recently active end).
Touch(idl, fd) == Append(SE!Remove(idl, fd), fd)

\* The events poll() may report for a connection: POLLERR always, POLLIN
\* if it wants to read, POLLOUT if it wants to write.
Polled(c) == {"err"} \cup (IF c.wantRead THEN {"in"} ELSE {})
                     \cup (IF c.wantWrite THEN {"out"} ELSE {})

-----------------------------------------------------------------------------
Init ==
    /\ S!Init
    /\ conn = [fd \in Fds |-> Nil]
    /\ idle = <<>>
    /\ phase = "prepare"
    /\ deadline = -1
    /\ ready = [fd \in {} |-> {}]

\* The poll set is built and next_timer_ms gives the timeout.
PreparePoll ==
    /\ phase = "prepare"
    /\ phase' = "poll"
    /\ deadline' = LET to == NextTimerMs(conn, idle, heap, now)
                   IN  IF to < 0 THEN -1 ELSE now + to
    /\ UNCHANGED <<db, heap, now, conn, idle, ready>>

\* poll() returns with events: a connecting client (handle_accept: the new
\* Conn gets the lowest free fd, want_read, the current time and the MRU
\* end of the idle list) and one event for each of some polled fds.
PollEvents ==
    /\ phase = "poll"
    /\ \E acc \in BOOLEAN, R \in SUBSET Live :
         \E ev \in [R -> {{"in"}, {"out"}, {"err"}}] :
           LET nfd == FS!Min(Fds \ Live)
           IN  /\ acc \/ R # {}
               /\ acc => Live # Fds
               /\ \A fd \in R : ev[fd] \subseteq Polled(conn[fd])
               /\ conn' = IF acc
                          THEN [conn EXCEPT ![nfd] = [wantRead |-> TRUE, wantWrite |-> FALSE,
                                   wantClose |-> FALSE, out |-> FALSE, lastActive |-> now]]
                          ELSE conn
               /\ idle' = IF acc THEN Append(idle, nfd) ELSE idle
               /\ ready' = ev
               /\ phase' = IF R = {} THEN "timers" ELSE "conns"
    /\ UNCHANGED <<db, heap, now, deadline>>

\* poll() returns on its timeout with nothing ready.
PollTimeout ==
    /\ phase = "poll"
    /\ deadline # -1
    /\ now >= deadline
    /\ phase' = "timers"
    /\ UNCHANGED <<db, heap, now, conn, idle, deadline, ready>>

\* poll() fails with EINTR (a signal): the iteration starts over, without
\* process_timers.
PollInterrupted ==
    /\ phase = "poll"
    /\ phase' = "prepare"
    /\ UNCHANGED <<db, heap, now, conn, idle, deadline, ready>>

\* The end of handling connection fd: conn_destroy on POLLERR or
\* want_close, and on to the next ready fd.
Finish(fd, c, st) ==
    LET close == "err" \in ready[fd] \/ c.wantClose
        idl   == Touch(idle, fd)
    IN  /\ conn' = [conn EXCEPT ![fd] = IF close THEN Nil ELSE c]
        /\ idle' = IF close THEN SE!Remove(idl, fd) ELSE idl
        /\ db' = st.db
        /\ heap' = st.heap
        /\ ready' = [x \in DOMAIN ready \ {fd} |-> ready[x]]
        /\ phase' = IF DOMAIN ready = {fd} THEN "timers" ELSE "conns"
        /\ UNCHANGED <<now, deadline>>

\* The next ready connection in fd order: its idle timer is touched, then
\* handle_read on POLLIN or handle_write on POLLOUT.
HandleConn ==
    /\ phase = "conns"
    /\ LET fd == FS!Min(DOMAIN ready)
           c0 == [conn[fd] EXCEPT !.lastActive = now]
       IN  \/ /\ "in" \in ready[fd]
              /\ \E r \in ReadResults : Finish(fd, HandleRead(c0, r), Served(St, r, now))
           \/ /\ "out" \in ready[fd]
              /\ \E rv \in WriteResults : Finish(fd, HandleWrite(c0, rv), St)
           \/ /\ "err" \in ready[fd]
              /\ Finish(fd, c0, St)

\* process_timers: the idle connections at the front of the idle list are
\* destroyed, then a batch of due keys is deleted.
ProcessTimers ==
    /\ phase = "timers"
    /\ LET gone == IdleExpired(conn, idle, now)
       IN  /\ conn' = [fd \in Fds |-> IF fd \in SE!ToSet(gone) THEN Nil ELSE conn[fd]]
           /\ idle' = SubSeq(idle, Len(gone) + 1, Len(idle))
    /\ \E D \in S!ExpireBatches(St, now) : S!Apply(S!ExpireKeys(St, D))
    /\ phase' = "prepare"
    /\ UNCHANGED <<deadline, ready>>

\* get_monotonic_msec advancing.
Tick ==
    /\ now < MaxTime
    /\ now' = now + 1
    /\ UNCHANGED <<db, heap, conn, idle, phase, deadline, ready>>

Next == PreparePoll \/ PollEvents \/ PollTimeout \/ PollInterrupted \/ HandleConn \/ ProcessTimers \/ Tick

\* The process always runs its own steps; poll() returning on its timeout
\* is one of them.  Clients, signals and the clock are not assumed to do
\* anything, but a signal does not interrupt every poll() for ever: a
\* timeout that keeps coming due is eventually taken (strong fairness, as
\* EINTR disables it in between).
Spec ==
    /\ Init /\ [][Next]_vars
    /\ WF_vars(PreparePoll) /\ SF_vars(PollTimeout)
    /\ WF_vars(HandleConn) /\ WF_vars(ProcessTimers)

-----------------------------------------------------------------------------
TypeOK ==
    /\ S!TypeOK
    /\ conn \in [Fds -> Conn \cup {Nil}]
    /\ idle \in Seq(Fds)
    /\ phase \in {"prepare", "poll", "conns", "timers"}
    /\ deadline \in Int
    /\ DOMAIN ready \subseteq Fds
    /\ \A fd \in DOMAIN ready : ready[fd] \subseteq {"in", "out", "err"}

\* The entries and the TTL heap agree (Store's property) when requests
\* arrive through connections and the timer pass runs at the end of every
\* iteration.
HeapTracksEntries == S!HeapTracksEntries

\* The asserts of the loop and of handle_write hold: a ready fd still has
\* its Conn, POLLIN comes for a connection that wants to read, POLLOUT for
\* one that wants to write and has bytes in outgoing.
HandlerAssertsHold ==
    \A fd \in DOMAIN ready :
        /\ conn[fd] # Nil
        /\ "in" \in ready[fd] => conn[fd].wantRead
        /\ "out" \in ready[fd] => conn[fd].wantWrite /\ conn[fd].out

\* Idle ordering (spec, Testable properties): the idle list holds every
\* live connection once and no destroyed one, in non-decreasing
\* last_active_ms order from the sentinel's next to its prev.
IdleListTracksConns ==
    /\ SE!IsInjective(idle)
    /\ SE!ToSet(idle) = Live
    /\ \A i, j \in 1..Len(idle) :
         i < j => conn[idle[i]].lastActive <= conn[idle[j]].lastActive

\* A key whose TTL has passed is eventually deleted, with no client doing
\* anything: next_timer_ms wakes poll() for it and the k_max_works break
\* leaves the rest to the next iterations.
ExpiredEventuallyRemoved == S!ExpiredEventuallyRemoved

\* A connection idle for longer than k_idle_timeout_ms is eventually
\* destroyed (or becomes active again), with no client doing anything.
IdleDue(fd) == conn[fd] # Nil /\ conn[fd].lastActive + IdleTimeout < now
IdleConnEventuallyClosed == \A fd \in Fds : IdleDue(fd) ~> ~IdleDue(fd)
====
