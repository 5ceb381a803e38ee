-------------------------------- MODULE Step ---------------------------------
(***************************************************************************)
(* sqlite3_step and sqlite3_reset of statements PostgreSQL answers         *)
(* (db_interpose_step*, pg_statement/stmt_lifecycle.rs): resolving a       *)
(* connection, preparing and sending the statement, handing its rows one   *)
(* step at a time from a stream or from a fetched result, classifying what *)
(* failed and the retry ladder (step/retry.rs).                            *)
(*                                                                         *)
(* The pool is what it promises (Pool): a thread is given a connection it  *)
(* owns, or one nobody owns, and never one that is streaming, or none when *)
(* there is no such connection.  PostgreSQL                                *)
(* and libpq are external: a session, the result being read from it, and   *)
(* the names prepared on it, each with the schema it was planned for.      *)
(*                                                                         *)
(* Calls on one statement do not overlap, as SQLite requires; calls on     *)
(* different statements, and on one statement from one thread after        *)
(* another, do as they like.                                               *)
(***************************************************************************)
EXTENDS Integers

CONSTANTS
    Threads, Reads, Writes, Conns,
    None,           \* no thread, no statement, no connection
    Rows,           \* rows a read has, unless it finds none
    Sparse,         \* reads that may find none
    Returning,      \* writes Plex reads the RETURNING row of
    MaxRetries,     \* entries of the retry-delay list
    MaxSchema,      \* bound: migrations there are, and one
    Home,           \* statement |-> the thread that steps it, unless "cross"
    Env             \* what else may happen:
                    \*   "cross"   any thread steps any statement
                    \*   "refuse"  PostgreSQL refuses, for once or for good
                    \*   "error"   an error takes the place of a row
                    \*   "break"   the server drops connections
                    \*   "down"    a connection that broke cannot be replaced,
                    \*             while another is left (a bound)
                    \*   "migrate" a table a read selects from gains a column

Stmts == Reads \cup Writes

ASSUME StepAssumption ==
    /\ Reads \cap Writes = {} /\ Home \in [Stmts -> Threads]
    /\ None \notin Threads \cup Stmts \cup Conns
    /\ Rows \in Nat \ {0} /\ MaxRetries \in Nat
    /\ Sparse \subseteq Reads /\ Returning \subseteq Writes
    /\ MaxSchema \in Nat \ {0}
    /\ Env \subseteq {"cross", "refuse", "error", "break", "down", "migrate"}

VARIABLES
    phase,      \* statement |-> "new", "stream", "eager" or "done"
    row,        \* statement |-> rows of its fetched result handed
    sconn,      \* statement |-> streaming_conn (and result_conn), or None
    runner,     \* statement |-> executing_thread of its stream, or None
    requery,    \* statements with needs_requery set
    owner,      \* connection |-> the thread whose slot it is in, or None
    sess,       \* connection |-> PQstatus "ok" or "bad"; "cut": the server is
                \* gone and no I/O has noticed, PQstatus is OK; "none": no PGconn
    active,     \* connections with streaming_active set
    fstmt,      \* connection |-> statement whose result is being read, or None
    frow,       \* connection |-> rows of that result read so far
    cache,      \* connection |-> statements in its local statement cache
    plan,       \* connection |-> statement |-> schema it is planned for, or 0
    schema,     \* the schema now
    pc,         \* thread |-> where it is in a step, "idle" outside
    cur,        \* thread |-> statement it steps
    on,         \* thread |-> exec_conn
    flag,       \* threads with STEP_PG_CONN_ERROR set
    tries,      \* thread |-> STEP_RETRY_COUNT
    hand,       \* statement |-> the last row handed since reset: whose, which;
                \* row 0 of a statement: it found none
    ans,        \* statement |-> the last answer since reset, or "none";
                \* "SHADOW" is a DONE that PostgreSQL did not give
    failed,     \* statements a step of which answered ERROR since reset
    ran,        \* write |-> times PostgreSQL has run it since reset
    unacked     \* write |-> of those, times the answer was lost

stmtVars == <<phase, row, sconn, runner, requery>>
connVars == <<owner, sess, active, fstmt, frow, cache, plan>>
callVars == <<pc, cur, on, flag, tries>>
seenVars == <<hand, ans, failed, ran, unacked>>
vars == <<stmtVars, connVars, schema, callVars, seenVars>>

StmtsOK ==
    /\ phase \in [Stmts -> {"new", "stream", "eager", "done"}]
    /\ row \in [Stmts -> 0..Rows]
    /\ sconn \in [Stmts -> Conns \cup {None}]
    /\ runner \in [Stmts -> Threads \cup {None}]
    /\ requery \subseteq Stmts

ConnsOK ==
    /\ owner \in [Conns -> Threads \cup {None}]
    /\ sess \in [Conns -> {"ok", "cut", "bad", "none"}]
    /\ active \subseteq Conns
    /\ fstmt \in [Conns -> Stmts \cup {None}]
    /\ frow \in [Conns -> 0..Rows]
    /\ cache \in [Conns -> SUBSET Stmts]
    /\ plan \in [Conns -> [Stmts -> 0..MaxSchema]]
    /\ schema \in 1..MaxSchema

CallsOK ==
    /\ pc \in [Threads -> {"idle", "resolve", "shadow", "run", "send", "judge"}]
    /\ cur \in [Threads -> Stmts \cup {None}]
    /\ on \in [Threads -> Conns \cup {None}]
    /\ flag \subseteq Threads
    /\ tries \in [Threads -> 0..MaxRetries]

SeenOK ==
    /\ hand \in [Stmts -> [of : Stmts \cup {None}, row : 0..Rows]]
    /\ ans \in [Stmts -> {"none", "ROW", "DONE", "ERROR", "SHADOW"}]
    /\ failed \subseteq Stmts
    /\ ran \in [Writes -> Nat]
    /\ unacked \in [Writes -> Nat]

TypeOK == StmtsOK /\ ConnsOK /\ CallsOK /\ SeenOK

NoRow == [of |-> None, row |-> 0]

Init ==
    /\ phase = [s \in Stmts |-> "new"] /\ row = [s \in Stmts |-> 0]
    /\ sconn = [s \in Stmts |-> None] /\ runner = [s \in Stmts |-> None]
    /\ requery = {}
    /\ owner = [c \in Conns |-> None] /\ sess = [c \in Conns |-> "ok"]
    /\ active = {} /\ fstmt = [c \in Conns |-> None] /\ frow = [c \in Conns |-> 0]
    /\ cache = [c \in Conns |-> {}] /\ plan = [c \in Conns |-> [s \in Stmts |-> 0]]
    /\ schema = 1
    /\ pc = [t \in Threads |-> "idle"] /\ cur = [t \in Threads |-> None]
    /\ on = [t \in Threads |-> None] /\ flag = {} /\ tries = [t \in Threads |-> 0]
    /\ hand = [s \in Stmts |-> NoRow] /\ ans = [s \in Stmts |-> "none"]
    /\ failed = {} /\ ran = [s \in Writes |-> 0] /\ unacked = [s \in Writes |-> 0]

-----------------------------------------------------------------------------
(* Pieces of the handlers.                                                 *)

Goto(t, p) == pc' = [pc EXCEPT ![t] = p]

\* The step answers rc on s: back to Plex, the retry count at zero.
Answer(t, s, rc) ==
    /\ Goto(t, "idle") /\ ans' = [ans EXCEPT ![s] = rc]
    /\ tries' = [tries EXCEPT ![t] = 0]
    /\ cur' = [cur EXCEPT ![t] = None] /\ on' = [on EXCEPT ![t] = None]

\* The step is an error, noted as the connection's or not.
Fails(t, noted) ==
    /\ Goto(t, "judge") /\ flag' = IF noted THEN flag \cup {t} ELSE flag
    /\ UNCHANGED <<cur, on, tries>>

\* A session with nothing prepared and nothing in flight.
NewSession(c) ==
    /\ sess' = [sess EXCEPT ![c] = "ok"]
    /\ fstmt' = [fstmt EXCEPT ![c] = None] /\ frow' = [frow EXCEPT ![c] = 0]
    /\ plan' = [plan EXCEPT ![c] = [s \in Stmts |-> 0]]

\* A connection that could not be replaced: its PGconn finished, its slot's
\* next user makes another struct.
Gone(c) ==
    /\ "down" \in Env
    /\ \E d \in Conns \ {c} : sess[d] # "none"
    /\ sess' = [sess EXCEPT ![c] = "none"] /\ owner' = [owner EXCEPT ![c] = None]
    /\ fstmt' = [fstmt EXCEPT ![c] = None] /\ frow' = [frow EXCEPT ![c] = 0]
    /\ plan' = [plan EXCEPT ![c] = [s \in Stmts |-> 0]]

\* reconnect_conn and reset_conn, after the statement cache is cleared.
Replace(c) ==
    /\ active' = active \ {c} /\ cache' = [cache EXCEPT ![c] = {}]
    /\ \/ NewSession(c) /\ UNCHANGED owner
       \/ Gone(c)

\* I/O on a connection that is cut makes PQstatus BAD, unless what is read
\* had arrived before.
Noticed(c) ==
    sess' \in {sess, [sess EXCEPT ![c] = IF @ = "cut" THEN "bad" ELSE @]}

\* rust_stmt_clear_result: the stream is cancelled and drained, or let go of
\* when its connection is in no READY slot.
ClearResult(s) ==
    LET c == sconn[s] IN
    /\ phase' = [phase EXCEPT ![s] = "new"] /\ row' = [row EXCEPT ![s] = 0]
    /\ IF phase[s] = "stream"
       THEN /\ active' = active \ {c}
            /\ sconn' = [sconn EXCEPT ![s] = None]
            /\ runner' = [runner EXCEPT ![s] = None]
            /\ IF owner[c] = None
               THEN UNCHANGED <<sess, fstmt, frow>>
               ELSE /\ fstmt' = [fstmt EXCEPT ![c] = None]
                    /\ frow' = [frow EXCEPT ![c] = 0] /\ Noticed(c)
       ELSE UNCHANGED <<active, sconn, runner, sess, fstmt, frow>>
    /\ UNCHANGED <<owner, cache, plan>>

-----------------------------------------------------------------------------
(* Entering a step, and finding it a connection.                           *)

\* sqlite3_step is called.
Enter(t, s) ==
    /\ pc[t] = "idle" /\ (t = Home[s] \/ "cross" \in Env)
    /\ \A u \in Threads : cur[u] # s
    /\ Goto(t, "resolve") /\ cur' = [cur EXCEPT ![t] = s]
    /\ UNCHANGED <<stmtVars, connVars, schema, on, flag, tries, seenVars>>

\* PQstatus is CONNECTION_OK.
StatusOK(c) == sess[c] \in {"ok", "cut"}

\* (Mutant: the pool is asked on every step.)
StaysNot(t) == pc[t] = "none"

\* streaming_conn_for_this_thread finds a connection.
Stays(t) ==
    LET s == cur[t] IN
    /\ phase[s] = "stream" /\ sconn[s] # None
    /\ sess[sconn[s]] # "none" /\ runner[s] = t

\* The pool passes over a slot of the thread's own that is streaming.
Usable(t, c) == owner[c] = t /\ ~(StatusOK(c) /\ c \in active)

Stay(t) ==
    /\ pc[t] = "resolve" /\ Stays(t)
    /\ Goto(t, "run") /\ on' = [on EXCEPT ![t] = sconn[cur[t]]]
    /\ UNCHANGED <<stmtVars, connVars, schema, cur, flag, tries, seenVars>>

\* Phase 1: a slot of the thread's own, its connection replaced if it broke;
\* or the connection the handle's transaction is pinned to, whatever its
\* status (which of the two is Txn's matter, and either may happen here).
Own(t) ==
    /\ pc[t] = "resolve" /\ ~Stays(t)
    /\ \E c \in Conns :
        /\ Usable(t, c) /\ sess[c] # "none"
        /\ Goto(t, "run") /\ on' = [on EXCEPT ![t] = c]
    /\ UNCHANGED <<stmtVars, connVars, schema, cur, flag, tries, seenVars>>

Mend(t) ==
    /\ pc[t] = "resolve" /\ ~Stays(t)
    /\ \E c \in Conns :
        /\ Usable(t, c) /\ ~StatusOK(c) /\ Replace(c)
        /\ on' = [on EXCEPT ![t] = c]
        /\ Goto(t, IF sess'[c] = "ok" THEN "run" ELSE "shadow")
    /\ UNCHANGED <<stmtVars, schema, cur, flag, tries, seenVars>>

\* Phases 2 and 3: a slot nobody has, its connection reset or made.
Free(c) == owner[c] = None /\ sess[c] # "none" /\ c \notin active

Reuse(t) ==
    /\ pc[t] = "resolve" /\ ~Stays(t)
    /\ \A c \in Conns : ~Usable(t, c)
    /\ \E c \in Conns :
        /\ Free(c)
        /\ owner' = [owner EXCEPT ![c] = t] /\ NewSession(c)
        /\ cache' = [cache EXCEPT ![c] = {}]
        /\ Goto(t, "run") /\ on' = [on EXCEPT ![t] = c]
    /\ UNCHANGED <<stmtVars, active, schema, cur, flag, tries, seenVars>>

\* Phase 6 gives up: the pool is full.
Full(t) ==
    /\ pc[t] = "resolve" /\ ~Stays(t)
    /\ \A c \in Conns : ~Usable(t, c) /\ ~Free(c)
    /\ Goto(t, "shadow")
    /\ UNCHANGED <<stmtVars, connVars, schema, cur, on, flag, tries, seenVars>>

\* No connection: the step falls through to the shadow database, where a
\* read has no rows, and a write is DONE before even that.
Shadow(t) ==
    /\ pc[t] = "shadow"
    /\ Answer(t, cur[t], "SHADOW")
    /\ UNCHANGED <<stmtVars, connVars, schema, flag,
                   hand, failed, ran, unacked>>
-----------------------------------------------------------------------------
(* The step on its connection.                                             *)

\* read_done or write_executed is set.
Finished(t) ==
    LET s == cur[t] IN
    /\ pc[t] = "run" /\ phase[s] = "done"
    /\ Answer(t, s, "DONE")
    /\ UNCHANGED <<stmtVars, connVars, schema, flag,
                   hand, failed, ran, unacked>>

\* prepare_reexecution_state: the stream is another connection's, so the
\* query is to be run again, and fetched whole.  Only a step by another
\* thread is meant to start the rows over.
Cross(t) ==
    LET s == cur[t] IN
    /\ pc[t] = "run" /\ phase[s] = "stream" /\ sconn[s] # on[t]
    /\ requery' = requery \cup {s} /\ ClearResult(s)
    /\ hand' = IF runner[s] = t THEN hand ELSE [hand EXCEPT ![s] = NoRow]
    /\ UNCHANGED <<schema, callVars, ans, failed, ran, unacked>>

\* (Mutant: streaming_active is left set.)
StreamEndsMarked(s, c) ==
    /\ phase' = [phase EXCEPT ![s] = "done"] /\ sconn' = [sconn EXCEPT ![s] = None]
    /\ runner' = [runner EXCEPT ![s] = None] /\ active' = active
    /\ fstmt' = [fstmt EXCEPT ![c] = None] /\ frow' = [frow EXCEPT ![c] = 0]
    /\ UNCHANGED <<row, requery, owner, cache, plan>>

\* A stream that has ended, as the statement leaves it.
StreamEnds(s, c) ==
    /\ phase' = [phase EXCEPT ![s] = "done"] /\ sconn' = [sconn EXCEPT ![s] = None]
    /\ runner' = [runner EXCEPT ![s] = None] /\ active' = active \ {c}
    /\ fstmt' = [fstmt EXCEPT ![c] = None] /\ frow' = [frow EXCEPT ![c] = 0]
    /\ UNCHANGED <<row, requery, owner, cache, plan>>

Streaming(t) == pc[t] = "run" /\ phase[cur[t]] = "stream" /\ sconn[cur[t]] = on[t]

\* streaming_next: the next row PQgetResult has, whosever it is.
StreamRow(t) ==
    LET s == cur[t]  c == on[t] IN
    /\ Streaming(t) /\ fstmt[c] # None /\ frow[c] < Rows
    /\ frow' = [frow EXCEPT ![c] = @ + 1]
    /\ hand' = [hand EXCEPT ![s] = [of |-> fstmt[c], row |-> frow[c] + 1]]
    /\ Answer(t, s, "ROW")
    /\ UNCHANGED <<stmtVars, owner, sess, active, fstmt, cache, plan, schema,
                   flag, failed, ran, unacked>>

\* The last result, or a connection whose PGconn is gone.
StreamDone(t) ==
    LET s == cur[t]  c == on[t] IN
    /\ Streaming(t)
    /\ (fstmt[c] # None /\ frow[c] = Rows) \/ sess[c] = "none"
    /\ StreamEnds(s, c) /\ Answer(t, s, "DONE")
    /\ UNCHANGED <<sess, schema, flag, hand, failed, ran, unacked>>

\* No result, or an error in its place: nothing is noted, the query is not
\* to be run again.
StreamLost(t) ==
    LET s == cur[t]  c == on[t] IN
    /\ Streaming(t) /\ (fstmt[c] = None \/ sess[c] = "cut" \/ "error" \in Env)
    /\ sess' = [sess EXCEPT ![c] = IF @ = "cut" THEN "bad" ELSE @]
    /\ StreamEnds(s, c) /\ Fails(t, FALSE)
    /\ UNCHANGED <<schema, seenVars>>

\* eager_next.
EagerRow(t) ==
    LET s == cur[t] IN
    /\ pc[t] = "run" /\ phase[s] = "eager" /\ row[s] < Rows
    /\ row' = [row EXCEPT ![s] = @ + 1]
    /\ hand' = [hand EXCEPT ![s] = [of |-> s, row |-> row[s] + 1]]
    /\ Answer(t, s, "ROW")
    /\ UNCHANGED <<phase, sconn, runner, requery, connVars, schema, flag,
                   failed, ran, unacked>>

\* (Mutant: the last row is not handed.)
EagerDoneEarly(t) ==
    LET s == cur[t] IN
    /\ pc[t] = "run" /\ phase[s] = "eager" /\ row[s] + 1 >= Rows
    /\ phase' = [phase EXCEPT ![s] = "done"]
    /\ Answer(t, s, "DONE")
    /\ UNCHANGED <<row, sconn, runner, requery, connVars, schema,
                   flag, hand, failed, ran, unacked>>

EagerDone(t) ==
    LET s == cur[t] IN
    /\ pc[t] = "run" /\ phase[s] = "eager" /\ row[s] = Rows
    /\ phase' = [phase EXCEPT ![s] = "done"]
    /\ Answer(t, s, "DONE")
    /\ UNCHANGED <<row, sconn, runner, requery, connVars, schema,
                   flag, hand, failed, ran, unacked>>

\* What the statement is left as by a failure: a write counts as executed.
Spoils(s) ==
    phase' = IF s \in Writes THEN [phase EXCEPT ![s] = "done"] ELSE phase

\* lock_exec_connection, ensure_connection_ready and the drain; for a write
\* rust_step_write_prepare_connection.  PQreset keeps the local cache, a
\* connection made in its place starts with none.
Ready(t) ==
    LET s == cur[t]  c == on[t] IN
    /\ pc[t] = "run" /\ phase[s] = "new" /\ StatusOK(c)
    /\ fstmt' = [fstmt EXCEPT ![c] = None] /\ frow' = [frow EXCEPT ![c] = 0]
    /\ Goto(t, "send")
    /\ UNCHANGED <<stmtVars, owner, sess, active, cache, plan,
                   schema, cur, on, flag, tries, seenVars>>

Repair(t) ==
    LET s == cur[t]  c == on[t] IN
    /\ pc[t] = "run" /\ phase[s] = "new" /\ sess[c] = "bad"
    /\ \/ /\ NewSession(c) /\ Goto(t, "send")
          /\ cache' \in {cache, [cache EXCEPT ![c] = {}]}
          /\ UNCHANGED <<phase, owner, flag, cur, on, tries>>
       \/ /\ Gone(c) /\ cache' = [cache EXCEPT ![c] = {}] /\ Spoils(s) /\ Fails(t, TRUE)
    /\ UNCHANGED <<row, sconn, runner, requery, active, schema, seenVars>>

-----------------------------------------------------------------------------
(* Sending the statement by the name prepared for it, and the answer.      *)

\* The plan the name stands for: a name in the cache is not prepared again,
\* and preparing one the server has leaves what it stands for.
Planned(s, c) ==
    IF s \in cache[c] \/ plan[c][s] # 0 THEN plan[c][s] ELSE schema

Prepare(s, c) ==
    /\ plan' = [plan EXCEPT ![c] = [@ EXCEPT ![s] = Planned(s, c)]]
    /\ cache' = [cache EXCEPT ![c] = @ \cup {s}]

\* The server has no such name, or its plan returns other columns now.
Stale(s, c) ==
    Planned(s, c) = 0 \/ (s \in Reads /\ Planned(s, c) # schema)

Sending(t) == pc[t] = "send" /\ sess[on[t]] = "ok"

\* PgErrorClass::StalePlan: the local cache is cleared and the error noted.
SendStale(t) ==
    LET s == cur[t]  c == on[t] IN
    /\ Sending(t) /\ Stale(s, c)
    /\ plan' = [plan EXCEPT ![c] = [@ EXCEPT ![s] = Planned(s, c)]]
    /\ cache' = [cache EXCEPT ![c] = {}]
    /\ Spoils(s) /\ Fails(t, TRUE)
    /\ UNCHANGED <<row, sconn, runner, requery, owner, sess, active, fstmt, frow,
                   schema, seenVars>>

\* PgErrorClass::Retry and Fail on a session that stands.
SendRefused(t) ==
    LET s == cur[t]  c == on[t] IN
    /\ Sending(t) /\ ~Stale(s, c) /\ "refuse" \in Env
    /\ Prepare(s, c)
    /\ \/ Spoils(s) /\ Fails(t, TRUE)
       \/ phase' = [phase EXCEPT ![s] = "done"] /\ Fails(t, FALSE)
    /\ UNCHANGED <<row, sconn, runner, requery, owner, sess, active, fstmt, frow,
                   schema, seenVars>>

\* PgErrorClass::Retry on one that is gone: rust_pool_check_health replaces
\* it.  A write may have run before the answer was lost.
SendLost(t) ==
    LET s == cur[t]  c == on[t] IN
    /\ pc[t] = "send" /\ sess[c] \in {"cut", "bad"}
    /\ Replace(c) /\ Spoils(s) /\ Fails(t, TRUE)
    /\ \/ UNCHANGED <<ran, unacked>>
       \/ /\ s \in Writes
          /\ ran' = [ran EXCEPT ![s] = @ + 1]
          /\ unacked' = [unacked EXCEPT ![s] = @ + 1]
    /\ UNCHANGED <<row, sconn, runner, requery, schema, hand, ans, failed>>

\* Whether streaming_fetch is chosen: not for a statement that crossed
\* threads, nor while the thread streams on another connection; eager_fetch
\* always may be, for LIMIT 1 and inside a transaction.
MayStream(t) ==
    /\ cur[t] \notin requery
    /\ \A d \in Conns \ {on[t]} : ~(owner[d] = t /\ d \in active)

SendStream(t) ==
    LET s == cur[t]  c == on[t] IN
    /\ Sending(t) /\ s \in Reads /\ ~Stale(s, c) /\ MayStream(t)
    /\ Prepare(s, c)
    /\ phase' = [phase EXCEPT ![s] = "stream"]
    /\ sconn' = [sconn EXCEPT ![s] = c] /\ runner' = [runner EXCEPT ![s] = t]
    /\ active' = active \cup {c}
    /\ fstmt' = [fstmt EXCEPT ![c] = s] /\ frow' = [frow EXCEPT ![c] = 1]
    /\ hand' = [hand EXCEPT ![s] = [of |-> s, row |-> 1]]
    /\ Answer(t, s, "ROW")
    /\ UNCHANGED <<row, requery, owner, sess, schema, flag,
                   failed, ran, unacked>>

\* (Mutant: the first row is handed and not counted.)
SendEagerUncounted(t) ==
    LET s == cur[t]  c == on[t] IN
    /\ Sending(t) /\ s \in Reads /\ ~Stale(s, c)
    /\ Prepare(s, c)
    /\ phase' = [phase EXCEPT ![s] = "eager"] /\ row' = [row EXCEPT ![s] = 0]
    /\ hand' = [hand EXCEPT ![s] = [of |-> s, row |-> 1]]
    /\ Answer(t, s, "ROW")
    /\ UNCHANGED <<sconn, runner, requery, owner, sess, active, fstmt, frow, schema,
                   flag, failed, ran, unacked>>

SendEager(t) ==
    LET s == cur[t]  c == on[t] IN
    /\ Sending(t) /\ s \in Reads /\ ~Stale(s, c)
    /\ Prepare(s, c)
    /\ phase' = [phase EXCEPT ![s] = "eager"] /\ row' = [row EXCEPT ![s] = 1]
    /\ hand' = [hand EXCEPT ![s] = [of |-> s, row |-> 1]]
    /\ Answer(t, s, "ROW")
    /\ UNCHANGED <<sconn, runner, requery, owner, sess, active, fstmt, frow, schema,
                   flag, failed, ran, unacked>>

\* No rows, by either: the result is read to its end and read_done set.
SendEmpty(t) ==
    LET s == cur[t]  c == on[t] IN
    /\ Sending(t) /\ s \in Sparse /\ ~Stale(s, c)
    /\ Prepare(s, c)
    /\ phase' = [phase EXCEPT ![s] = "done"]
    /\ hand' = [hand EXCEPT ![s] = [of |-> s, row |-> 0]]
    /\ Answer(t, s, "DONE")
    /\ UNCHANGED <<row, sconn, runner, requery, owner, sess, active, fstmt, frow,
                   schema, flag, failed, ran, unacked>>

\* A RETURNING write of Plex's own answers its row first.
WriteAnswer(s) == IF s \in Returning THEN "ROW" ELSE "DONE"

\* (Mutant: write_executed is not set.)
SendWriteUnmarked(t) ==
    LET s == cur[t]  c == on[t] IN
    /\ Sending(t) /\ s \in Writes /\ ~Stale(s, c)
    /\ Prepare(s, c)
    /\ ran' = [ran EXCEPT ![s] = @ + 1]
    /\ Answer(t, s, WriteAnswer(s))
    /\ UNCHANGED <<stmtVars, owner, sess, active, fstmt, frow,
                   schema, flag, hand, failed, unacked>>

\* rust_step_write_execute_and_finalize.
SendWrite(t) ==
    LET s == cur[t]  c == on[t] IN
    /\ Sending(t) /\ s \in Writes /\ ~Stale(s, c)
    /\ Prepare(s, c)
    /\ phase' = [phase EXCEPT ![s] = "done"]
    /\ ran' = [ran EXCEPT ![s] = @ + 1]
    /\ Answer(t, s, WriteAnswer(s))
    /\ UNCHANGED <<row, sconn, runner, requery, owner, sess, active, fstmt, frow,
                   schema, flag, hand, failed, unacked>>

-----------------------------------------------------------------------------
(* After an error, and outside steps.                                      *)

\* (Mutants: the attempt is not counted; there is one too many.)
RetryUncounted(t) ==
    /\ pc[t] = "judge" /\ t \in flag /\ tries[t] < MaxRetries
    /\ flag' = flag \ {t} /\ UNCHANGED tries
    /\ ClearResult(cur[t]) /\ Goto(t, "resolve")
    /\ UNCHANGED <<requery, schema, cur, on, seenVars>>

RetryOnceMore(t) ==
    /\ pc[t] = "judge" /\ t \in flag /\ tries[t] <= MaxRetries
    /\ flag' = flag \ {t} /\ tries' = [tries EXCEPT ![t] = @ + 1]
    /\ ClearResult(cur[t]) /\ Goto(t, "resolve")
    /\ UNCHANGED <<requery, schema, cur, on, seenVars>>

\* maybe_retry_step runs the step again.
Retry(t) ==
    LET s == cur[t] IN
    /\ pc[t] = "judge" /\ t \in flag /\ tries[t] < MaxRetries
    /\ flag' = flag \ {t} /\ tries' = [tries EXCEPT ![t] = @ + 1]
    /\ ClearResult(s) /\ Goto(t, "resolve")
    /\ UNCHANGED <<requery, schema, cur, on, seenVars>>

\* It does not, and leaves STEP_PG_CONN_ERROR as it is.
GiveUp(t) ==
    LET s == cur[t] IN
    /\ pc[t] = "judge" /\ ~(t \in flag /\ tries[t] < MaxRetries)
    /\ Answer(t, s, "ERROR") /\ failed' = failed \cup {s}
    /\ UNCHANGED <<stmtVars, connVars, schema, flag, hand, ran, unacked>>

\* sqlite3_reset, by any thread while no step of the statement is running.
Reset(s) ==
    /\ \A u \in Threads : cur[u] # s
    /\ ClearResult(s)
    /\ hand' = [hand EXCEPT ![s] = NoRow] /\ ans' = [ans EXCEPT ![s] = "none"]
    /\ failed' = failed \ {s}
    /\ ran' = [w \in Writes |-> IF w = s THEN 0 ELSE ran[w]]
    /\ unacked' = [w \in Writes |-> IF w = s THEN 0 ELSE unacked[w]]
    /\ UNCHANGED <<requery, schema, callVars>>

\* The server drops a connection; libpq notices when it next reads or writes.
Break(c) ==
    /\ "break" \in Env /\ owner[c] # None /\ sess[c] = "ok"
    /\ sess' = [sess EXCEPT ![c] = "cut"]
    /\ UNCHANGED <<stmtVars, owner, active, fstmt, frow, cache, plan, schema,
                   callVars, seenVars>>

Migrate ==
    /\ "migrate" \in Env /\ schema < MaxSchema
    /\ schema' = schema + 1
    /\ UNCHANGED <<stmtVars, connVars, callVars, seenVars>>

Work(t) ==
    \/ Stay(t) \/ Own(t) \/ Mend(t) \/ Reuse(t) \/ Full(t) \/ Shadow(t)
    \/ Finished(t) \/ Cross(t)
    \/ StreamRow(t) \/ StreamDone(t) \/ StreamLost(t) \/ EagerRow(t) \/ EagerDone(t)
    \/ Ready(t) \/ Repair(t)
    \/ SendStale(t) \/ SendRefused(t) \/ SendLost(t)
    \/ SendStream(t) \/ SendEager(t) \/ SendEmpty(t)
    \/ SendWrite(t)
    \/ Retry(t) \/ GiveUp(t)

Next ==
    \/ \E t \in Threads : Work(t) \/ \E s \in Stmts : Enter(t, s)
    \/ \E s \in Stmts : Reset(s)
    \/ \E c \in Conns : Break(c)
    \/ Migrate

Spec == Init /\ [][Next]_vars

\* A thread inside a step goes on with it.
FairSpec == Spec /\ \A t \in Threads : WF_vars(Work(t))

-----------------------------------------------------------------------------
(* What a step promises.                                                   *)

\* The rows of a read are handed one after the other, each once, and are its
\* own, from its first step to its reset: several statements of a thread
\* interleave their steps, results are cleared and queries run again under
\* them.  Only a step by another thread in the middle of a stream starts
\* over (streaming_next_impl, eager_next_impl, prepare_reexecution_state;
\* next_result.rs: not to be run again "without handing Plex the
\* rows it already has a second time").
RowsInOrder ==
    [][\A t \in Threads : LET s == cur[t] IN
            s \in Reads /\ pc'[t] = "idle" /\ ans'[s] = "ROW" =>
                hand'[s] = [of |-> s, row |-> hand[s].row + 1]]_vars

\* A connection is marked as streaming exactly while a statement streams on
\* it, what it has in flight is that statement's result, and no two
\* statements stream on one: neither a flag left behind, which keeps every
\* thread off the connection, nor one missing (streaming_active).
StreamsMatch ==
    /\ active = {sconn[s] : s \in {r \in Stmts : phase[r] = "stream"}}
    /\ \A s \in Stmts : phase[s] = "stream" => fstmt[sconn[s]] = s

\* DONE is PostgreSQL's word, unless a step of the statement has failed:
\* every row a read has found has been handed, and a write has been run
\* (my_sqlite3_step_impl).
DoneIsTrue ==
    \A s \in Stmts : ans[s] = "DONE" /\ s \notin failed =>
        IF s \in Reads THEN hand[s].of = s /\ hand[s].row \in {0, Rows} ELSE ran[s] > 0

\* PostgreSQL runs a write a second time, by a retry or by another step,
\* only when its answer to the first was lost (maybe_retry_step,
\* write_executed).
RunsOnce == \A w \in Writes : ran[w] <= 1 + unacked[w]

\* Every step ends: the retry ladder is climbed at most once, and each rung
\* finds a connection (maybe_retry_step).
Answered == \A t \in Threads : pc[t] # "idle" ~> pc[t] = "idle"

\* A stale plan is mended by the retry, whose re-prepare "is the whole fix"
\* (error_class.rs): a migration alone makes no step fail.
PlanMended == failed = {}

\* A statement of a library handle is answered "by PostgreSQL and never by
\* the shadow SQLite" (registry_api.rs), where a write would be lost.
NeverShadow == \A s \in Stmts : ans[s] # "SHADOW"
=============================================================================
