--------------------------------- MODULE Txn ---------------------------------
(***************************************************************************)
(* One SQLite handle's transactions, forwarded to one PostgreSQL session:  *)
(* the registry of pg_client/txn.rs (the frames kept for the connection,   *)
(* and the handle's pin to it), the steps and execs that run on it, and    *)
(* the server's side of the session.                                       *)
(*                                                                         *)
(* Env switches on what the environment may do:                            *)
(*   "refuse"  the server refuses a statement, any of a plan's included (a *)
(*             constraint, a deferred constraint at COMMIT, a statement    *)
(*             timeout, a name it does not take for an identifier)         *)
(*   "lose"    the connection is lost between two statements               *)
(*   "away"    the handle is closed on a thread that does not own the slot *)
(*   "mix"     Plex opens a named savepoint inside a nested BEGIN          *)
(*                                                                         *)
(* The handle is the one the slot's owning thread uses now.  Once it is    *)
(* closed the thread goes on with another, on the same connection: phase 1 *)
(* of the pool gives a thread its own slot, whatever handle it asks for.   *)
(***************************************************************************)
EXTENDS TxnPlan

CONSTANTS
    Fold,       \* spelling |-> the name SQLite and PostgreSQL compare
    Writes,     \* what a write statement adds
    Env,        \* what the environment may do
    MaxDepth    \* bound: frames a transaction may have open

ASSUME EnvAssumption == Env \subseteq {"refuse", "lose", "away", "mix"}

\* Plex spells a savepoint name one way.  (The shim compares spellings, where
\* SQLite and PostgreSQL fold the case.)
ASSUME FoldAssumption ==
    /\ Fold \in [Names -> Names]
    /\ \A m, n \in Names : Fold[m] = Fold[n] => m = n

VARIABLES
    frames,     \* by_conn: the frame stack, <<>> when it has no entry
    pin,        \* pinned_conn answers the connection, for the handle
    server,     \* the session: transaction status and open savepoints
    data,       \* what the session sees
    disk,       \* what the database has committed
    lost,       \* the connection broke and the shim has not noticed yet
    answer      \* the command last answered, and whether with success

vars == <<frames, pin, server, data, disk, lost, answer>>

------------------------------------------------------------------------------
(* The server: one statement on a session, as libpq reports it.            *)

PgName(n) == IF n \in Names THEN Fold[n] ELSE n

Session(st, sv, dt, dk) ==
    [status |-> st, saves |-> sv, data |-> dt, disk |-> dk]

Result(ok, s) == [ok |-> ok, s |-> s]

Found(s, n) == {i \in 1..Len(s.saves) : s.saves[i].name = PgName(n)}

Latest(s, n) == CHOOSE i \in Found(s, n) : \A j \in Found(s, n) : j <= i

\* An error inside a transaction aborts it until it is rolled back.
Fails(s) ==
    Result(FALSE, [s EXCEPT !.status = IF @ = "IDLE" THEN "IDLE" ELSE "INERROR"])

PgExec(s, stmt) ==
    CASE stmt.op = "BEGIN" ->
            IF s.status = "IDLE"
            THEN Result(TRUE, [s EXCEPT !.status = "INTRANS"])
            ELSE IF s.status = "INTRANS" THEN Result(TRUE, s) ELSE Fails(s)
      [] stmt.op = "COMMIT" ->
            Result(TRUE, Session("IDLE", <<>>,
                IF s.status = "INERROR" THEN s.disk ELSE s.data,
                IF s.status = "INERROR" THEN s.disk ELSE s.data))
      [] stmt.op = "ROLLBACK" ->
            Result(TRUE, Session("IDLE", <<>>, s.disk, s.disk))
      [] stmt.op = "SAVEPOINT" ->
            IF s.status = "INTRANS"
            THEN Result(TRUE, [s EXCEPT !.saves = Append(@,
                    [name |-> PgName(stmt.name), data |-> s.data])])
            ELSE Fails(s)
      [] stmt.op = "RELEASE" ->
            IF s.status = "INTRANS" /\ Found(s, stmt.name) # {}
            THEN Result(TRUE, [s EXCEPT
                    !.saves = Truncate(@, Latest(s, stmt.name) - 1)])
            ELSE Fails(s)
      [] stmt.op = "ROLLBACK TO" ->
            IF s.status # "IDLE" /\ Found(s, stmt.name) # {}
            THEN Result(TRUE, [s EXCEPT
                    !.status = "INTRANS",
                    !.saves = Truncate(@, Latest(s, stmt.name)),
                    !.data = s.saves[Latest(s, stmt.name)].data])
            ELSE Fails(s)

\* The one or two statements of a plan, up to the first that fails.
PgRun(s, sql) ==
    IF sql = <<>> THEN Result(TRUE, s)
    ELSE LET first == PgExec(s, sql[1])
         IN  IF Len(sql) = 1 \/ ~first.ok THEN first
             ELSE PgExec(first.s, sql[2])

Now == Session(server.status, server.saves, data, disk)

ServerIs(s) ==
    /\ server' = [status |-> s.status, saves |-> s.saves]
    /\ data' = s.data
    /\ disk' = s.disk

\* What a statement finds after the connection was lost, or PQreset.
Fresh == Session("IDLE", <<>>, disk, disk)

------------------------------------------------------------------------------
(* txn.rs                                                                  *)

IsOpen(f) == f # <<>>

\* forget_connection: the frames and the pin go.
Forget == frames' = <<>> /\ pin' = FALSE

\* run, once every statement of the plan was accepted.  A transaction that is
\* open keeps the handle it was begun for (TxnState::db), and pinned_conn
\* drops the pin of any other.
RunDone(next) ==
    /\ frames' = next
    /\ pin' = (IsOpen(next) /\ (IsOpen(frames) => pin))

\* (Mutant: a refusal never empties the registry.)
RunRefusedKeeps(s) == UNCHANGED <<frames, pin>>

\* run, when the server refused one: the registry keeps the old state while
\* the server still has a transaction open, and drops it otherwise.
RunRefused(s) ==
    IF s.status = "IDLE" THEN Forget ELSE UNCHANGED <<frames, pin>>

Answer(cmd, ok) == answer' = [cmd |-> cmd, ok |-> ok]

WriteCmd == Stmt("WRITE")

\* The names and nestings the environment may use.
Allowed(cmd) ==
    /\ cmd.op \in {"BEGIN", "SAVEPOINT"} => Len(frames) < MaxDepth
    /\ cmd.op = "SAVEPOINT" /\ "mix" \notin Env =>
            \A i \in 1..Len(frames) : frames[i].kind # "Nested"

\* step_transaction_control.  A plan of no statements (nothing open, a
\* savepoint never seen) does not touch the connection.
Control(cmd) ==
    LET p == plan(frames, cmd)
        r == PgRun(Now, p.sql)
    IN  /\ ~lost \/ p.sql = <<>>
        /\ Allowed(cmd)
        /\ ServerIs(r.s)
        /\ IF r.ok THEN RunDone(p.next) ELSE RunRefused(r.s)
        /\ Answer(cmd, r.ok)
        /\ UNCHANGED lost

\* The server refuses statement k of a plan, having accepted those before
\* it.  A COMMIT it refuses is rolled back.
Refusal(s, sql, k) ==
    LET before == PgRun(s, Truncate(sql, k - 1)).s
    IN  IF sql[k].op = "COMMIT"
        THEN Session("IDLE", <<>>, before.disk, before.disk)
        ELSE Fails(before).s

\* (Mutant: the registry is given the plan's frames all the same.)
ControlRefusedDone(cmd) ==
    LET p == plan(frames, cmd)
    IN  /\ "refuse" \in Env
        /\ ~lost
        /\ \E k \in 1..Len(p.sql) :
            /\ PgRun(Now, Truncate(p.sql, k - 1)).ok
            /\ ServerIs(Refusal(Now, p.sql, k))
            /\ RunDone(p.next)
        /\ Answer(cmd, FALSE)
        /\ UNCHANGED lost

ControlRefused(cmd) ==
    LET sql == plan(frames, cmd).sql
    IN  /\ "refuse" \in Env
        /\ ~lost
        /\ \E k \in 1..Len(sql) :
            /\ PgRun(Now, Truncate(sql, k - 1)).ok
            /\ ServerIs(Refusal(Now, sql, k))
            /\ RunRefused(Refusal(Now, sql, k))
        /\ Answer(cmd, FALSE)
        /\ UNCHANGED lost

\* The control statement is the first to meet the broken connection: its
\* first statement fails, the status is neither INTRANS nor INERROR, and
\* the registry is emptied.
ControlOnLost(cmd) ==
    /\ lost
    /\ plan(frames, cmd).sql # <<>>
    /\ Forget
    /\ ServerIs(Fresh)
    /\ lost' = FALSE
    /\ Answer(cmd, FALSE)

\* exec_via_postgres looks at the connection first: it resets it, forgets
\* the transaction and then runs the command as if none had been open.
ExecControlOnLost(cmd) ==
    LET p == plan(<<>>, cmd)
        r == PgRun(Fresh, p.sql)
    IN  /\ lost
        /\ cmd.op \in {"BEGIN", "SAVEPOINT"} => MaxDepth > 1
        /\ ServerIs(r.s)
        /\ frames' = p.next /\ pin' = IsOpen(p.next)
        /\ lost' = FALSE
        /\ Answer(cmd, r.ok)

\* A write step: a write on the session, committed at once when idle.
Write(w) ==
    /\ ~lost
    /\ server.status # "INERROR"
    /\ data' = data \cup {w}
    /\ disk' = IF server.status = "IDLE" THEN data \cup {w} ELSE disk
    /\ Answer(WriteCmd, TRUE)
    /\ UNCHANGED <<frames, pin, server, lost>>

\* The server refuses it: for its own reason, or because an earlier refusal
\* aborted the transaction.
WriteRefused ==
    /\ ~lost
    /\ "refuse" \in Env \/ server.status = "INERROR"
    /\ ServerIs(Fails(Now).s)
    /\ Answer(WriteCmd, FALSE)
    /\ UNCHANGED <<frames, pin, lost>>

\* A write meets the broken connection.  Noticed before it is sent
\* (rust_step_write_prepare_connection) or classified as Retry afterwards
\* (pool_check_health, maybe_retry_step), the session is reset, its
\* transaction forgotten, and the write run on the fresh session.
WriteOnLost(w) ==
    /\ lost
    /\ Forget
    /\ ServerIs(Session("IDLE", <<>>, disk \cup {w}, disk \cup {w}))
    /\ lost' = FALSE
    /\ Answer(WriteCmd, TRUE)

\* ... or no session can be had: forgotten all the same, and an error.
ReconnectFails ==
    /\ lost
    /\ Forget
    /\ Answer(WriteCmd, FALSE)
    /\ UNCHANGED <<server, data, disk, lost>>

\* The handle is closed on the thread that owns the slot: the connection is
\* settled before the slot is given back, an open transaction rolled back.
CloseHandle ==
    /\ Forget
    /\ ServerIs(Fresh)
    /\ Answer(Stmt("CLOSE"), TRUE)
    /\ UNCHANGED lost

\* ... or on another thread, or while the slot is not READY: forget_db drops
\* the pin, and nothing else is done.
CloseAway ==
    /\ "away" \in Env
    /\ pin' = FALSE
    /\ Answer(Stmt("CLOSE"), TRUE)
    /\ UNCHANGED <<frames, server, data, disk, lost>>

\* The server goes away: whatever was open is rolled back there.
LoseConnection ==
    /\ "lose" \in Env
    /\ ~lost
    /\ lost' = TRUE
    /\ ServerIs(Fresh)
    /\ UNCHANGED <<frames, pin, answer>>

Init ==
    /\ frames = <<>>
    /\ pin = FALSE
    /\ server = [status |-> "IDLE", saves |-> <<>>]
    /\ data = {}
    /\ disk = {}
    /\ lost = FALSE
    /\ answer = [cmd |-> Stmt("none"), ok |-> TRUE]

Next ==
    \/ \E cmd \in TxnCmd :
            Control(cmd) \/ ControlRefused(cmd)
                \/ ControlOnLost(cmd) \/ ExecControlOnLost(cmd)
    \/ \E w \in Writes : Write(w) \/ WriteOnLost(w)
    \/ WriteRefused
    \/ ReconnectFails
    \/ CloseHandle \/ CloseAway
    \/ LoseConnection

Spec == Init /\ [][Next]_vars

------------------------------------------------------------------------------
(* What must hold.                                                         *)

Save == [name : Int, data : SUBSET Writes]

Status == {"IDLE", "INTRANS", "INERROR"}

Answered ==
    [cmd : TxnCmd \cup {WriteCmd, Stmt("CLOSE"), Stmt("none")}, ok : BOOLEAN]

TypeOK ==
    /\ frames \in Seq(Frame)
    /\ pin \in BOOLEAN
    /\ server \in [status : Status, saves : Seq(Save)]
    /\ data \in SUBSET Writes
    /\ disk \in SUBSET Writes
    /\ lost \in BOOLEAN
    /\ answer \in Answered

\* Frames f and session s describe the same transaction: it is open on both
\* or on neither, and the server has one savepoint for each frame above the
\* outer one, under the name the frame stands for.
Agrees(f, s) ==
    /\ IsOpen(f) <=> s.status # "IDLE"
    /\ IsOpen(f) => Len(s.saves) = Len(f) - 1
    /\ ~IsOpen(f) => s.saves = <<>> /\ s.data = s.disk
    /\ \A i \in 1..Len(s.saves) : s.saves[i].name = PgName(f[i + 1].name)

\* What a refused SAVEPOINT leaves of the BEGIN sent before it: an aborted
\* transaction, with nothing in it.
Remnant(s) == s.status = "INERROR" /\ s.saves = <<>> /\ s.data = s.disk

\* On a connection that is up, the shim's frames and the server agree, except
\* that an aborted and empty transaction may be open that the registry knows
\* nothing of; and a handle is pinned only to a transaction that is open.
\* Every plan relies on it: a RELEASE or ROLLBACK TO of a savepoint the
\* server does not have would abort the transaction, and a write on a session
\* the registry takes for idle would join one (txn.rs, plan and run).
Mirror ==
    /\ pin => IsOpen(frames)
    /\ ~lost => Agrees(frames, Now) \/ (~IsOpen(frames) /\ Remnant(Now))

\* While the server has a transaction open, its handle is pinned to the
\* connection (txn.rs: "The slot is *pinned* to the SQLite handle for the
\* transaction's duration").
OpenIsPinned == ~lost /\ server.status # "IDLE" => pin

\* No plan sends a statement the server refuses for the transaction's shape:
\* a control command on a session that is up and not aborted succeeds,
\* whatever sequence of commands came before it (txn.rs: "An empty list is a
\* no-op", rather than a PostgreSQL error).
PlanAccepted ==
    ~lost /\ server.status # "INERROR" =>
        \A cmd \in TxnCmd : PgRun(Now, plan(frames, cmd).sql).ok

\* While Plex has a transaction open, the database changes only by
\* committing all of what the handle sees, and the transaction is then over:
\* never half of it (txn.rs: "half a library item, half a play queue").
AllOrNothing ==
    [][IsOpen(frames) /\ disk' # disk => disk' = data /\ ~IsOpen(frames')]_vars

\* The promise of txn.rs's module comment: the levels Plex has open, with
\* the data each was opened on, are the frames and the server's savepoints.
Level(i) ==
    [kind |-> frames[i].kind,
     name |-> IF frames[i].kind = "Save" THEN frames[i].name ELSE 0,
     data |-> IF i = 1 THEN disk ELSE server.saves[i - 1].data]

Promise == INSTANCE SqliteTxn WITH
    stack <- [i \in 1..Len(frames) |-> Level(i)],
    answer <- <<answer.cmd.op, answer.ok>>

Promised == Promise!Spec
==============================================================================
