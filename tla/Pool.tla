-------------------------------- MODULE Pool ---------------------------------
(***************************************************************************)
(* The connection pool of pg_client: slots changed by compare-and-swap     *)
(* from any thread (pool_state.rs), the acquire and its six phases         *)
(* (pool_acquire/), the tracking of handles to slots (pool_lookup.rs), the *)
(* close of a handle and the health check (pool_runtime.rs).               *)
(*                                                                         *)
(* A look at a slot (the loads that decide whether a phase wants it), the  *)
(* compare-and-swap that follows and the stores made under it are steps of *)
(* their own, between which other threads run.  A thread's position is     *)
(* pc[t]: the phase whose scan it is in, with "Cas" once it has looked at  *)
(* slot at[t] and means to swap its state, and "Own" once it has.  Three   *)
(* windows are a few instructions wide, Narrow; an instance has those in   *)
(* Windows open, and the threads come between no others.                   *)
(*                                                                         *)
(* A slot's last_used is abstracted to `aged': whether the idle timeout    *)
(* has passed since.  Its generation is abstracted to what it is compared  *)
(* with: raising it makes every thread-local cache entry for the slot      *)
(* stale, so the entries are dropped.                                      *)
(***************************************************************************)
EXTENDS Integers

CONSTANTS
    Threads, Handles, Conns,
    None,           \* no handle, no connection
    PoolSize,       \* configured_size at start
    PoolMax,        \* configured_max_size
    MaxTries,       \* entries of the retry-delay list
    Windows,        \* the short windows another thread may run in:
                    \*   "zombieCas"  a zombie seen, not yet reclaimed
                    \*   "take"       a READY slot seen, not yet touched
                    \*   "close"      a slot to be released, still READY
    Env             \* what else may happen:
                    \*   "reap"    the reaper's interval passes
                    \*   "break"   connections break
                    \*   "stream"  statements stream between calls

Narrow == {"zombieCas", "take", "close"}

ASSUME PoolAssumption ==
    /\ PoolSize \in Nat \ {0} /\ PoolMax \in Nat /\ PoolSize <= PoolMax
    /\ MaxTries \in Nat
    /\ None \notin Threads \cup Handles \cup Conns
    /\ Windows \subseteq Narrow
    /\ Env \subseteq {"reap", "break", "stream"}

Slots == 1..PoolMax

VARIABLES
    st,         \* slot |-> state
    conn,       \* slot |-> connection, or None
    owner,      \* slot |-> owner_thread, or None
    aged,       \* slot |-> the idle timeout has passed since last_used
    size,       \* configured_size
    due,        \* REAP_INTERVAL_SECS have passed since last_reap_time
    ref,        \* db_to_pool: handle |-> slot, or 0
    tls,        \* thread |-> cached key and slot, slot 0 when empty or stale
    live,       \* live_pool_conns
    sess,       \* connection |-> "ok", "bad" or "none" (is_pg_active = 0)
    streaming,  \* connections with streaming_active set
    pc,         \* thread |-> where it is
    at,         \* thread |-> the slot it is at
    got,        \* thread |-> the connection it has sampled or been given
    then,       \* thread |-> what follows the pass it is in
    doomed,     \* thread |-> connections reap_idle gave it to destroy
    call,       \* thread |-> its AcquireCtx
    tries       \* thread |-> POOL_RETRY_COUNT

slotVars == <<st, conn, owner, aged>>
poolVars == <<size, due, ref, tls>>
connVars == <<live, sess, streaming>>
callVars == <<doomed, call, tries>>
vars == <<slotVars, poolVars, connVars, pc, at, got, then, callVars>>

NoEntry == [key |-> None, slot |-> 0]

NoCall == [h |-> None, excl |-> None, nested |-> FALSE, n |-> 0, m |-> 0]

Init ==
    /\ st = [i \in Slots |-> "FREE"]
    /\ conn = [i \in Slots |-> None]
    /\ owner = [i \in Slots |-> None]
    /\ aged = [i \in Slots |-> TRUE]
    /\ size = PoolSize
    /\ due = ("reap" \in Env)
    /\ ref = [h \in Handles |-> 0]
    /\ tls = [t \in Threads |-> NoEntry]
    /\ live = {}
    /\ sess = [c \in Conns |-> "none"]
    /\ streaming = {}
    /\ pc = [t \in Threads |-> "idle"]
    /\ at = [t \in Threads |-> 1]
    /\ got = [t \in Threads |-> None]
    /\ then = [t \in Threads |-> "cached"]
    /\ doomed = [t \in Threads |-> {}]
    /\ call = [t \in Threads |-> NoCall]
    /\ tries = [t \in Threads |-> 0]

------------------------------------------------------------------------------
(* Helpers.                                                                *)

\* Thread t is at p, and no other thread is in a window it would have to
\* come between.
At(t, p) ==
    /\ pc[t] = p
    /\ \A u \in Threads \ {t} : pc[u] \in Narrow => pc[u] \in Windows

Move(t, p, i, c) ==
    /\ pc' = [pc EXCEPT ![t] = p]
    /\ at' = [at EXCEPT ![t] = i]
    /\ got' = [got EXCEPT ![t] = c]

Goto(t, p) == Move(t, p, at[t], got[t]) /\ UNCHANGED then

\* The call is over.
Return(t) ==
    /\ Move(t, "idle", 1, None)
    /\ then' = [then EXCEPT ![t] = "cached"]
    /\ call' = [call EXCEPT ![t] = NoCall]

Looks == UNCHANGED <<slotVars, poolVars, connVars, callVars>>

Swaps == UNCHANGED <<conn, owner, aged, poolVars, connVars, callVars>>

\* The phase that follows a scan that found nothing.
NextPhase(phase) ==
    CASE phase = "zombie" -> "due"
      [] phase = "ready"  -> "zombie"
      [] phase = "reuse"  -> "create"
      [] phase = "create" -> "error"
      [] phase = "error"  -> "grow"

\* `continue': the next slot of the scan `phase', or the next phase.  After
\* phase 1 comes a second pass of maintenance, and then phase 2.
Advance(t, phase) ==
    /\ IF at[t] < call[t].n THEN Move(t, phase, at[t] + 1, None)
                            ELSE Move(t, NextPhase(phase), 1, None)
    /\ then' = [then EXCEPT ![t] = IF phase = "ready" THEN "reuse" ELSE @]

referenced(i) == \E h \in Handles : ref[h] = i

isStreaming(i) == conn[i] \in streaming

connOk(c) == c # None /\ sess[c] = "ok"

\* generation.fetch_add: every cached entry for slot i is stale.
Stale(i) == [t \in Threads |-> IF tls[t].slot = i THEN NoEntry ELSE tls[t]]

Cache(t, i) == tls' = [tls EXCEPT ![t] = [key |-> None, slot |-> i]]

\* claim_slot_for_thread
Claim(t, i) ==
    /\ owner' = [owner EXCEPT ![i] = t]
    /\ aged' = [aged EXCEPT ![i] = FALSE]
    /\ tls' = Stale(i)

\* destroy_pool_connection
Destroy(cs) ==
    /\ live' = live \ cs
    /\ sess' = [c \in Conns |-> IF c \in cs THEN "none" ELSE sess[c]]
    /\ streaming' = streaming \ cs

------------------------------------------------------------------------------
(* acquire_on: the start, and the periodic pass (maintenance.rs).          *)

Begin(t, h, x, nested) ==
    /\ Move(t, IF due THEN "zombie" ELSE "cached", 1, None)
    /\ then' = [then EXCEPT ![t] = "cached"]
    /\ call' = [call EXCEPT ![t] = [h |-> h, excl |-> x, nested |-> nested,
                                   n |-> size, m |-> 0]]
    /\ UNCHANGED <<slotVars, poolVars, connVars, doomed>>

\* pool_find_connection_for_db, for a library handle.
Find(t, h) == At(t, "idle") /\ Begin(t, h, None, FALSE) /\ UNCHANGED tries

\* rust_pool_get_connection and rust_pool_get_connection_excluding: an
\* untracked connection, other than the one streaming.
Get(t, x) == At(t, "idle") /\ Begin(t, None, x, FALSE) /\ UNCHANGED tries

\* Mutant: the idle timeout is not looked at.
ZombieFresh(i) == st[i] = "READY" /\ ~referenced(i) /\ ~isStreaming(i)

Zombie(i) ==
    st[i] = "READY" /\ ~referenced(i) /\ aged[i] /\ ~isStreaming(i)

ZombieLook(t) ==
    /\ At(t, "zombie")
    /\ IF Zombie(at[t]) THEN Goto(t, "zombieCas") ELSE Advance(t, "zombie")
    /\ Looks

\* try_reclaim_zombie: the owner and the generation stay as they are.
ZombieCas(t) ==
    /\ At(t, "zombieCas")
    /\ st' = [st EXCEPT ![at[t]] = IF @ = "READY" THEN "FREE" ELSE @]
    /\ Advance(t, "zombie")
    /\ Swaps

ReapDue(t) ==
    /\ At(t, "due")
    /\ Move(t, IF due THEN "reap" ELSE then[t], 1, None)
    /\ due' = FALSE
    /\ call' = [call EXCEPT ![t].m = IF due THEN size ELSE 0]
    /\ UNCHANGED <<slotVars, size, ref, tls, connVars, then, doomed, tries>>

\* reap_idle: its own scan, over the size of the pool now.
ReapNext(t) ==
    /\ IF at[t] < call[t].m THEN Move(t, "reap", at[t] + 1, None)
                            ELSE Move(t, "destroy", 1, None)
    /\ UNCHANGED then

Reapable(i) ==
    st[i] = "FREE" /\ conn[i] # None /\ aged[i] /\ ~referenced(i)

ReapLook(t) ==
    /\ At(t, "reap")
    /\ IF Reapable(at[t]) THEN Goto(t, "reapCas") ELSE ReapNext(t)
    /\ Looks

\* Mutant: a store where the compare-and-swap was.
CasBlind(t, from, to) == st' = [st EXCEPT ![at[t]] = to]

\* A compare-and-swap of the slot's state.
Cas(t, from, to) ==
    st[at[t]] = from /\ st' = [st EXCEPT ![at[t]] = to]

CasFails(t, from) == st[at[t]] # from /\ st' = st

ReapCas(t) ==
    /\ At(t, "reapCas")
    /\ \/ Cas(t, "FREE", "RESERVED") /\ Goto(t, "reapOwn")
       \/ CasFails(t, "FREE") /\ ReapNext(t)
    /\ Swaps

ReapTake(t) ==
    LET i == at[t]
    IN  /\ At(t, "reapOwn")
        /\ st' = [st EXCEPT ![i] = "FREE"]
        /\ conn' = [conn EXCEPT ![i] = None]
        /\ owner' = [owner EXCEPT ![i] = None]
        /\ tls' = Stale(i)
        /\ doomed' = [doomed EXCEPT ![t] = @ \cup ({conn[i]} \ {None})]
        /\ ReapNext(t)
        /\ UNCHANGED <<aged, size, due, ref, connVars, call, tries>>

ReapDestroy(t) ==
    /\ At(t, "destroy")
    /\ Destroy(doomed[t])
    /\ doomed' = [doomed EXCEPT ![t] = {}]
    /\ Goto(t, then[t])
    /\ UNCHANGED <<slotVars, poolVars, call, tries>>

------------------------------------------------------------------------------
(* Phase 1: a READY slot the thread owns already.                          *)

Mine(t, i) == st[i] = "READY" /\ owner[i] = t /\ conn[i] # call[t].excl

\* The thread-local entry, whose key is 0 (None) only until a handle is
\* tracked.
Cached(t) ==
    LET e == tls[t]
        hit == e.key = None /\ e.slot # 0
        good == hit /\ e.slot <= call[t].n /\ Mine(t, e.slot)
                    /\ connOk(conn[e.slot]) /\ ~isStreaming(e.slot)
    IN  /\ At(t, "cached")
        /\ IF good THEN Move(t, "take", e.slot, conn[e.slot])
                   ELSE Move(t, "ready", 1, None)
        /\ tls' = IF hit /\ ~good THEN [tls EXCEPT ![t] = NoEntry] ELSE tls
        /\ UNCHANGED <<slotVars, size, due, ref, connVars, then, callVars>>

\* Mutant: streaming_active is not looked at.
ReadyLookStreaming(t) ==
    LET i == at[t]
    IN  /\ At(t, "ready")
        /\ IF ~Mine(t, i)
           THEN Advance(t, "ready")
           ELSE /\ Move(t, IF connOk(conn[i]) THEN "take" ELSE "readyCas",
                        i, conn[i])
                /\ UNCHANGED then
        /\ Looks

ReadyLook(t) ==
    LET i == at[t]
    IN  /\ At(t, "ready")
        /\ IF ~Mine(t, i) \/ (connOk(conn[i]) /\ isStreaming(i))
           THEN Advance(t, "ready")
           ELSE /\ Move(t, IF connOk(conn[i]) THEN "take" ELSE "readyCas",
                        i, conn[i])
                /\ UNCHANGED then
        /\ Looks

\* cache_existing_ready_slot
Take(t) ==
    /\ At(t, "take")
    /\ aged' = [aged EXCEPT ![at[t]] = FALSE]
    /\ Cache(t, at[t])
    /\ Goto(t, "found")
    /\ UNCHANGED <<st, conn, owner, size, due, ref, connVars, callVars>>

\* try_begin_reconnect
ReadyCas(t) ==
    /\ At(t, "readyCas")
    /\ \/ Cas(t, "READY", "RECONNECTING") /\ Goto(t, "reconnect")
       \/ CasFails(t, "READY") /\ Advance(t, "ready")
    /\ Swaps

\* A session is had again on connection c, or is not.
Session(c, up) ==
    /\ sess' = [x \in Conns |-> IF x # c THEN sess[x]
                                ELSE IF up THEN "ok" ELSE "none"]
    /\ streaming' = streaming \ {c}
    /\ UNCHANGED live

\* reconnect_conn, then mark_ready.  last_used stays as it was.
Reconnect(t) ==
    /\ At(t, "reconnect")
    /\ got[t] # None
    /\ st' = [st EXCEPT ![at[t]] = "READY"]
    /\ Session(got[t], TRUE)
    /\ Cache(t, at[t])
    /\ Goto(t, "found")
    /\ UNCHANGED <<conn, owner, aged, size, due, ref, callVars>>

\* ... or mark_error, and the acquire answers null at once.
ReconnectFails(t) ==
    /\ At(t, "reconnect")
    /\ st' = [st EXCEPT ![at[t]] = "ERROR"]
    /\ Session(got[t], FALSE)
    /\ Return(t)
    /\ UNCHANGED <<conn, owner, aged, poolVars, doomed, tries>>

------------------------------------------------------------------------------
(* Phase 2: a FREE slot with a connection.                                 *)

ReuseLook(t) ==
    LET i == at[t]
    IN  /\ At(t, "reuse")
        /\ IF conn[i] \in {None, call[t].excl} \/ isStreaming(i)
           THEN Advance(t, "reuse")
           ELSE Move(t, "reuseCas", i, conn[i]) /\ UNCHANGED then
        /\ Looks

\* try_claim_free_with_conn: the swap, and the second look under it.
ReuseCas(t) ==
    /\ At(t, "reuseCas")
    /\ \/ Cas(t, "FREE", "RESERVED") /\ Goto(t, "reuseOwn")
       \/ CasFails(t, "FREE") /\ Advance(t, "reuse")
    /\ Swaps

ReuseOwn(t) ==
    /\ At(t, "reuseOwn")
    /\ conn[at[t]] = got[t]
    /\ Claim(t, at[t])
    /\ Goto(t, "reset")
    /\ UNCHANGED <<st, conn, size, due, ref, connVars, callVars>>

ReuseMoved(t) ==
    /\ At(t, "reuseOwn")
    /\ conn[at[t]] # got[t]
    /\ st' = [st EXCEPT ![at[t]] = "FREE"]
    /\ Advance(t, "reuse")
    /\ Swaps

\* ROLLBACK of an abandoned transaction, then PQreset or a new session.
Reset(t) ==
    /\ At(t, "reset")
    /\ st' = [st EXCEPT ![at[t]] = "READY"]
    /\ Session(got[t], TRUE)
    /\ Cache(t, at[t])
    /\ Goto(t, "found")
    /\ UNCHANGED <<conn, owner, aged, size, due, ref, callVars>>

ResetFails(t) ==
    /\ At(t, "reset")
    /\ st' = [st EXCEPT ![at[t]] = "ERROR"]
    /\ Session(got[t], FALSE)
    /\ Advance(t, "reuse")
    /\ UNCHANGED <<conn, owner, aged, poolVars, callVars>>

------------------------------------------------------------------------------
(* Phase 3: an empty slot.  Phase 4: a slot in ERROR.  Phase 5: one more.  *)

CreateLook(t) ==
    /\ At(t, "create")
    /\ IF conn[at[t]] # None THEN Advance(t, "create") ELSE Goto(t, "createCas")
    /\ Looks

CreateCas(t) ==
    /\ At(t, "createCas")
    /\ \/ Cas(t, "FREE", "RESERVED") /\ Goto(t, "createOwn")
       \/ CasFails(t, "FREE") /\ Advance(t, "create")
    /\ Swaps

\* Mutant: the limit is off by one.
GrowLookPast(t) ==
    /\ At(t, "grow")
    /\ IF size > PoolMax THEN Goto(t, "retry")
       ELSE Move(t, "growSize", size + 1, None) /\ UNCHANGED then
    /\ Looks

\* The size is read, then swapped for one more.
GrowLook(t) ==
    /\ At(t, "grow")
    /\ IF size >= PoolMax THEN Goto(t, "retry")
       ELSE Move(t, "growSize", size + 1, None) /\ UNCHANGED then
    /\ Looks

GrowSize(t) ==
    /\ At(t, "growSize")
    /\ \/ size + 1 = at[t] /\ size' = at[t] /\ Goto(t, "growCas")
       \/ size + 1 # at[t] /\ size' = size /\ Goto(t, "retry")
    /\ UNCHANGED <<slotVars, due, ref, tls, connVars, callVars>>

GrowCas(t) ==
    /\ At(t, "growCas")
    /\ \/ Cas(t, "FREE", "RESERVED") /\ Goto(t, "growOwn")
       \/ CasFails(t, "FREE") /\ Goto(t, "retry")
    /\ Swaps

\* Mutant: no second look.
EmptyOwnBlind(t) ==
    /\ At(t, "createOwn") \/ At(t, "growOwn")
    /\ Claim(t, at[t])
    /\ Goto(t, IF pc[t] = "createOwn" THEN "createConnect" ELSE "growConnect")
    /\ UNCHANGED <<st, conn, size, due, ref, connVars, callVars>>

\* The second look found the slot empty still.
EmptyOwn(t) ==
    /\ At(t, "createOwn") \/ At(t, "growOwn")
    /\ conn[at[t]] = None
    /\ Claim(t, at[t])
    /\ Goto(t, IF pc[t] = "createOwn" THEN "createConnect" ELSE "growConnect")
    /\ UNCHANGED <<st, conn, size, due, ref, connVars, callVars>>

\* ... or filled.
FilledOwn(t) ==
    /\ At(t, "createOwn") \/ At(t, "growOwn")
    /\ conn[at[t]] # None
    /\ st' = [st EXCEPT ![at[t]] = "FREE"]
    /\ IF pc[t] = "createOwn" THEN Advance(t, "create") ELSE Goto(t, "retry")
    /\ Swaps

\* try_reclaim_error
ErrorCas(t) ==
    /\ At(t, "error")
    /\ \/ Cas(t, "ERROR", "RESERVED") /\ Goto(t, "errorOwn")
       \/ CasFails(t, "ERROR") /\ Advance(t, "error")
    /\ Swaps

ErrorOwn(t) ==
    LET i == at[t]
    IN  /\ At(t, "errorOwn")
        /\ Claim(t, i)
        /\ conn' = [conn EXCEPT ![i] = None]
        /\ Destroy({conn[i]} \ {None})
        /\ Goto(t, "errorConnect")
        /\ UNCHANGED <<st, size, due, ref, callVars>>

Connecting == {"createConnect", "errorConnect", "growConnect"}

\* create_pool_connection, into the slot claimed.
Connect(t, c) ==
    /\ \E p \in Connecting : At(t, p)
    /\ c \notin live
    /\ live' = live \cup {c}
    /\ sess' = [sess EXCEPT ![c] = "ok"]
    /\ conn' = [conn EXCEPT ![at[t]] = c]
    /\ st' = [st EXCEPT ![at[t]] = "READY"]
    /\ Cache(t, at[t])
    /\ Move(t, "found", at[t], c)
    /\ UNCHANGED <<owner, aged, size, due, ref, streaming, then, callVars>>

\* release_failed_new_connection
ConnectFails(t) ==
    /\ \E p \in Connecting : At(t, p)
    /\ conn' = [conn EXCEPT ![at[t]] = None]
    /\ owner' = [owner EXCEPT ![at[t]] = None]
    /\ st' = [st EXCEPT ![at[t]] = "FREE"]
    /\ CASE pc[t] = "createConnect" -> Advance(t, "create")
         [] pc[t] = "errorConnect"  -> Advance(t, "error")
         [] pc[t] = "growConnect"   -> Goto(t, "retry")
    /\ UNCHANGED <<aged, poolVars, connVars, callVars>>

------------------------------------------------------------------------------
(* Phase 6, and what the caller does with the connection.                  *)

\* Mutant: the retries are not counted.
RetryUncounted(t) ==
    /\ At(t, "retry")
    /\ tries[t] < MaxTries
    /\ Begin(t, call[t].h, None, TRUE)
    /\ UNCHANGED tries

\* The retry drops exclude_conn.
Retry(t) ==
    /\ At(t, "retry")
    /\ tries[t] < MaxTries
    /\ tries' = [tries EXCEPT ![t] = @ + 1]
    /\ Begin(t, call[t].h, None, TRUE)

RetriesSpent(t) ==
    /\ At(t, "retry")
    /\ tries[t] >= MaxTries
    /\ tries' = [tries EXCEPT ![t] = 0]
    /\ Return(t)
    /\ UNCHANGED <<slotVars, poolVars, connVars, doomed>>

\* find_connection_slot goes through every slot, used or not.
Holding(c) == {i \in Slots : conn[i] = c}

First(S) == CHOOSE i \in S : \A j \in S : i <= j

Succeeds(t) ==
    tries' = [tries EXCEPT ![t] = IF call[t].nested THEN 0 ELSE @]

\* pool_find_connection_for_db tracks the handle and rekeys the cache.
Track(t) ==
    LET h == call[t].h
    IN  /\ At(t, "found")
        /\ h # None /\ sess[got[t]] # "none"
        /\ ref' = IF Holding(got[t]) = {} THEN ref
                  ELSE [ref EXCEPT ![h] = First(Holding(got[t]))]
        /\ tls' = IF tls[t].key = None /\ tls[t].slot # 0
                  THEN [tls EXCEPT ![t] = [key |-> h, slot |-> @.slot]] ELSE tls
        /\ Goto(t, "using")
        /\ Succeeds(t)
        /\ UNCHANGED <<slotVars, size, due, connVars, doomed, call>>

\* ... unless the connection is not active after all: null.
TrackFails(t) ==
    /\ At(t, "found")
    /\ call[t].h # None /\ sess[got[t]] = "none"
    /\ Return(t)
    /\ Succeeds(t)
    /\ UNCHANGED <<slotVars, poolVars, connVars, doomed>>

\* An untracked caller gets the connection as it is.
Given(t) ==
    /\ At(t, "found")
    /\ call[t].h = None
    /\ Goto(t, "using")
    /\ Succeeds(t)
    /\ UNCHANGED <<slotVars, poolVars, connVars, doomed, call>>

\* rust_pool_touch_connection: a read step calls it, exec and write do not.
Touch(t) ==
    LET S == Holding(got[t])
    IN  /\ At(t, "using")
        /\ S # {}
        /\ aged' = [aged EXCEPT ![First(S)] = FALSE]
        /\ UNCHANGED <<st, conn, owner, poolVars, connVars, pc, at, got, then,
                       callVars>>

BeginStream(t) ==
    /\ "stream" \in Env
    /\ At(t, "using")
    /\ connOk(got[t])
    /\ streaming' = streaming \cup {got[t]}
    /\ UNCHANGED <<slotVars, poolVars, live, sess, pc, at, got, then, callVars>>

\* The statement that streams is stepped to its end, reset or finalized.
EndStream(c) ==
    /\ c \in streaming
    /\ streaming' = streaming \ {c}
    /\ UNCHANGED <<slotVars, poolVars, live, sess, pc, at, got, then, callVars>>

Done(t) ==
    /\ At(t, "using")
    /\ Return(t)
    /\ UNCHANGED <<slotVars, poolVars, connVars, doomed, tries>>

\* pool_check_health_inner, on a connection found broken.
HealthLook(t) ==
    LET S == {i \in Holding(got[t]) : owner[i] = t}
    IN  /\ At(t, "using")
        /\ sess[got[t]] = "bad"
        /\ S # {}
        /\ Move(t, "healthCas", First(S), got[t])
        /\ UNCHANGED then
        /\ Looks

HealthCas(t) ==
    /\ At(t, "healthCas")
    /\ \/ Cas(t, "READY", "RECONNECTING") /\ Goto(t, "health")
       \/ CasFails(t, "READY") /\ Goto(t, "using")
    /\ Swaps

HealthReset(t) ==
    /\ At(t, "health")
    /\ st' = [st EXCEPT ![at[t]] = "READY"]
    /\ aged' = [aged EXCEPT ![at[t]] = FALSE]
    /\ Session(got[t], TRUE)
    /\ Goto(t, "using")
    /\ UNCHANGED <<conn, owner, poolVars, callVars>>

HealthFails(t) ==
    /\ At(t, "health")
    /\ st' = [st EXCEPT ![at[t]] = "ERROR"]
    /\ Session(got[t], FALSE)
    /\ Return(t)
    /\ UNCHANGED <<conn, owner, aged, poolVars, doomed, tries>>

\* pool_release_for_db_inner: the handle is untracked, and its slot given
\* back when this thread owns it.  Plex closes no handle that is in a call.
Close(t, h) ==
    LET i == ref[h]
        mine == i \in 1..size /\ owner[i] = t /\ st[i] = "READY"
    IN  /\ At(t, "idle")
        /\ \A u \in Threads : call[u].h # h
        /\ ref' = [ref EXCEPT ![h] = 0]
        /\ IF mine THEN Move(t, "close", i, conn[i]) /\ tls' = tls
                   ELSE /\ UNCHANGED <<pc, at, got>>
                        /\ tls' = [tls EXCEPT ![t] = NoEntry]
        /\ UNCHANGED <<slotVars, size, due, connVars, then, callVars>>

\* settle_connection_before_release, then the two stores.
CloseStore(t) ==
    /\ At(t, "close")
    /\ streaming' = streaming \ {got[t]}
    /\ owner' = [owner EXCEPT ![at[t]] = None]
    /\ st' = [st EXCEPT ![at[t]] = "FREE"]
    /\ tls' = [tls EXCEPT ![t] = NoEntry]
    /\ Return(t)
    /\ UNCHANGED <<conn, aged, size, due, ref, live, sess, doomed, tries>>

------------------------------------------------------------------------------
(* Time and the network.                                                   *)

\* The idle timeout passes for slot i, while no call is at it: calls do not
\* outlast the timeout.
Age(i) ==
    /\ ~aged[i]
    /\ \A t \in Threads : pc[t] # "idle" => at[t] # i
    /\ aged' = [aged EXCEPT ![i] = TRUE]
    /\ UNCHANGED <<st, conn, owner, poolVars, connVars, pc, at, got, then, callVars>>

Tick ==
    /\ "reap" \in Env
    /\ ~due
    /\ due' = TRUE
    /\ UNCHANGED <<slotVars, size, ref, tls, connVars, pc, at, got, then, callVars>>

Break(c) ==
    /\ "break" \in Env
    /\ sess[c] = "ok"
    /\ sess' = [sess EXCEPT ![c] = "bad"]
    /\ UNCHANGED <<slotVars, poolVars, live, streaming, pc, at, got, then, callVars>>

\* What a thread does of itself once it is in a call.
Step(t) ==
    \/ ZombieLook(t) \/ ZombieCas(t)
    \/ ReapDue(t) \/ ReapLook(t) \/ ReapCas(t) \/ ReapTake(t) \/ ReapDestroy(t)
    \/ Cached(t) \/ ReadyLook(t) \/ Take(t) \/ ReadyCas(t)
    \/ Reconnect(t) \/ ReconnectFails(t)
    \/ ReuseLook(t) \/ ReuseCas(t) \/ ReuseOwn(t) \/ ReuseMoved(t)
    \/ Reset(t) \/ ResetFails(t)
    \/ CreateLook(t) \/ CreateCas(t) \/ EmptyOwn(t) \/ FilledOwn(t)
    \/ ErrorCas(t) \/ ErrorOwn(t)
    \/ GrowLook(t) \/ GrowSize(t) \/ GrowCas(t)
    \/ \E c \in Conns : Connect(t, c)
    \/ ConnectFails(t)
    \/ Retry(t) \/ RetriesSpent(t)
    \/ Track(t) \/ TrackFails(t) \/ Given(t)
    \/ HealthCas(t) \/ HealthReset(t) \/ HealthFails(t)
    \/ CloseStore(t)

Next ==
    \/ \E t \in Threads :
        \/ Step(t)
        \/ \E h \in Handles : Find(t, h) \/ Close(t, h)
        \/ \E x \in streaming \cup {None} : Get(t, x)
        \/ Touch(t) \/ BeginStream(t) \/ HealthLook(t) \/ Done(t)
    \/ \E c \in Conns : EndStream(c) \/ Break(c)
    \/ \E i \in Slots : Age(i)
    \/ Tick

Spec == Init /\ [][Next]_vars

\* A thread inside a call is eventually scheduled.
FairSpec == Spec /\ \A t \in Threads : WF_vars(Step(t))

------------------------------------------------------------------------------
(* What must hold.                                                         *)

States == {"FREE", "RESERVED", "READY", "RECONNECTING", "ERROR"}

Scans == {"zombie", "ready", "reuse", "create", "error"}

Owning == {"reapOwn", "reuseOwn", "reset", "createOwn", "growOwn", "errorOwn",
           "createConnect", "errorConnect", "growConnect", "reconnect", "health"}

PCs == Scans \cup Owning \cup Narrow \cup
       {"idle", "due", "reap", "reapCas", "destroy", "cached", "readyCas",
        "reuseCas", "createCas", "grow", "growSize", "growCas", "retry",
        "found", "using", "healthCas"}

SlotsOK ==
    /\ st \in [Slots -> States]
    /\ conn \in [Slots -> Conns \cup {None}]
    /\ owner \in [Slots -> Threads \cup {None}]
    /\ aged \in [Slots -> BOOLEAN]

PoolOK ==
    /\ size \in Slots
    /\ due \in BOOLEAN
    /\ ref \in [Handles -> 0..PoolMax]
    /\ tls \in [Threads -> [key : Handles \cup {None}, slot : 0..PoolMax]]

ConnsOK ==
    /\ live \subseteq Conns
    /\ sess \in [Conns -> {"ok", "bad", "none"}]
    /\ streaming \subseteq Conns

PositionsOK ==
    /\ pc \in [Threads -> PCs]
    /\ at \in [Threads -> Slots]
    /\ got \in [Threads -> Conns \cup {None}]
    /\ then \in [Threads -> {"cached", "reuse"}]

CallsOK ==
    /\ doomed \in [Threads -> SUBSET Conns]
    /\ call \in [Threads -> [h : Handles \cup {None}, excl : Conns \cup {None},
                             nested : BOOLEAN, n : 0..PoolMax, m : 0..PoolMax]]
    /\ tries \in [Threads -> 0..MaxTries]

\* The types, and with them the bounds: no scan, growth or cached entry
\* leaves the slots there are, and no more retries are counted than the
\* ladder has delays.
TypeOK == SlotsOK /\ PoolOK /\ ConnsOK /\ PositionsOK /\ CallsOK

\* Two threads that have each swapped a slot's state to do work on it never
\* have the same slot, and nobody else has moved its state on since
\* (try_claim_free_with_conn: "by then nobody else can transition the slot").
ClaimExclusive ==
    \A t \in Threads : pc[t] \in Owning =>
        /\ st[at[t]] = IF pc[t] \in {"reconnect", "health"}
                       THEN "RECONNECTING" ELSE "RESERVED"
        /\ \A u \in Threads \ {t} : pc[u] \in Owning => at[u] # at[t]

\* Every connection the pool made is in exactly one slot, or on exactly one
\* thread's list to be destroyed: none is leaked with its server-side
\* backend, closed twice, or left in a slot after it was closed (reap_idle,
\* phase 3: "leaking it and its server-side backend").
NoLeak ==
    /\ \A i, j \in Slots : i # j /\ conn[i] # None => conn[i] # conn[j]
    /\ \A t, u \in Threads : t # u => doomed[t] \cap doomed[u] = {}
    /\ \A i \in Slots, t \in Threads : conn[i] \notin doomed[t]
    /\ \A c \in Conns : c \in live <=>
            (\E i \in Slots : conn[i] = c) \/ (\E t \in Threads : c \in doomed[t])

\* Threads with a connection to talk on.
InHand == {"found", "using", "reset", "reconnect", "health", "healthCas", "close"}

\* No two threads talk on one connection (txn.rs: "Pool slots are owned by
\* one thread").
Exclusive ==
    \A t, u \in Threads :
        t # u /\ pc[t] \in InHand /\ pc[u] \in InHand => got[t] # got[u]

\* A connection with rows still to come on it is not given to a thread for
\* its next statement (streaming_active, phases 1 and 2).
GivenIdle ==
    [][\A t \in Threads : pc[t] # "found" /\ pc'[t] = "found"
            => got'[t] \notin streaming']_vars

\* Every call into the pool ends, with a connection or without: no thread
\* spins in the scans or the retries while others claim and release slots.
AcquireReturns ==
    \A t \in Threads : pc[t] # "idle" ~> pc[t] \in {"idle", "using"}
==============================================================================
