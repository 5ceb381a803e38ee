# plex-postgresql: a verification development in TLA+

plex-postgresql is a library preloaded into Plex Media Server. It takes over
the SQLite C API and answers for the library database from PostgreSQL. These
modules model three parts of it whose correctness depends on the order of
steps: the connection pool shared by Plex's threads, the stepping of
statements over it, and the transactions forwarded to PostgreSQL. TLC checks
them on small instances; TLAPS proves the safety invariants of the pool and
of the transactions for every instance, under the assumptions named below.

Paths are relative to `src/rust/plex-pg-core/src/`; `PROJECT.json` maps each
definition to its lines.

## Modules

| Part | Source | Modules | Status |
|---|---|---|---|
| Transactions: plan, run, pins, close | `pg_client/txn.rs` | `TxnPlan`, `Txn`; promise `SqliteTxn` | partly: `classify_sql`, which reads the control statement from its text, is not modelled |
| Connection pool | `pg_client/pool_*.rs`, `pg_client/pool_acquire/` | `Pool` | partly: not fork, `cleanup_all`, other handles |
| Stepping | `db_interpose_step*` | `Step`, and `Release` for a handle that closes meanwhile | partly: not finalize, cached statements, skipped writes |

- `Pool`: `st`, `conn`, `owner`, `aged` are the atomics of a slot, `ref` the
  slot a handle tracks, `tls` a thread's cached index. A thread's `pc` is its
  place in `pool_acquire`; every look at a slot and every compare-and-swap is
  a step. Three gaps between a look and the store that trusts it are
  *windows*: `zombieCas`, `take` and `close`. `Windows` names those another
  thread may come into, `Env` what the surroundings do: `reap`, `break`,
  `stream`. Where a window is closed the look and its store are one step;
  the code has no such guarantee, and a run with the window open shows what
  follows.
- `Txn`: `TxnPlan` is the function `plan`; `Txn` has the registry's frames and
  pin and the server's session. `Env` has `refuse` (any statement of a plan,
  and any write), `lose` a connection, `away` (a handle closed on a thread
  that does not own its slot) and `mix` (a named savepoint inside a nested
  BEGIN).
- `Step`: a thread steps and resets statements, `Env` has `error` in a stream,
  `break`, `down` (no connection to be had), `refuse`, `migrate` (plans go
  stale) and `cross` (a thread steps another's statement). `PQstatus` changes
  only when the connection is used: `sess` is `cut` until then and `bad`
  after.

## Runs

| Run | Properties | What it shows |
|---|---|---|
| `pool_own` | `TypeOK`, `Exclusive`, `GivenIdle` | Two threads, two handles, a pool growing from one slot to two, streams; all windows closed, no breaks: no two threads talk on one connection, none is handed out while it streams. |
| `pool_claim` | `ClaimExclusive`, `NoLeak` | Breaks, the reaper, `zombieCas` and `take` open, one slot: claims are exclusive, each connection is in one place until closed once. |
| `pool_live` | `AcquireReturns` | All windows open: every acquire ends. |
| `step_rows` | `TypeOK`, `StreamsMatch`, `DoneIsTrue`, `RowsInOrder` | Two threads, two reads, `cross` and `migrate`, empty results: rows in order and each once, but for a step by another thread. |
| `step_retry` | `StreamsMatch`, `DoneIsTrue`, `RunsOnce`, `Answered` | A read and a RETURNING write, `refuse`, `break`, `down`: every step ends, a write runs again only when its answer was lost. |
| `txn_mirror` | `TypeOK`, `Mirror`, `PlanAccepted` | Everything in `Env`: frames and session stay in step, but for the empty aborted transaction a refused SAVEPOINT leaves. |
| `txn_promise` | `AllOrNothing`, `Promised` | `Env = {}`, one spelling of each name: SQLite's nested transactions are implemented. |
| `pool_zombie` | `Exclusive` (violated) | With `zombieCas` open. |
| `step_replay` | `RowsInOrder` (violated) | With `error` and `migrate`. |
| `step_close` | `OwnRows` (violated) | A handle closes while another's statement streams on the shared slot. |
| `txn_open` | `OpenIsPinned` (violated) | With `refuse`. |
| `txn_lost_connection` | `AllOrNothing` (violated) | With `lose`. |

Bounds: two threads are what every race takes; two rows put a step before,
between and after them; two savepoint names, two writes and depth 4 make an
inner BEGIN between two savepoints of one name. Fairness is weak, of each
thread's own next step: a thread inside a call is scheduled. None is assumed
of the surroundings.

## Findings

- *A slot is reclaimed under its owner* (`pool_zombie`): `try_reclaim_zombie`
  does not look at `last_used` again (`pg_client/pool_state.rs:108`), and
  phase 1 leaves the state READY when it hands a slot to its owner.
- *Rows are handed twice* (`step_replay`): `STEP_PG_CONN_ERROR` stays set when
  the retries are spent (`db_interpose_step/retry.rs:25`), and an error in the
  middle of the thread's next stream is retried from the first row.
- *A released connection has a stream in flight* (`step_close`): the drain
  returns at once while `streaming_active` is set
  (`db_interpose_conn_utils.rs:283`).
- *A transaction nobody knows of* (`txn_open`): the SAVEPOINT after an accepted
  BEGIN is refused, and the registry is left without a transaction
  (`pg_client/txn.rs:451`).
- *A lost connection splits a transaction* (`txn_lost_connection`):
  `db_interpose_step_write_utils/connection.rs:176`.

## Proofs

- `PoolProofs`: `ClaimsHold`, `NothingLeaks`, assuming `"close"` is not in
  `Windows`; the inductive `IInv` adds that a slot claimed to connect is empty.
  `OneThreadEach`, `GivenIsIdle`, assuming `Windows = {}` and no breaks;
  `OwnInv` adds that a connection in a thread's hand is in a READY, young slot
  of its own.
- `TxnProofs`: `MirrorHolds`, `PlansAreAccepted` for every `Env`, from `IInv`,
  which adds that only the bottom frame is an outer one. `AtomicWithoutLoss`
  assumes `"lose"` is not in `Env`; `KeepsItsPromise` assumes `Env = {}`.

`Step` is only model-checked, and so is liveness, which is beyond the prover.

## Left out

Writes answered DONE without being run (the statistics statements of
`write_exec.rs:40-49`, the inserts of `special_insert.rs`), finalize, fork,
cached statements, prepare, binds, columns, guides, caches, the translator,
processes, the log and the counters.
