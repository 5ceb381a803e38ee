------------------------------ MODULE Release --------------------------------
(***************************************************************************)
(* Stepping while handles are closed.  sqlite3_close gives the slot of a   *)
(* handle back (pool_release_for_db_inner), and a slot is its thread's and *)
(* not one handle's: a statement of another handle may be streaming on the *)
(* connection that is given back.                                          *)
(***************************************************************************)
EXTENDS Step

\* A thread closes a handle with no statements of its own that shares the
\* slot of c with others.  settle_connection_before_release asks for a drain,
\* which does nothing on a connection marked as streaming, and then clears
\* the mark.
Close(t, c) ==
    /\ pc[t] = "idle" /\ owner[c] = t
    /\ owner' = [owner EXCEPT ![c] = None] /\ active' = active \ {c}
    /\ UNCHANGED <<stmtVars, sess, fstmt, frow, cache, plan, schema,
                   callVars, seenVars>>

ReleaseNext == Next \/ \E t \in Threads, c \in Conns : Close(t, c)

ReleaseSpec == Init /\ [][ReleaseNext]_vars

\* A row handed is the statement's own, whatever handle is closed: a slot is
\* given back with "no stream in flight" (settle_connection_before_release).
OwnRows == \A s \in Reads : hand[s].of \in {None, s}
==============================================================================
