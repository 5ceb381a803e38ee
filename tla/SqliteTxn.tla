------------------------------ MODULE SqliteTxn ------------------------------
(***************************************************************************)
(* What the shim promises Plex about transactions: the mapping the module  *)
(* comment of pg_client/txn.rs states, as a specification of its own.      *)
(*                                                                         *)
(* The state is what SQLite would show the handle: the open transaction as *)
(* a stack of levels, the data the handle sees, and the data on disk.  A   *)
(* level remembers the data it was opened on, so that rolling back to it   *)
(* can restore it.  `answer' is the command last answered and its result.  *)
(* It speaks of commands that succeed: PostgreSQL aborts a transaction at  *)
(* the first statement it refuses where SQLite goes on with it, and the    *)
(* module comment promises nothing there.                                  *)
(***************************************************************************)
EXTENDS Integers, Sequences

CONSTANTS
    Names,      \* savepoint names, as the caller spells them (positive)
    Fold,       \* the name SQLite and PostgreSQL compare: case is folded
    Writes      \* the data a statement can add

VARIABLES stack, data, disk, answer

vars == <<stack, data, disk, answer>>

Kinds == {"Begin", "Auto", "Nested", "Save"}

Level(k, n, d) == [kind |-> k, name |-> n, data |-> d]

Open == stack # <<>>

\* The positions of the levels of kind k, and of the savepoints called n.
NestedLevels == {i \in 1..Len(stack) : stack[i].kind = "Nested"}

SaveLevels(n) ==
    {i \in 1..Len(stack) : stack[i].kind = "Save" /\ Fold[stack[i].name] = Fold[n]}

Topmost(S) == CHOOSE i \in S : \A j \in S : j <= i

Keep(n) == SubSeq(stack, 1, n)

Init ==
    /\ stack = <<>>
    /\ data = {}
    /\ disk = {}
    /\ answer = <<"none", TRUE>>

Done(what) == answer' = <<what, TRUE>>

\* A nested BEGIN is a level of its own.
Begin ==
    /\ stack' = Append(stack, Level(IF Open THEN "Nested" ELSE "Begin", 0, data))
    /\ UNCHANGED <<data, disk>>
    /\ Done("BEGIN")

\* COMMIT of a nested BEGIN releases it; any other COMMIT ends the whole
\* transaction, and one with nothing open is a no-op.
Commit ==
    /\ IF NestedLevels # {}
       THEN stack' = Keep(Topmost(NestedLevels) - 1) /\ UNCHANGED disk
       ELSE stack' = <<>> /\ disk' = data
    /\ UNCHANGED data
    /\ Done("COMMIT")

\* ROLLBACK of a nested BEGIN restores what it began on.
Rollback ==
    /\ IF NestedLevels # {}
       THEN LET k == Topmost(NestedLevels)
            IN  stack' = Keep(k - 1) /\ data' = stack[k].data
       ELSE stack' = <<>> /\ data' = disk
    /\ UNCHANGED disk
    /\ Done("ROLLBACK")

\* A SAVEPOINT outside a transaction begins one.
Savepoint(n) ==
    /\ stack' = (IF Open THEN stack ELSE <<Level("Auto", 0, data)>>)
                    \o <<Level("Save", n, data)>>
    /\ UNCHANGED <<data, disk>>
    /\ Done("SAVEPOINT")

\* RELEASE of the outermost savepoint of such a transaction commits it.
Release(n) ==
    /\ IF SaveLevels(n) = {}
       THEN UNCHANGED <<stack, disk>>
       ELSE LET rest == Keep(Topmost(SaveLevels(n)) - 1)
            IN  IF Len(rest) = 1 /\ rest[1].kind = "Auto"
                THEN stack' = <<>> /\ disk' = data
                ELSE stack' = rest /\ UNCHANGED disk
    /\ UNCHANGED data
    /\ Done("RELEASE")

RollbackTo(n) ==
    /\ IF SaveLevels(n) = {}
       THEN UNCHANGED <<stack, data>>
       ELSE LET k == Topmost(SaveLevels(n))
            IN  stack' = Keep(k) /\ data' = stack[k].data
    /\ UNCHANGED disk
    /\ Done("ROLLBACK TO")

Write(w) ==
    /\ data' = data \cup {w}
    /\ disk' = IF Open THEN disk ELSE data \cup {w}
    /\ UNCHANGED stack
    /\ Done("WRITE")

\* Closing the handle rolls back.
Close ==
    /\ stack' = <<>>
    /\ data' = disk
    /\ UNCHANGED disk
    /\ Done("CLOSE")

Next ==
    \/ Begin \/ Commit \/ Rollback \/ Close
    \/ \E n \in Names : Savepoint(n) \/ Release(n) \/ RollbackTo(n)
    \/ \E w \in Writes : Write(w)

Spec == Init /\ [][Next]_vars
==============================================================================
