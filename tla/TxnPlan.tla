------------------------------- MODULE TxnPlan -------------------------------
(***************************************************************************)
(* The pure part of pg_client/txn.rs: which PostgreSQL statements a        *)
(* transaction-control command of Plex becomes, and the frame stack after  *)
(* it.  A savepoint name of Plex is a positive number, as spelled; the     *)
(* name the shim makes up for the nested BEGIN at depth k is -k, so the    *)
(* two never meet, as "plexpg_nested_<k>" and Plex's names never do.       *)
(***************************************************************************)
EXTENDS Integers, Sequences

CONSTANT Names          \* savepoint names, as the caller spells them

ASSUME NamesAssumption == Names \subseteq Nat \ {0}

Outer(explicit) == [kind |-> IF explicit THEN "Begin" ELSE "Auto", name |-> 0]

SavepointFrame(n) == [kind |-> "Save", name |-> n]

\* (Mutant: the made-up name is not kept apart from Plex's.)
NestedBeginUnreserved(k) == [kind |-> "Nested", name |-> k]

NestedBegin(k) == [kind |-> "Nested", name |-> -k]

Frame ==
    [kind : {"Begin", "Auto"}, name : {0}]
        \cup [kind : {"Save"}, name : Names]
        \cup [kind : {"Nested"}, name : {k \in Int : k < 0}]

TxnCmd ==
    [op : {"BEGIN", "COMMIT", "ROLLBACK"}, name : {0}]
        \cup [op : {"SAVEPOINT", "RELEASE", "ROLLBACK TO"}, name : Names]

Cmd(op, n) == [op |-> op, name |-> n]

Stmt(op) == Cmd(op, 0)

Truncate(frames, n) == SubSeq(frames, 1, n)

\* The position `rposition' finds: of the last savepoint frame spelled n.
SavepointsNamed(frames, n) ==
    {i \in 1..Len(frames) : frames[i].kind = "Save" /\ frames[i].name = n}

RPosition(frames, n) ==
    CHOOSE i \in SavepointsNamed(frames, n) :
        \A j \in SavepointsNamed(frames, n) : j <= i

Plan(sql, frames) == [sql |-> sql, next |-> frames]

PlanBegin(frames) ==
    IF frames = <<>>
    THEN Plan(<<Stmt("BEGIN")>>, <<Outer(TRUE)>>)
    ELSE Plan(<<Cmd("SAVEPOINT", -Len(frames))>>,
              Append(frames, NestedBegin(Len(frames))))

LastIsNested(frames) == frames # <<>> /\ frames[Len(frames)].kind = "Nested"

LastName(frames) == frames[Len(frames)].name

PlanCommit(frames) ==
    IF frames = <<>> THEN Plan(<<>>, <<>>)
    ELSE IF LastIsNested(frames)
    THEN Plan(<<Cmd("RELEASE", LastName(frames))>>,
              Truncate(frames, Len(frames) - 1))
    ELSE Plan(<<Stmt("COMMIT")>>, <<>>)

\* (Mutant: the nested BEGIN's savepoint is released before it is rolled
\* back to.)
PlanRollbackSwapped(frames) ==
    IF frames = <<>> THEN Plan(<<>>, <<>>)
    ELSE IF LastIsNested(frames)
    THEN Plan(<<Cmd("RELEASE", LastName(frames)),
                Cmd("ROLLBACK TO", LastName(frames))>>,
              Truncate(frames, Len(frames) - 1))
    ELSE Plan(<<Stmt("ROLLBACK")>>, <<>>)

PlanRollback(frames) ==
    IF frames = <<>> THEN Plan(<<>>, <<>>)
    ELSE IF LastIsNested(frames)
    THEN Plan(<<Cmd("ROLLBACK TO", LastName(frames)),
                Cmd("RELEASE", LastName(frames))>>,
              Truncate(frames, Len(frames) - 1))
    ELSE Plan(<<Stmt("ROLLBACK")>>, <<>>)

PlanSavepoint(frames, n) ==
    IF frames = <<>>
    THEN Plan(<<Stmt("BEGIN"), Cmd("SAVEPOINT", n)>>,
              <<Outer(FALSE), SavepointFrame(n)>>)
    ELSE Plan(<<Cmd("SAVEPOINT", n)>>, Append(frames, SavepointFrame(n)))

\* (Mutant: the savepoint just above the outer frame commits whoever began
\* the transaction, and the outer frame stays.)
PlanReleaseCommits(frames, n) ==
    IF SavepointsNamed(frames, n) = {} THEN Plan(<<>>, frames)
    ELSE LET rest == Truncate(frames, RPosition(frames, n) - 1)
         IN  IF Len(rest) = 1
             THEN Plan(<<Cmd("RELEASE", n), Stmt("COMMIT")>>, rest)
             ELSE Plan(<<Cmd("RELEASE", n)>>, rest)

\* Releasing the outermost savepoint of a transaction SAVEPOINT began commits.
PlanRelease(frames, n) ==
    IF SavepointsNamed(frames, n) = {} THEN Plan(<<>>, frames)
    ELSE LET rest == Truncate(frames, RPosition(frames, n) - 1)
         IN  IF rest = <<Outer(FALSE)>>
             THEN Plan(<<Cmd("RELEASE", n), Stmt("COMMIT")>>, <<>>)
             ELSE Plan(<<Cmd("RELEASE", n)>>, rest)

\* (Mutant: ROLLBACK TO drops the savepoint it rolled back to.)
PlanRollbackToDrops(frames, n) ==
    IF SavepointsNamed(frames, n) = {} THEN Plan(<<>>, frames)
    ELSE Plan(<<Cmd("ROLLBACK TO", n)>>,
              Truncate(frames, RPosition(frames, n) - 1))

PlanRollbackTo(frames, n) ==
    IF SavepointsNamed(frames, n) = {} THEN Plan(<<>>, frames)
    ELSE Plan(<<Cmd("ROLLBACK TO", n)>>, Truncate(frames, RPosition(frames, n)))

plan(frames, cmd) ==
    CASE cmd.op = "BEGIN" -> PlanBegin(frames)
      [] cmd.op = "COMMIT" -> PlanCommit(frames)
      [] cmd.op = "ROLLBACK" -> PlanRollback(frames)
      [] cmd.op = "SAVEPOINT" -> PlanSavepoint(frames, cmd.name)
      [] cmd.op = "RELEASE" -> PlanRelease(frames, cmd.name)
      [] cmd.op = "ROLLBACK TO" -> PlanRollbackTo(frames, cmd.name)
==============================================================================
