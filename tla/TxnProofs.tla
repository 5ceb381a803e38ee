------------------------------ MODULE TxnProofs ------------------------------
(***************************************************************************)
(* Txn, proved for every set of names and writes and every depth: the      *)
(* frames the shim keeps and the server's savepoints agree (Mirror), every *)
(* plan is accepted, and an open transaction is committed whole or not at  *)
(* all.  With Env empty (nothing refused, no connection lost, no close on  *)
(* another thread, no named savepoint inside a nested BEGIN), Txn also     *)
(* implements SqliteTxn, the nesting txn.rs promises.                      *)
(***************************************************************************)
EXTENDS Txn, TLAPS, WellFoundedInduction, SequenceTheorems

Sess == [status : Status, saves : Seq(Save), data : SUBSET Writes,
         disk : SUBSET Writes]

\* Only the bottom frame is an outer one.
Shape(f) ==
    \A i \in 1..Len(f) : i = 1 <=> f[i].kind \in {"Begin", "Auto"}

\* What running plan p on session s comes to, with frames f before.
Outcome(f, s, p) ==
    LET r == PgRun(s, p.sql)
    IN  /\ p.next \in Seq(Frame) /\ Shape(p.next)
        /\ r.ok \in BOOLEAN
        /\ r.s \in Sess
        /\ r.ok => Agrees(p.next, r.s)
        /\ ~r.ok => s.status = "INERROR" /\ r.s.status # "IDLE" /\ Agrees(f, r.s)
        /\ IsOpen(f) /\ r.s.disk # s.disk =>
                r.ok /\ p.next = <<>> /\ r.s.disk = s.data

\* What Mirror says of frames f and a session s that is up.
Known(f, s) == Agrees(f, s) \/ (~IsOpen(f) /\ Remnant(s))

\* What a session s comes to, with frames f, when a statement is refused.
Refused(f, s, t) ==
    /\ t \in Sess
    /\ t.disk = s.disk
    /\ t.status = "IDLE" => t.saves = <<>> /\ t.data = t.disk
    /\ t.status # "IDLE" => Known(f, t)

IInv ==
    /\ TypeOK
    /\ Shape(frames)
    /\ Mirror

\* A set of positions has a last one: `rposition' and the server's search
\* for the latest savepoint of a name are well defined.
LEMMA MaxExists ==
    ASSUME NEW n \in Nat, NEW S \in SUBSET (1..n), S # {}
    PROVE  \E i \in S : \A j \in S : j <= i
<1> DEFINE T == {m \in Nat : n - m \in S}
<1>1. T \subseteq Nat
    BY Zenon
<1>2. \A i \in S : i \in Int /\ n - i \in Nat /\ n - (n - i) = i
    OBVIOUS
<1>3. \A i \in S : n - i \in T
    BY Zenon, <1>2
<1>4. T # {}
    BY Zenon, <1>3
<1>5. PICK x \in T : \A y \in T : ~(<<y, x>> \in OpToRel(<, Nat))
    BY Zenon, <1>1, <1>4, WFMin, NatLessThanWellFounded
<1>6. \A y \in T : ~(y < x)
    BY Zenon, <1>1, <1>5 DEF OpToRel
<1>7. \A j \in S : j <= n - x
  <2>1. x \in Nat
    BY Zenon, <1>1
  <2>2. SUFFICES ASSUME NEW j \in S PROVE j <= n - x
    BY Zenon
  <2>3. ~(n - j < x)
    BY Zenon, <1>3, <1>6
  <2> QED
    BY <1>2, <2>1, <2>3
<1> QED
    BY Zenon, <1>7

\* RPosition is the last savepoint frame of its name.
LEMMA RPositionIsLast ==
    ASSUME NEW f \in Seq(Frame), NEW n, SavepointsNamed(f, n) # {}
    PROVE  /\ RPosition(f, n) \in SavepointsNamed(f, n)
           /\ \A j \in SavepointsNamed(f, n) : j <= RPosition(f, n)
<1>1. Len(f) \in Nat /\ SavepointsNamed(f, n) \in SUBSET (1..Len(f))
    BY Zenon, LenProperties DEF SavepointsNamed
<1>2. \E i \in SavepointsNamed(f, n) : \A j \in SavepointsNamed(f, n) : j <= i
    BY Zenon, <1>1, MaxExists
<1> QED
    BY Zenon, <1>2 DEF RPosition

\* Latest is the last savepoint the server has under the name.
LEMMA LatestIsLast ==
    ASSUME NEW s \in Sess, NEW n, Found(s, n) # {}
    PROVE  /\ Latest(s, n) \in Found(s, n)
           /\ \A j \in Found(s, n) : j <= Latest(s, n)
<1>1. Len(s.saves) \in Nat /\ Found(s, n) \in SUBSET (1..Len(s.saves))
    BY Zenon, LenProperties DEF Found, Sess
<1>2. \E i \in Found(s, n) : \A j \in Found(s, n) : j <= i
    BY Zenon, <1>1, MaxExists
<1> QED
    BY Zenon, <1>2 DEF Latest

\* A savepoint of Plex is a number on the server too.
LEMMA NameType ==
    ASSUME NEW n \in Names
    PROVE  PgName(n) \in Int
<1>1. Fold[n] \in Names /\ PgName(n) = Fold[n]
    BY Zenon, FoldAssumption DEF PgName
<1>2. \A m \in Names : m \in Int
    BY NamesAssumption
<1> QED
    BY Zenon, <1>1, <1>2

\* The savepoint the server finds for a name of Plex is the one above which
\* the shim cuts its frames.
LEMMA SamePosition ==
    ASSUME NEW f \in Seq(Frame), NEW s \in Sess, NEW n \in Names,
           Shape(f), Agrees(f, s),
           SavepointsNamed(f, n) # {}
    PROVE  /\ Found(s, n) # {}
           /\ Latest(s, n) = RPosition(f, n) - 1
           /\ Latest(s, n) \in 1..Len(s.saves)
           /\ RPosition(f, n) \in 2..Len(f)
<1>1. \A i \in 1..Len(s.saves) :
            i \in Found(s, n) <=> i + 1 \in SavepointsNamed(f, n)
  <2> SUFFICES ASSUME NEW i \in 1..Len(s.saves)
               PROVE  s.saves[i].name = PgName(n)
                        <=> f[i + 1].kind = "Save" /\ f[i + 1].name = n
    BY DEF Found, SavepointsNamed, Agrees, IsOpen, Sess
  <2>1. i + 1 \in 1..Len(f) /\ i + 1 # 1 /\ f[i + 1] \in Frame
    BY DEF Agrees, IsOpen, Sess
  <2>2. s.saves[i].name = PgName(f[i + 1].name)
    BY Zenon DEF Agrees
  <2>3. CASE f[i + 1].kind = "Save"
    BY Zenon, <2>1, <2>2, <2>3, FoldAssumption DEF PgName, Frame
  <2>4. CASE f[i + 1].kind = "Nested"
    BY <2>1, <2>2, <2>4, FoldAssumption, NamesAssumption DEF PgName, Frame
  <2> QED
    BY Zenon, <2>1, <2>3, <2>4 DEF Frame, Shape
<1>2. \A i \in SavepointsNamed(f, n) :
            i - 1 \in 1..Len(s.saves) /\ i \in 2..Len(f) /\ i - 1 \in Found(s, n)
  <2> SUFFICES ASSUME NEW i \in SavepointsNamed(f, n)
               PROVE  i - 1 \in 1..Len(s.saves) /\ i \in 2..Len(f)
    BY <1>1 DEF SavepointsNamed
  <2> QED
    BY DEF SavepointsNamed, Shape, Agrees, IsOpen, Sess
<1>3. Found(s, n) # {}
    BY Zenon, <1>2
<1>4. /\ RPosition(f, n) \in 2..Len(f)
      /\ RPosition(f, n) - 1 \in 1..Len(s.saves)
      /\ RPosition(f, n) - 1 <= Latest(s, n)
    BY Zenon, <1>2, <1>3, RPositionIsLast, LatestIsLast
<1>5. Latest(s, n) \in 1..Len(s.saves) /\ Latest(s, n) + 1 <= RPosition(f, n)
  <2>1. Latest(s, n) \in Found(s, n) /\ Latest(s, n) \in 1..Len(s.saves)
    BY Zenon, <1>3, LatestIsLast DEF Found
  <2> QED
    BY Zenon, <1>1, <2>1, RPositionIsLast
<1> QED
    BY <1>3, <1>4, <1>5

------------------------------------------------------------------------------
(* What each statement does to a session, one fact per kind of statement.  *)

\* BEGIN on an idle session opens a transaction and changes nothing else.
LEMMA PgBegin ==
    ASSUME NEW s \in Sess, s.status = "IDLE"
    PROVE  PgExec(s, Stmt("BEGIN")) = Result(TRUE, [s EXCEPT !.status = "INTRANS"])
    BY Zenon DEF PgExec, Stmt, Cmd

\* COMMIT of a transaction that is not aborted makes what the session sees
\* durable.
LEMMA PgCommit ==
    ASSUME NEW s \in Sess
    PROVE  \E d \in {s.data, s.disk} :
              PgExec(s, Stmt("COMMIT")) = Result(TRUE, Session("IDLE", <<>>, d, d))
    BY Zenon DEF PgExec, Stmt, Cmd

\* ROLLBACK leaves an idle session that sees what is on disk.
LEMMA PgRollback ==
    ASSUME NEW s \in Sess
    PROVE  PgExec(s, Stmt("ROLLBACK")) =
              Result(TRUE, Session("IDLE", <<>>, s.disk, s.disk))
    BY Zenon DEF PgExec, Stmt, Cmd

\* SAVEPOINT in an open transaction adds a savepoint on top.
LEMMA PgSavepoint ==
    ASSUME NEW s \in Sess, NEW n
    PROVE  PgExec(s, Cmd("SAVEPOINT", n)) =
              IF s.status = "INTRANS"
              THEN Result(TRUE, [s EXCEPT !.saves =
                      Append(s.saves, [name |-> PgName(n), data |-> s.data])])
              ELSE Fails(s)
    BY Zenon DEF PgExec, Cmd, Sess

\* RELEASE of a savepoint the server has cuts its stack below it.
LEMMA PgRelease ==
    ASSUME NEW s \in Sess, NEW n
    PROVE  PgExec(s, Cmd("RELEASE", n)) =
              IF s.status = "INTRANS" /\ Found(s, n) # {}
              THEN Result(TRUE, [s EXCEPT !.saves =
                      Truncate(s.saves, Latest(s, n) - 1)])
              ELSE Fails(s)
    BY Zenon DEF PgExec, Cmd, Sess

\* ROLLBACK TO a savepoint the server has cuts its stack above it and
\* restores the data it was set on, also in an aborted transaction.
LEMMA PgRollbackTo ==
    ASSUME NEW s \in Sess, NEW n
    PROVE  PgExec(s, Cmd("ROLLBACK TO", n)) =
              IF s.status # "IDLE" /\ Found(s, n) # {}
              THEN Result(TRUE, [s EXCEPT
                      !.status = "INTRANS",
                      !.saves = Truncate(s.saves, Latest(s, n)),
                      !.data = s.saves[Latest(s, n)].data])
              ELSE Fails(s)
    BY Zenon DEF PgExec, Cmd, Sess

\* A plan of one statement, and of two.
LEMMA RunOne ==
    ASSUME NEW s, NEW c
    PROVE  PgRun(s, <<c>>) = PgExec(s, c)
    BY Zenon DEF PgRun

\* When the first of two statements is accepted, the second decides.
LEMMA RunTwo ==
    ASSUME NEW s, NEW c, NEW d, PgExec(s, c).ok
    PROVE  PgRun(s, <<c, d>>) = PgExec(PgExec(s, c).s, d)
<1>1. <<c, d>> # <<>> /\ Len(<<c, d>>) # 1 /\ <<c, d>>[1] = c /\ <<c, d>>[2] = d
    OBVIOUS
<1> QED
    BY <1>1, Zenon DEF PgRun

\* When the first of two statements is refused, the second is not sent.
LEMMA RunStops ==
    ASSUME NEW s, NEW c, NEW d, ~PgExec(s, c).ok
    PROVE  PgRun(s, <<c, d>>) = PgExec(s, c)
<1>1. <<c, d>> # <<>> /\ <<c, d>>[1] = c
    BY Zenon
<1> QED
    BY <1>1, Zenon DEF PgRun

\* The two parts of a statement's result.
LEMMA ResultIs ==
    ASSUME NEW ok, NEW s
    PROVE  Result(ok, s).ok = ok /\ Result(ok, s).s = s
    BY Zenon DEF Result

\* An aborted session refuses, and changes nothing.
LEMMA FailsInError ==
    ASSUME NEW s \in Sess, s.status = "INERROR"
    PROVE  Fails(s).ok = FALSE /\ Fails(s).s = s
    BY Zenon DEF Fails, Result, Sess

------------------------------------------------------------------------------
(* The six plans.                                                          *)

\* A plan whose statements are all accepted.
LEMMA AcceptedOutcome ==
    ASSUME NEW f, NEW s, NEW sql, NEW g \in Seq(Frame), NEW t \in Sess,
           Shape(g), Agrees(g, t),
           PgRun(s, sql) = Result(TRUE, t),
           IsOpen(f) /\ t.disk # s.disk => g = <<>> /\ t.disk = s.data
    PROVE  Outcome(f, s, Plan(sql, g))
<1>1. Plan(sql, g).sql = sql /\ Plan(sql, g).next = g
    BY Zenon DEF Plan
<1>2. Result(TRUE, t).ok = TRUE /\ Result(TRUE, t).s = t
    BY Zenon DEF Result
<1> QED
    BY <1>1, <1>2, Zenon DEF Outcome

\* A plan an aborted session refuses.
LEMMA RefusedOutcome ==
    ASSUME NEW f, NEW s \in Sess, NEW sql, NEW g \in Seq(Frame),
           Shape(g), Agrees(f, s), s.status = "INERROR",
           PgRun(s, sql) = Fails(s)
    PROVE  Outcome(f, s, Plan(sql, g))
<1>1. Plan(sql, g).sql = sql /\ Plan(sql, g).next = g
    BY Zenon DEF Plan
<1>2. "INERROR" # "IDLE"
    BY Zenon
<1> QED
    BY <1>1, <1>2, FailsInError, Zenon DEF Outcome

\* A single outer frame.
LEMMA OuterFrame ==
    ASSUME NEW e \in BOOLEAN
    PROVE  <<Outer(e)>> \in Seq(Frame) /\ Shape(<<Outer(e)>>)
<1>1. Outer(e) \in Frame /\ Outer(e).kind \in {"Begin", "Auto"}
    BY Zenon DEF Outer, Frame
<1>2. <<Outer(e)>> \in Seq(Frame)
    BY <1>1
<1>3. \A i \in 1..Len(<<Outer(e)>>) : i = 1 /\ <<Outer(e)>>[i] = Outer(e)
    OBVIOUS
<1> HIDE DEF Outer
<1> QED
    BY Zenon, <1>1, <1>2, <1>3 DEF Shape

\* What BEGIN's plan leaves: a transaction, or a savepoint in the open one.
LEMMA BeginOutcome ==
    ASSUME NEW f \in Seq(Frame), NEW s \in Sess, Shape(f), Agrees(f, s)
    PROVE  Outcome(f, s, PlanBegin(f))
<1>1. CASE f = <<>>
  <2>1. PlanBegin(f) = Plan(<<Stmt("BEGIN")>>, <<Outer(TRUE)>>)
    BY Zenon, <1>1 DEF PlanBegin
  <2>2. s.status = "IDLE"
    BY Zenon, <1>1 DEF Agrees, IsOpen, Sess, Status
  <2>3. PgRun(s, <<Stmt("BEGIN")>>) =
            Result(TRUE, [s EXCEPT !.status = "INTRANS"])
    BY Zenon, <2>2, RunOne, PgBegin
  <2> DEFINE t == [s EXCEPT !.status = "INTRANS"]
  <2>4. t \in Sess /\ t.status = "INTRANS" /\ t.saves = <<>> /\ t.disk = s.disk
    BY Zenon, <1>1 DEF Sess, Status, Agrees, IsOpen
  <2>5. Agrees(<<Outer(TRUE)>>, t)
    BY <2>4 DEF Agrees, IsOpen
  <2> HIDE DEF t
  <2> QED
    BY Zenon, <2>1, <2>3, <2>4, <2>5, OuterFrame, AcceptedOutcome DEF t
<1>2. CASE f # <<>>
  <2> DEFINE k == Len(f)
             g == Append(f, NestedBegin(k))
  <2>1. PlanBegin(f) = Plan(<<Cmd("SAVEPOINT", -k)>>, g)
    BY Zenon, <1>2 DEF PlanBegin
  <2>2. k \in Nat /\ k > 0 /\ NestedBegin(k) \in Frame /\ PgName(-k) = -k
        /\ NestedBegin(k).name = -k /\ NestedBegin(k).kind = "Nested"
    BY <1>2, NamesAssumption DEF NestedBegin, Frame, PgName
  <2>3. g \in Seq(Frame) /\ Shape(g) /\ Len(g) = k + 1 /\ g # <<>>
    BY <2>2 DEF Shape
  <2>4. s.status # "IDLE" /\ Len(s.saves) = k - 1 /\ s.saves \in Seq(Save)
    BY Zenon, <1>2 DEF Agrees, IsOpen, Sess
  <2>5. PgRun(s, <<Cmd("SAVEPOINT", -k)>>) = PgExec(s, Cmd("SAVEPOINT", -k))
    BY Zenon, RunOne
  <2>6. CASE s.status = "INTRANS"
    <3> DEFINE new == [name |-> -k, data |-> s.data]
               t == [s EXCEPT !.saves = Append(s.saves, new)]
    <3>1. PgRun(s, <<Cmd("SAVEPOINT", -k)>>) = Result(TRUE, t)
        BY Zenon, <2>2, <2>5, <2>6, PgSavepoint
    <3>2. new \in Save /\ Append(s.saves, new) \in Seq(Save)
        BY <2>2, <2>4 DEF Save, Sess
    <3>3. t \in Sess /\ t.saves = Append(s.saves, new) /\ t.status = "INTRANS"
          /\ t.disk = s.disk
        BY Zenon, <3>2, <2>6 DEF Sess, Status
    <3>4. \A i \in 1..Len(t.saves) : t.saves[i].name = PgName(g[i + 1].name)
      <4> SUFFICES ASSUME NEW i \in 1..Len(t.saves)
                   PROVE  t.saves[i].name = PgName(g[i + 1].name)
        BY Zenon
      <4>1. CASE i = k
        BY <2>2, <2>4, <3>3, <4>1
      <4>2. CASE i # k
        BY <2>2, <2>4, <3>3, <4>2 DEF Agrees
      <4> QED
        BY Zenon, <4>1, <4>2
    <3>5. Agrees(g, t)
        BY <2>3, <2>4, <3>3, <3>4 DEF Agrees, IsOpen
    <3> HIDE DEF g, t
    <3> QED
        BY Zenon, <2>1, <2>3, <3>1, <3>3, <3>5, AcceptedOutcome
  <2>7. CASE s.status = "INERROR"
    <3>1. PgRun(s, <<Cmd("SAVEPOINT", -k)>>) = Fails(s)
        BY Zenon, <2>5, <2>7, PgSavepoint
    <3> HIDE DEF g
    <3> QED
        BY Zenon, <2>1, <2>3, <2>7, <3>1, RefusedOutcome
  <2> QED
    BY Zenon, <2>4, <2>6, <2>7 DEF Sess, Status
<1> QED
    BY Zenon, <1>1, <1>2

\* Cutting the frames to m and the server's savepoints to m - 1 keeps the two
\* in agreement.
LEMMA CutTogether ==
    ASSUME NEW f \in Seq(Frame), NEW s \in Sess, Shape(f), Agrees(f, s),
           NEW m \in 1..Len(f), NEW t \in Sess,
           t.status = "INTRANS", t.saves = Truncate(s.saves, m - 1)
    PROVE  /\ Truncate(f, m) \in Seq(Frame)
           /\ Shape(Truncate(f, m))
           /\ Agrees(Truncate(f, m), t)
<1> DEFINE g == Truncate(f, m)
           v == Truncate(s.saves, m - 1)
<1>1. m \in Nat /\ f # <<>> /\ Len(s.saves) = Len(f) - 1 /\ s.saves \in Seq(Save)
    BY DEF Agrees, IsOpen, Sess
<1>2. g \in Seq(Frame) /\ Len(g) = m /\ \A i \in 1..m : g[i] = f[i]
    BY <1>1 DEF Truncate
<1>3. v \in Seq(Save) /\ Len(v) = m - 1 /\ \A i \in 1..(m - 1) : v[i] = s.saves[i]
    BY <1>1 DEF Truncate
<1> HIDE DEF g, v
<1>4. Shape(g)
    BY <1>2 DEF Shape
<1>5. g # <<>>
    BY <1>2
<1>6. t.saves = v
    BY Zenon DEF v
<1>7. \A i \in 1..Len(v) : v[i].name = PgName(g[i + 1].name)
  <2> SUFFICES ASSUME NEW i \in 1..Len(v)
               PROVE  v[i].name = PgName(g[i + 1].name)
    BY Zenon
  <2>1. i \in 1..(m - 1) /\ i + 1 \in 1..m /\ i \in 1..Len(s.saves)
    BY <1>1, <1>3
  <2>2. v[i] = s.saves[i] /\ g[i + 1] = f[i + 1]
    BY Zenon, <1>2, <1>3, <2>1
  <2> QED
    BY Zenon, <2>1, <2>2 DEF Agrees
<1>8. Agrees(g, t)
    BY Zenon, <1>2, <1>3, <1>5, <1>6, <1>7 DEF Agrees, IsOpen
<1> QED
    BY Zenon, <1>2, <1>4, <1>8 DEF g

\* Ending the transaction leaves an idle session and no frames.
LEMMA EndAgrees ==
    ASSUME NEW d \in SUBSET Writes
    PROVE  /\ Session("IDLE", <<>>, d, d) \in Sess
           /\ <<>> \in Seq(Frame) /\ Shape(<<>>)
           /\ Agrees(<<>>, Session("IDLE", <<>>, d, d))
    BY DEF Session, Sess, Status, Shape, Agrees, IsOpen

\* With nothing to send, nothing changes.
LEMMA NoOpOutcome ==
    ASSUME NEW f \in Seq(Frame), NEW s \in Sess, Shape(f), Agrees(f, s)
    PROVE  Outcome(f, s, Plan(<<>>, f))
<1>1. PgRun(s, <<>>) = Result(TRUE, s)
    BY Zenon DEF PgRun
<1> QED
    BY Zenon, <1>1, AcceptedOutcome

\* The savepoint of a nested BEGIN is the server's latest.
LEMMA NestedOnTop ==
    ASSUME NEW f \in Seq(Frame), NEW s \in Sess, Shape(f), Agrees(f, s),
           LastIsNested(f)
    PROVE  /\ Len(f) \in Nat /\ Len(f) > 1
           /\ Found(s, LastName(f)) # {}
           /\ Latest(s, LastName(f)) = Len(f) - 1
           /\ Len(s.saves) = Len(f) - 1
<1>1. Len(f) \in Nat /\ Len(f) > 1 /\ Len(s.saves) = Len(f) - 1
    BY DEF LastIsNested, Shape, Agrees, IsOpen
<1>2. Len(f) - 1 \in Found(s, LastName(f))
    BY <1>1 DEF Found, LastName, Agrees
<1>3. \A j \in Found(s, LastName(f)) : j \in Int /\ j <= Len(f) - 1
    BY <1>1 DEF Found
<1> QED
    BY <1>1, <1>2, <1>3, LatestIsLast

\* What COMMIT's plan leaves: the end of the transaction, or of the nested
\* BEGIN on top of it.
LEMMA CommitOutcome ==
    ASSUME NEW f \in Seq(Frame), NEW s \in Sess, Shape(f), Agrees(f, s)
    PROVE  Outcome(f, s, PlanCommit(f))
<1>1. CASE f = <<>>
    BY Zenon, <1>1, NoOpOutcome DEF PlanCommit
<1>2. CASE f # <<>> /\ LastIsNested(f)
  <2> DEFINE n == LastName(f)
             t == [s EXCEPT !.saves = Truncate(s.saves, Len(f) - 2)]
  <2>1. PlanCommit(f) = Plan(<<Cmd("RELEASE", n)>>, Truncate(f, Len(f) - 1))
    BY Zenon, <1>2 DEF PlanCommit
  <2>2. Len(f) - 1 \in 1..Len(f) /\ Found(s, n) # {} /\ Latest(s, n) = Len(f) - 1
        /\ Len(f) - 2 = (Len(f) - 1) - 1 /\ Len(f) - 2 \in 0..Len(s.saves)
        /\ s.saves \in Seq(Save) /\ s.status # "IDLE"
    BY <1>2, NestedOnTop DEF Sess, Agrees, IsOpen
  <2>3. PgRun(s, <<Cmd("RELEASE", n)>>) = PgExec(s, Cmd("RELEASE", n))
    BY Zenon, RunOne
  <2> HIDE DEF n
  <2>4. CASE s.status = "INTRANS"
    <3>1. PgRun(s, <<Cmd("RELEASE", n)>>) = Result(TRUE, t)
        BY Zenon, <2>2, <2>3, <2>4, PgRelease
    <3>2. Truncate(s.saves, Len(f) - 2) \in Seq(Save)
        BY <2>2 DEF Truncate
    <3>3. t \in Sess /\ t.status = "INTRANS" /\ t.disk = s.disk
          /\ t.saves = Truncate(s.saves, (Len(f) - 1) - 1)
        BY Zenon, <2>2, <2>4, <3>2 DEF Sess
    <3> HIDE DEF t
    <3> QED
        BY Zenon, <2>1, <2>2, <3>1, <3>3, CutTogether, AcceptedOutcome
  <2>5. CASE s.status = "INERROR"
    <3>1. PgRun(s, <<Cmd("RELEASE", n)>>) = Fails(s)
        BY Zenon, <2>3, <2>5, PgRelease
    <3>2. Truncate(f, Len(f) - 1) \in Seq(Frame) /\ Shape(Truncate(f, Len(f) - 1))
        BY <2>2 DEF Truncate, Shape
    <3> QED
        BY Zenon, <2>1, <2>5, <3>1, <3>2, RefusedOutcome
  <2> QED
    BY Zenon, <2>2, <2>4, <2>5 DEF Sess, Status
<1>3. CASE f # <<>> /\ ~LastIsNested(f)
  <2>1. PlanCommit(f) = Plan(<<Stmt("COMMIT")>>, <<>>)
    BY Zenon, <1>3 DEF PlanCommit
  <2>2. PICK d \in {s.data, s.disk} :
            PgRun(s, <<Stmt("COMMIT")>>) = Result(TRUE, Session("IDLE", <<>>, d, d))
    BY Zenon, RunOne, PgCommit
  <2>3. d \in SUBSET Writes
    BY Zenon DEF Sess
  <2>4. Session("IDLE", <<>>, d, d).disk = d
    BY Zenon DEF Session
  <2> QED
    BY Zenon, <2>1, <2>2, <2>3, <2>4, EndAgrees, AcceptedOutcome
<1> QED
    BY Zenon, <1>1, <1>2, <1>3

\* What ROLLBACK's plan leaves: the end of the transaction, or of the nested
\* BEGIN on top of it.
LEMMA RollbackOutcome ==
    ASSUME NEW f \in Seq(Frame), NEW s \in Sess, Shape(f), Agrees(f, s)
    PROVE  Outcome(f, s, PlanRollback(f))
<1>1. CASE f = <<>>
    BY Zenon, <1>1, NoOpOutcome DEF PlanRollback
<1>2. CASE f # <<>> /\ LastIsNested(f)
  <2> DEFINE n == LastName(f)
             rollbackTo == Cmd("ROLLBACK TO", n)
             k == Len(f) - 1
             t == [s EXCEPT !.status = "INTRANS",
                            !.saves = Truncate(s.saves, k),
                            !.data = s.saves[k].data]
             u == [t EXCEPT !.saves = Truncate(t.saves, k - 1)]
  <2>1. PlanRollback(f) =
            Plan(<<Cmd("ROLLBACK TO", n), Cmd("RELEASE", n)>>, Truncate(f, k))
    BY Zenon, <1>2 DEF PlanRollback
  <2>2. k \in 1..Len(f) /\ Found(s, n) # {} /\ Latest(s, n) = k
        /\ k \in 1..Len(s.saves) /\ k = Len(s.saves)
        /\ s.saves \in Seq(Save) /\ s.status # "IDLE" /\ k \in Nat
    BY <1>2, NestedOnTop DEF Sess, Agrees, IsOpen
  <2>3. PgExec(s, rollbackTo).ok /\ PgExec(s, rollbackTo).s = t
    <3>1. PgExec(s, rollbackTo) = Result(TRUE, t)
        BY Zenon, <2>2, PgRollbackTo
    <3> HIDE DEF rollbackTo, t
    <3> QED
        BY <3>1 DEF Result
  <2>4. Truncate(s.saves, k) = s.saves /\ s.saves[k] \in Save
    BY <2>2, SubSeqFull DEF Truncate
  <2>5. t \in Sess /\ t.status = "INTRANS" /\ t.saves = s.saves /\ t.disk = s.disk
    BY Zenon, <2>4 DEF Sess, Status, Save
  <2>6. Found(t, n) = Found(s, n) /\ Latest(t, n) = k
    BY Zenon, <2>2, <2>5 DEF Found, Latest
  <2> HIDE DEF n, t
  <2>7. PgExec(t, Cmd("RELEASE", n)) = Result(TRUE, u)
    BY Zenon, <2>2, <2>5, <2>6, PgRelease
  <2>8. PgRun(s, <<Cmd("ROLLBACK TO", n), Cmd("RELEASE", n)>>) = Result(TRUE, u)
    <3> DEFINE release == Cmd("RELEASE", n)
    <3> HIDE DEF u, k, rollbackTo, release
    <3>1. PgRun(s, <<rollbackTo, release>>) = PgExec(t, release)
        BY <2>3, RunTwo
    <3> QED
        BY Zenon, <2>7, <3>1 DEF rollbackTo, release
  <2>9. Truncate(t.saves, k - 1) \in Seq(Save)
    BY <2>2, <2>5 DEF Truncate
  <2>10. u \in Sess /\ u.status = "INTRANS" /\ u.disk = s.disk
         /\ u.saves = Truncate(s.saves, k - 1)
    BY Zenon, <2>5, <2>9 DEF Sess
  <2> HIDE DEF u
  <2> QED
    BY Zenon, <2>1, <2>2, <2>8, <2>10, CutTogether, AcceptedOutcome
<1>3. CASE f # <<>> /\ ~LastIsNested(f)
  <2>1. PlanRollback(f) = Plan(<<Stmt("ROLLBACK")>>, <<>>)
    BY Zenon, <1>3 DEF PlanRollback
  <2>2. PgRun(s, <<Stmt("ROLLBACK")>>) =
            Result(TRUE, Session("IDLE", <<>>, s.disk, s.disk))
    BY Zenon, RunOne, PgRollback
  <2>3. s.disk \in SUBSET Writes
    BY Zenon DEF Sess
  <2>4. Session("IDLE", <<>>, s.disk, s.disk).disk = s.disk
    BY Zenon DEF Session
  <2> QED
    BY Zenon, <2>1, <2>2, <2>3, <2>4, EndAgrees, AcceptedOutcome
<1> QED
    BY Zenon, <1>1, <1>2, <1>3

\* What SAVEPOINT's plan leaves: one frame and one savepoint more, under a
\* transaction begun for it when none was open.
LEMMA SavepointOutcome ==
    ASSUME NEW f \in Seq(Frame), NEW s \in Sess, Shape(f), Agrees(f, s),
           NEW n \in Names
    PROVE  Outcome(f, s, PlanSavepoint(f, n))
<1> DEFINE new == [name |-> PgName(n), data |-> s.data]
           frame == SavepointFrame(n)
<1>1. frame \in Frame /\ frame.kind = "Save" /\ frame.name = n
    BY Zenon DEF SavepointFrame, Frame
<1>2. new \in Save /\ new.name = PgName(n)
  <2>1. PgName(n) \in Int
    BY Zenon, NameType
  <2> QED
    BY Zenon, <2>1 DEF Save, Sess
<1> HIDE DEF frame
<1>3. CASE f = <<>>
  <2> DEFINE g == <<Outer(FALSE), frame>>
             t == [s EXCEPT !.status = "INTRANS"]
             u == [t EXCEPT !.saves = Append(t.saves, [name |-> PgName(n), data |-> t.data])]
  <2>1. PlanSavepoint(f, n) = Plan(<<Stmt("BEGIN"), Cmd("SAVEPOINT", n)>>, g)
    BY Zenon, <1>3 DEF PlanSavepoint, frame
  <2>2. s.status = "IDLE" /\ s.saves = <<>>
    BY Zenon, <1>3 DEF Agrees, IsOpen
  <2>3. t \in Sess /\ t.status = "INTRANS" /\ t.saves = <<>> /\ t.disk = s.disk
        /\ t.data = s.data
    BY Zenon, <2>2 DEF Sess, Status
  <2>4. PgExec(s, Stmt("BEGIN")) = Result(TRUE, t)
    BY Zenon, <2>2, PgBegin
  <2> HIDE DEF t
  <2>5. PgExec(t, Cmd("SAVEPOINT", n)) = Result(TRUE, u)
    BY Zenon, <2>3, PgSavepoint
  <2>6. PgRun(s, <<Stmt("BEGIN"), Cmd("SAVEPOINT", n)>>) = Result(TRUE, u)
    <3> HIDE DEF u
    <3>1. PgRun(s, <<Stmt("BEGIN"), Cmd("SAVEPOINT", n)>>) = PgExec(t, Cmd("SAVEPOINT", n))
      <4>1. PgExec(s, Stmt("BEGIN")).ok /\ PgExec(s, Stmt("BEGIN")).s = t
        BY <2>4 DEF Result
      <4> QED
        BY <4>1, RunTwo
    <3> QED
        BY Zenon, <2>5, <3>1
  <2>7. u \in Sess /\ u.status = "INTRANS" /\ u.disk = s.disk /\ u.saves = <<new>>
    <3>1. <<new>> \in Seq(Save) /\ Append(<<>>, new) = <<new>>
        BY <1>2
    <3>2. [name |-> PgName(n), data |-> t.data] = new
        BY Zenon, <2>3
    <3> HIDE DEF new
    <3> QED
        BY Zenon, <2>3, <3>1, <3>2 DEF Sess
  <2> HIDE DEF u, new
  <2>8. Outer(FALSE) \in Frame /\ Outer(FALSE).kind = "Auto"
    BY Zenon DEF Outer, Frame
  <2>9. g \in Seq(Frame) /\ Len(g) = 2 /\ g[1] = Outer(FALSE) /\ g[2] = frame
    <3> HIDE DEF Outer
    <3>1. \A a, b \in Frame : <<a, b>> \in Seq(Frame) /\ Len(<<a, b>>) = 2
                                 /\ <<a, b>>[1] = a /\ <<a, b>>[2] = b
        OBVIOUS
    <3> QED
        BY Zenon, <1>1, <2>8, <3>1
  <2> HIDE DEF g
  <2>10. Shape(g)
    <3>1. \A i \in 1..Len(g) : i = 1 \/ i = 2
        BY <2>9
    <3> QED
        BY Zenon, <1>1, <2>8, <2>9, <3>1 DEF Shape
  <2>11. Agrees(g, u)
    <3>1. Len(<<new>>) = 1 /\ <<new>>[1] = new
        BY Zenon
    <3>2. \A i \in 1..Len(u.saves) : i = 1
        BY <2>7, <3>1
    <3>3. g # <<>>
        BY <2>9
    <3>4. \A i \in 1..Len(u.saves) : u.saves[i].name = PgName(g[i + 1].name)
        BY <1>1, <1>2, <2>7, <2>9, <3>1, <3>2
    <3> QED
        BY <2>7, <2>9, <3>1, <3>3, <3>4 DEF Agrees, IsOpen
  <2> QED
    BY Zenon, <1>3, <2>1, <2>6, <2>7, <2>9, <2>10, <2>11, AcceptedOutcome
<1>4. CASE f # <<>>
  <2> DEFINE g == Append(f, frame)
             k == Len(f)
             t == [s EXCEPT !.saves = Append(s.saves, new)]
  <2>1. PlanSavepoint(f, n) = Plan(<<Cmd("SAVEPOINT", n)>>, g)
    BY Zenon, <1>4 DEF PlanSavepoint, frame
  <2>2. k \in Nat /\ k > 0 /\ Len(s.saves) = k - 1 /\ s.status # "IDLE"
        /\ s.saves \in Seq(Save)
    BY <1>4 DEF Agrees, IsOpen, Sess
  <2>3. g \in Seq(Frame) /\ Shape(g) /\ Len(g) = k + 1 /\ g # <<>>
    BY <1>1, <2>2 DEF Shape
  <2>4. PgRun(s, <<Cmd("SAVEPOINT", n)>>) = PgExec(s, Cmd("SAVEPOINT", n))
    BY Zenon, RunOne
  <2>5. CASE s.status = "INTRANS"
    <3>1. PgRun(s, <<Cmd("SAVEPOINT", n)>>) = Result(TRUE, t)
        BY Zenon, <2>4, <2>5, PgSavepoint
    <3>2. t \in Sess /\ t.saves = Append(s.saves, new) /\ t.status = "INTRANS"
          /\ t.disk = s.disk
      <4>1. Append(s.saves, new) \in Seq(Save)
        BY <1>2, <2>2
      <4> HIDE DEF new
      <4> QED
        BY Zenon, <2>5, <4>1 DEF Sess
    <3> HIDE DEF new, t
    <3>3. \A i \in 1..Len(t.saves) : t.saves[i].name = PgName(g[i + 1].name)
      <4> SUFFICES ASSUME NEW i \in 1..Len(t.saves)
                   PROVE  t.saves[i].name = PgName(g[i + 1].name)
        BY Zenon
      <4>1. CASE i = k
        BY <1>1, <1>2, <2>2, <3>2, <4>1
      <4>2. CASE i # k
        BY <1>1, <2>2, <3>2, <4>2 DEF Agrees
      <4> QED
        BY Zenon, <4>1, <4>2
    <3>4. Agrees(g, t)
        BY <2>2, <2>3, <3>2, <3>3 DEF Agrees, IsOpen
    <3> HIDE DEF g
    <3> QED
        BY Zenon, <2>1, <2>3, <3>1, <3>2, <3>4, AcceptedOutcome
  <2>6. CASE s.status = "INERROR"
    <3>1. PgRun(s, <<Cmd("SAVEPOINT", n)>>) = Fails(s)
        BY Zenon, <2>4, <2>6, PgSavepoint
    <3> HIDE DEF g
    <3> QED
        BY Zenon, <2>1, <2>3, <2>6, <3>1, RefusedOutcome
  <2> QED
    BY Zenon, <2>2, <2>5, <2>6 DEF Sess, Status
<1> QED
    BY Zenon, <1>3, <1>4

\* What ROLLBACK TO's plan leaves: frames and savepoints cut above the named
\* one.
LEMMA RollbackToOutcome ==
    ASSUME NEW f \in Seq(Frame), NEW s \in Sess, Shape(f), Agrees(f, s),
           NEW n \in Names
    PROVE  Outcome(f, s, PlanRollbackTo(f, n))
<1>1. CASE SavepointsNamed(f, n) = {}
    BY Zenon, <1>1, NoOpOutcome DEF PlanRollbackTo
<1>2. CASE SavepointsNamed(f, n) # {}
  <2> DEFINE p == RPosition(f, n)
             k == Latest(s, n)
             t == [s EXCEPT !.status = "INTRANS",
                            !.saves = Truncate(s.saves, k),
                            !.data = s.saves[k].data]
  <2>1. PlanRollbackTo(f, n) = Plan(<<Cmd("ROLLBACK TO", n)>>, Truncate(f, p))
    BY Zenon, <1>2 DEF PlanRollbackTo
  <2>2. Found(s, n) # {} /\ k = p - 1 /\ k \in 1..Len(s.saves) /\ p \in 1..Len(f)
    BY <1>2, SamePosition
  <2>3. s.status # "IDLE" /\ s.saves \in Seq(Save)
    BY <2>2 DEF Agrees, IsOpen, Sess
  <2>4. PgRun(s, <<Cmd("ROLLBACK TO", n)>>) = Result(TRUE, t)
    BY Zenon, <2>2, <2>3, RunOne, PgRollbackTo
  <2>5. Truncate(s.saves, k) \in Seq(Save) /\ s.saves[k] \in Save
    BY <2>2, <2>3 DEF Truncate
  <2>6. t \in Sess /\ t.status = "INTRANS" /\ t.disk = s.disk
        /\ t.saves = Truncate(s.saves, p - 1)
    BY Zenon, <2>2, <2>5 DEF Sess, Status, Save
  <2> HIDE DEF p, k, t
  <2> QED
    BY Zenon, <2>1, <2>2, <2>4, <2>6, CutTogether, AcceptedOutcome
<1> QED
    BY Zenon, <1>1, <1>2

\* What RELEASE's plan leaves: frames and savepoints cut below the named one,
\* or the end of the transaction it had begun.
LEMMA ReleaseOutcome ==
    ASSUME NEW f \in Seq(Frame), NEW s \in Sess, Shape(f), Agrees(f, s),
           NEW n \in Names
    PROVE  Outcome(f, s, PlanRelease(f, n))
<1>1. CASE SavepointsNamed(f, n) = {}
    BY Zenon, <1>1, NoOpOutcome DEF PlanRelease
<1>2. CASE SavepointsNamed(f, n) # {}
  <2> DEFINE p == RPosition(f, n)
             k == Latest(s, n)
             rest == Truncate(f, p - 1)
             t == [s EXCEPT !.saves = Truncate(s.saves, k - 1)]
  <2>1. Found(s, n) # {} /\ k = p - 1 /\ k \in 1..Len(s.saves)
        /\ p - 1 \in 1..Len(f) /\ k - 1 = (p - 1) - 1
    BY <1>2, SamePosition
  <2>2. s.status # "IDLE" /\ s.saves \in Seq(Save)
    BY <2>1 DEF Agrees, IsOpen, Sess
  <2>3. rest \in Seq(Frame) /\ Shape(rest)
    <3> HIDE DEF p, k
    <3>1. rest \in Seq(Frame) /\ Len(rest) = p - 1 /\ \A i \in 1..Len(rest) : rest[i] = f[i]
        BY <2>1 DEF Truncate
    <3>2. \A i \in 1..Len(rest) : i \in 1..Len(f)
        BY <2>1, <3>1
    <3> HIDE DEF rest
    <3> QED
        BY Zenon, <3>1, <3>2 DEF Shape
  <2>4. PgExec(s, Cmd("RELEASE", n)) =
            IF s.status = "INTRANS" THEN Result(TRUE, t) ELSE Fails(s)
    BY Zenon, <2>1, PgRelease
  <2>5. Truncate(s.saves, k - 1) \in Seq(Save)
    BY <2>1, <2>2 DEF Truncate
  <2>6. CASE s.status = "INTRANS"
    <3>1. t \in Sess /\ t.status = "INTRANS" /\ t.disk = s.disk
          /\ t.data = s.data /\ t.saves = Truncate(s.saves, (p - 1) - 1)
        BY Zenon, <2>1, <2>5, <2>6 DEF Sess
    <3>2. PgExec(s, Cmd("RELEASE", n)) = Result(TRUE, t)
        BY Zenon, <2>4, <2>6
    <3> HIDE DEF t, k
    <3>3. CASE rest # <<Outer(FALSE)>>
      <4>1. PlanRelease(f, n) = Plan(<<Cmd("RELEASE", n)>>, rest)
        BY Zenon, <1>2, <3>3 DEF PlanRelease
      <4>2. PgRun(s, <<Cmd("RELEASE", n)>>) = Result(TRUE, t)
        BY Zenon, <3>2, RunOne
      <4> QED
        BY Zenon, <2>1, <3>1, <4>1, <4>2, CutTogether, AcceptedOutcome
    <3>4. CASE rest = <<Outer(FALSE)>>
      <4> DEFINE release == Cmd("RELEASE", n)
                 commit == Stmt("COMMIT")
      <4>1. PlanRelease(f, n) = Plan(<<release, commit>>, <<>>)
        BY Zenon, <1>2, <3>4 DEF PlanRelease
      <4>2. PgExec(s, release).ok /\ PgExec(s, release).s = t
        BY <3>2 DEF Result
      <4>3. PgExec(t, commit) = Result(TRUE, Session("IDLE", <<>>, t.data, t.data))
        BY Zenon, <3>1 DEF PgExec, Stmt, Cmd
      <4> HIDE DEF release, commit
      <4>4. PgRun(s, <<release, commit>>) = PgExec(t, commit)
        BY <4>2, RunTwo
      <4>5. s.data \in SUBSET Writes
        BY Zenon DEF Sess
      <4>6. Session("IDLE", <<>>, s.data, s.data).disk = s.data
        BY Zenon DEF Session
      <4> QED
        BY Zenon, <3>1, <4>1, <4>3, <4>4, <4>5, <4>6, EndAgrees, AcceptedOutcome
    <3> QED
        BY Zenon, <3>3, <3>4
  <2>7. CASE s.status = "INERROR"
    <3> DEFINE release == Cmd("RELEASE", n)
               commit == Stmt("COMMIT")
    <3>1. PgExec(s, release) = Fails(s)
        BY Zenon, <2>4, <2>7
    <3>2. ~PgExec(s, release).ok
        BY Zenon, <2>7, <3>1, FailsInError
    <3>3. <<>> \in Seq(Frame) /\ Shape(<<>>)
        BY DEF Shape
    <3>4. \/ PlanRelease(f, n) = Plan(<<release>>, rest)
          \/ PlanRelease(f, n) = Plan(<<release, commit>>, <<>>)
        BY Zenon, <1>2 DEF PlanRelease
    <3> HIDE DEF release, commit
    <3>5. PgRun(s, <<release>>) = Fails(s)
        BY Zenon, <3>1, RunOne
    <3>6. PgRun(s, <<release, commit>>) = Fails(s)
        BY Zenon, <3>1, <3>2, RunStops
    <3> HIDE DEF rest
    <3> QED
        BY Zenon, <2>3, <2>7, <3>3, <3>4, <3>5, <3>6, RefusedOutcome
  <2> QED
    BY Zenon, <2>2, <2>6, <2>7 DEF Sess, Status
<1> QED
    BY Zenon, <1>1, <1>2

\* Whatever the command, its plan comes out as Outcome says.
LEMMA PlanOutcome ==
    ASSUME NEW f \in Seq(Frame), NEW s \in Sess, Shape(f), Agrees(f, s),
           NEW cmd \in TxnCmd
    PROVE  Outcome(f, s, plan(f, cmd))
<1>1. CASE cmd.op = "BEGIN"
    BY Zenon, <1>1, BeginOutcome DEF plan
<1>2. CASE cmd.op = "COMMIT"
    BY Zenon, <1>2, CommitOutcome DEF plan
<1>3. CASE cmd.op = "ROLLBACK"
    BY Zenon, <1>3, RollbackOutcome DEF plan
<1>4. CASE cmd.op = "SAVEPOINT"
  <2>1. cmd.name \in Names
    BY Zenon, <1>4 DEF TxnCmd
  <2> QED
    BY Zenon, <1>4, <2>1, SavepointOutcome DEF plan
<1>5. CASE cmd.op = "RELEASE"
  <2>1. cmd.name \in Names
    BY Zenon, <1>5 DEF TxnCmd
  <2> QED
    BY Zenon, <1>5, <2>1, ReleaseOutcome DEF plan
<1>6. CASE cmd.op = "ROLLBACK TO"
  <2>1. cmd.name \in Names
    BY Zenon, <1>6 DEF TxnCmd
  <2> QED
    BY Zenon, <1>6, <2>1, RollbackToOutcome DEF plan
<1> QED
    BY Zenon, <1>1, <1>2, <1>3, <1>4, <1>5, <1>6 DEF TxnCmd

\* The plans that can fail halfway: at most two statements, and which two.
LEMMA PlanShapes ==
    ASSUME NEW f \in Seq(Frame), NEW cmd \in TxnCmd
    PROVE  LET sql == plan(f, cmd).sql
           IN  \/ sql = <<>>
               \/ f # <<>> /\ \E c : sql = <<c>>
               \/ f = <<>> /\ sql = <<Stmt("BEGIN")>>
               \/ f = <<>> /\ \E n : sql = <<Stmt("BEGIN"), Cmd("SAVEPOINT", n)>>
               \/ LastIsNested(f) /\ sql = <<Cmd("ROLLBACK TO", LastName(f)),
                                             Cmd("RELEASE", LastName(f))>>
               \/ \E n : sql = <<Cmd("RELEASE", n), Stmt("COMMIT")>>
<1>0. \A n : SavepointsNamed(<<>>, n) = {}
    BY DEF SavepointsNamed
<1>1. CASE cmd.op = "BEGIN"
    BY Zenon, <1>1 DEF plan, PlanBegin, Plan
<1>2. CASE cmd.op = "COMMIT"
    BY Zenon, <1>2 DEF plan, PlanCommit, Plan
<1>3. CASE cmd.op = "ROLLBACK"
    BY Zenon, <1>3 DEF plan, PlanRollback, Plan
<1>4. CASE cmd.op = "SAVEPOINT"
    BY Zenon, <1>4 DEF plan, PlanSavepoint, Plan
<1>5. CASE cmd.op = "RELEASE"
    BY Zenon, <1>0, <1>5 DEF plan, PlanRelease, Plan
<1>6. CASE cmd.op = "ROLLBACK TO"
    BY Zenon, <1>0, <1>6 DEF plan, PlanRollbackTo, Plan
<1> QED
    BY Zenon, <1>1, <1>2, <1>3, <1>4, <1>5, <1>6 DEF TxnCmd

\* What was sent of a plan before its first or second statement.
LEMMA Sent ==
    ASSUME NEW c, NEW d
    PROVE  /\ Len(<<c>>) = 1 /\ Len(<<c, d>>) = 2
           /\ <<c>>[1] = c /\ <<c, d>>[1] = c /\ <<c, d>>[2] = d
           /\ Truncate(<<c>>, 1 - 1) = <<>> /\ Truncate(<<c, d>>, 1 - 1) = <<>>
           /\ Truncate(<<c, d>>, 2 - 1) = <<c>>
<1>1. Len(<<c>>) = 1 /\ Len(<<c, d>>) = 2
      /\ <<c>>[1] = c /\ <<c, d>>[1] = c /\ <<c, d>>[2] = d
    OBVIOUS
<1>2. 1 - 1 = 0 /\ 2 - 1 = 1 /\ 0 < 1 /\ 0 \in Int /\ 1 \in Int
    OBVIOUS
<1>3. Truncate(<<c>>, 1 - 1) = <<>> /\ Truncate(<<c, d>>, 1 - 1) = <<>>
    BY Zenon, <1>2, SubSeqEmpty DEF Truncate
<1>4. Truncate(<<c, d>>, 2 - 1) = <<c>>
  <2> DEFINE t == SubSeq(<<c, d>>, 1, 1)
  <2>1. \A i \in 1..1 : <<c, d>>[i] \in {c}
    BY <1>1
  <2>2. t \in Seq({c}) /\ Len(t) = 1
    BY <2>1, SubSeqProperties
  <2> HIDE DEF t
  <2>3. t[1] = c
    BY <2>2
  <2>4. <<c>> \in Seq({c}) /\ \A i \in 1..Len(t) : t[i] = <<c>>[i]
    BY <2>2, <2>3
  <2>5. t = <<c>>
    BY <1>1, <2>2, <2>4, SeqEqual
  <2> QED
    BY Zenon, <1>2, <2>5 DEF Truncate, t
<1> QED
    BY Zenon, <1>1, <1>3, <1>4

\* The statement the server refuses is the first it is sent.
LEMMA FirstRefused ==
    ASSUME NEW f, NEW s \in Sess, Known(f, s), NEW sql,
           Truncate(sql, 1 - 1) = <<>>
    PROVE  Refused(f, s, Refusal(s, sql, 1))
<1> DEFINE t == Fails(s).s
           u == Session("IDLE", <<>>, s.disk, s.disk)
<1>1. PgRun(s, Truncate(sql, 1 - 1)).s = s
    BY Zenon DEF PgRun, Result
<1>2. Refusal(s, sql, 1) = IF sql[1].op = "COMMIT" THEN u ELSE t
    BY Zenon, <1>1 DEF Refusal
<1>3. Refused(f, s, u)
  <2>1. u \in Sess /\ u.status = "IDLE" /\ u.saves = <<>> /\ u.data = s.disk /\ u.disk = s.disk
    BY Zenon, EndAgrees DEF Session, Sess
  <2> QED
    BY Zenon, <2>1 DEF Refused
<1>4. Refused(f, s, t)
  <2>1. t = [s EXCEPT !.status = IF @ = "IDLE" THEN "IDLE" ELSE "INERROR"]
    BY Zenon DEF Fails, Result
  <2>2. t \in Sess /\ (t.status = "IDLE" <=> s.status = "IDLE")
        /\ (s.status # "IDLE" => t.status = "INERROR")
        /\ t.saves = s.saves /\ t.data = s.data /\ t.disk = s.disk
    BY Zenon, <2>1 DEF Sess, Status
  <2> HIDE DEF t
  <2>3. s.status = "IDLE" => s.saves = <<>> /\ s.data = s.disk
    BY Zenon DEF Known, Agrees, Remnant
  <2>4. t.status # "IDLE" => Known(f, t)
    BY Zenon, <2>2 DEF Known, Agrees, Remnant
  <2> QED
    BY Zenon, <2>2, <2>3, <2>4 DEF Refused
<1> QED
    BY Zenon, <1>2, <1>3, <1>4

\* The SAVEPOINT that follows a BEGIN is refused: the transaction just begun
\* is left aborted, empty and unknown.
LEMMA SavepointRefused ==
    ASSUME NEW s \in Sess, Agrees(<<>>, s), NEW n
    PROVE  Refused(<<>>, s, Refusal(s, <<Stmt("BEGIN"), Cmd("SAVEPOINT", n)>>, 2))
<1> DEFINE t == [s EXCEPT !.status = "INTRANS"]
           u == [t EXCEPT !.status = "INERROR"]
           sql == <<Stmt("BEGIN"), Cmd("SAVEPOINT", n)>>
<1>1. s.status = "IDLE" /\ s.saves = <<>> /\ s.data = s.disk
    BY Zenon DEF Agrees, IsOpen
<1>2. PgRun(s, <<Stmt("BEGIN")>>) = Result(TRUE, t)
    BY Zenon, <1>1, RunOne, PgBegin
<1>3. t \in Sess /\ t.status = "INTRANS"
    BY Zenon DEF Sess, Status
<1>4. PgRun(s, <<Stmt("BEGIN")>>).s = t
  <2> HIDE DEF t
  <2> QED
    BY Zenon, <1>2, ResultIs
<1>5. u \in Sess /\ u.status = "INERROR" /\ u.saves = <<>> /\ u.data = u.disk
      /\ u.disk = s.disk
    BY Zenon, <1>1 DEF Sess, Status
<1>6. Fails(t).s = u
    BY Zenon, <1>3 DEF Fails, Result, Sess
<1>7. sql[2].op = "SAVEPOINT" /\ Truncate(sql, 2 - 1) = <<Stmt("BEGIN")>>
    BY Zenon, Sent DEF Cmd
<1> HIDE DEF t, u, sql
<1>8. Refusal(s, sql, 2) = u
    BY Zenon, <1>4, <1>6, <1>7 DEF Refusal
<1> QED
    BY Zenon, <1>5, <1>8 DEF Refused, Known, Remnant, IsOpen, sql

\* The RELEASE that follows the ROLLBACK TO of a nested BEGIN is refused: the
\* transaction is left aborted, with all its savepoints.
LEMMA NestedRefused ==
    ASSUME NEW f \in Seq(Frame), NEW s \in Sess, Shape(f), Agrees(f, s),
           LastIsNested(f)
    PROVE  Refused(f, s, Refusal(s, <<Cmd("ROLLBACK TO", LastName(f)),
                                      Cmd("RELEASE", LastName(f))>>, 2))
<1> DEFINE n == LastName(f)
           k == Latest(s, n)
           t == [s EXCEPT !.status = "INTRANS", !.saves = Truncate(s.saves, k),
                          !.data = s.saves[k].data]
           u == [t EXCEPT !.status = "INERROR"]
           sql == <<Cmd("ROLLBACK TO", n), Cmd("RELEASE", n)>>
<1>1. Found(s, n) # {} /\ k = Len(f) - 1 /\ Len(s.saves) = Len(f) - 1
      /\ Len(f) \in Nat /\ Len(f) > 1
    BY Zenon, NestedOnTop
<1>2. s.status # "IDLE" /\ s.saves \in Seq(Save)
    BY Zenon DEF Agrees, IsOpen, LastIsNested, Sess
<1>3. k \in 1..Len(s.saves) /\ Truncate(s.saves, k) = s.saves
    BY <1>1, <1>2 DEF Truncate
<1>4. s.saves[k].data \in SUBSET Writes
  <2>1. s.saves[k] \in Save
    BY <1>2, <1>3
  <2> QED
    BY Zenon, <2>1 DEF Save
<1>5. PgRun(s, <<Cmd("ROLLBACK TO", n)>>) = Result(TRUE, t)
    BY Zenon, <1>1, <1>2, RunOne, PgRollbackTo
<1>6. PgRun(s, <<Cmd("ROLLBACK TO", n)>>).s = t
  <2> HIDE DEF t
  <2> QED
    BY Zenon, <1>5, ResultIs
<1> HIDE DEF k
<1>7. t \in Sess /\ t.status = "INTRANS" /\ t.saves = s.saves /\ t.disk = s.disk
    BY Zenon, <1>2, <1>3, <1>4 DEF Sess, Status
<1> HIDE DEF t
<1>8. u \in Sess /\ u.status = "INERROR" /\ u.saves = s.saves /\ u.disk = s.disk
    BY Zenon, <1>7 DEF Sess, Status
<1>9. Fails(t).s = u
    BY Zenon, <1>7 DEF Fails, Result, Sess
<1>10. sql[2].op = "RELEASE" /\ Truncate(sql, 2 - 1) = <<Cmd("ROLLBACK TO", n)>>
    BY Zenon, Sent DEF Cmd
<1> HIDE DEF u, sql
<1>11. Refusal(s, sql, 2) = u
    BY Zenon, <1>6, <1>9, <1>10 DEF Refusal
<1>12. Agrees(f, u)
    BY Zenon, <1>2, <1>8 DEF Agrees, IsOpen
<1>13. Refused(f, s, u)
    BY Zenon, <1>8, <1>12 DEF Refused, Known
<1> QED
    BY Zenon, <1>11, <1>13 DEF sql

\* The COMMIT that follows the RELEASE of an outermost savepoint is refused:
\* all of it is rolled back.
LEMMA ReleaseRefused ==
    ASSUME NEW f, NEW s \in Sess, NEW n
    PROVE  Refused(f, s, Refusal(s, <<Cmd("RELEASE", n), Stmt("COMMIT")>>, 2))
<1> DEFINE sql == <<Cmd("RELEASE", n), Stmt("COMMIT")>>
           b == PgRun(s, <<Cmd("RELEASE", n)>>).s
           u == Session("IDLE", <<>>, s.disk, s.disk)
<1>1. b = PgExec(s, Cmd("RELEASE", n)).s
    BY Zenon, RunOne
<1>2. b.disk = s.disk
  <2>1. Fails(s).s.disk = s.disk
    BY Zenon DEF Fails, Result, Sess
  <2>2. Result(TRUE, [s EXCEPT !.saves = Truncate(s.saves, Latest(s, n) - 1)]).s.disk = s.disk
    BY Zenon DEF Result, Sess
  <2> QED
    BY Zenon, <1>1, <2>1, <2>2, PgRelease
<1>3. sql[2].op = "COMMIT" /\ Truncate(sql, 2 - 1) = <<Cmd("RELEASE", n)>>
    BY Zenon, Sent DEF Stmt, Cmd
<1> HIDE DEF sql, b
<1>4. Refusal(s, sql, 2) = u
    BY Zenon, <1>2, <1>3 DEF Refusal, b
<1>5. u \in Sess /\ u.status = "IDLE" /\ u.saves = <<>> /\ u.data = s.disk /\ u.disk = s.disk
    BY Zenon, EndAgrees DEF Session, Sess
<1> HIDE DEF u
<1> QED
    BY Zenon, <1>4, <1>5 DEF Refused, sql

\* Whatever statement of a plan the server refuses, after accepting those
\* before it, nothing is committed, and what the session has open is what the
\* frames say or an aborted remnant.
LEMMA RefusalOutcome ==
    ASSUME NEW f \in Seq(Frame), NEW s \in Sess, Shape(f), Known(f, s),
           NEW cmd \in TxnCmd, NEW k \in 1..Len(plan(f, cmd).sql),
           PgRun(s, Truncate(plan(f, cmd).sql, k - 1)).ok
    PROVE  Refused(f, s, Refusal(s, plan(f, cmd).sql, k))
<1> DEFINE sql == plan(f, cmd).sql
<1>0. Len(<<>>) = 0
    OBVIOUS
<1>1. CASE sql = <<>>
    BY <1>0, <1>1
<1>2. ASSUME NEW c, sql = <<c>> PROVE Refused(f, s, Refusal(s, sql, k))
  <2> HIDE DEF sql
  <2>1. k = 1
    BY <1>2, Sent DEF sql
  <2> QED
    BY Zenon, <1>2, <2>1, Sent, FirstRefused
<1>3. ASSUME NEW c, NEW d, sql = <<c, d>>
      PROVE  /\ k = 1 \/ k = 2
             /\ k = 1 => Refused(f, s, Refusal(s, sql, k))
             /\ k = 2 => PgRun(s, <<c>>).ok
  <2>1. k = 1 \/ k = 2
    BY <1>3, Sent
  <2>2. k = 1 => Refused(f, s, Refusal(s, sql, k))
    <3>1. Truncate(<<c, d>>, 1 - 1) = <<>>
        BY Zenon, Sent
    <3> HIDE DEF sql
    <3>2. Truncate(sql, 1 - 1) = <<>>
        BY Zenon, <1>3, <3>1
    <3> QED
        BY Zenon, <3>2, FirstRefused
  <2>3. k = 2 => PgRun(s, <<c>>).ok
    <3>1. Truncate(<<c, d>>, 2 - 1) = <<c>>
        BY Zenon, Sent
    <3>2. k = 2 => PgRun(s, Truncate(sql, 2 - 1)).ok
        BY Zenon
    <3> HIDE DEF sql
    <3> QED
        BY Zenon, <1>3, <3>1, <3>2
  <2> QED
    BY Zenon, <2>1, <2>2, <2>3
<1>4. ASSUME f = <<>>, NEW n, sql = <<Stmt("BEGIN"), Cmd("SAVEPOINT", n)>>
      PROVE  Refused(f, s, Refusal(s, sql, k))
  <2> HIDE DEF sql
  <2>1. CASE Agrees(f, s)
    BY Zenon, <1>3, <1>4, <2>1, SavepointRefused
  <2>2. CASE Remnant(s)
    <3>1. ~PgRun(s, <<Stmt("BEGIN")>>).ok
      <4>1. s.status = "INERROR"
        BY Zenon, <2>2 DEF Remnant
      <4>2. PgExec(s, Stmt("BEGIN")) = Fails(s)
        BY Zenon, <4>1 DEF PgExec, Stmt, Cmd
      <4>3. PgRun(s, <<Stmt("BEGIN")>>) = Fails(s)
        BY Zenon, <4>2, RunOne
      <4>4. Fails(s).ok = FALSE
        BY Zenon, <4>1, FailsInError
      <4> QED
        BY Zenon, <4>3, <4>4
    <3> QED
        BY Zenon, <1>3, <1>4, <3>1
  <2> QED
    BY Zenon, <2>1, <2>2 DEF Known
<1>5. ASSUME LastIsNested(f), sql = <<Cmd("ROLLBACK TO", LastName(f)),
                                      Cmd("RELEASE", LastName(f))>>
      PROVE  Refused(f, s, Refusal(s, sql, k))
  <2>1. Agrees(f, s)
    BY Zenon, <1>5 DEF Known, LastIsNested, IsOpen
  <2> HIDE DEF sql
  <2> QED
    BY Zenon, <1>3, <1>5, <2>1, NestedRefused
<1>6. ASSUME NEW n, sql = <<Cmd("RELEASE", n), Stmt("COMMIT")>>
      PROVE  Refused(f, s, Refusal(s, sql, k))
  <2> HIDE DEF sql
  <2> QED
    BY Zenon, <1>3, <1>6, ReleaseRefused
<1> QED
    BY Zenon, <1>1, <1>2, <1>4, <1>5, <1>6, PlanShapes

------------------------------------------------------------------------------
(* The invariant.                                                          *)

\* The session as a value, before and after a step.
LEMMA NowType ==
    ASSUME TypeOK
    PROVE  /\ Now \in Sess
           /\ Now.status = server.status /\ Now.saves = server.saves
           /\ Now.data = data /\ Now.disk = disk
    BY Zenon DEF TypeOK, Now, Session, Sess

\* The session after a step is what ServerIs was given.
LEMMA NowAfter ==
    ASSUME NEW s \in Sess, ServerIs(s)
    PROVE  /\ Now' = s
           /\ server' \in [status : Status, saves : Seq(Save)]
           /\ data' \in SUBSET Writes /\ disk' \in SUBSET Writes
<1>1. server' = [status |-> s.status, saves |-> s.saves]
      /\ data' = s.data /\ disk' = s.disk
    BY Zenon DEF ServerIs
<1>2. Session(s.status, s.saves, s.data, s.disk) = s
    BY Zenon DEF Session, Sess
<1>3. Now' = Session(server'.status, server'.saves, data', disk')
    BY Zenon DEF Now, Session
<1>4. Now' = s
    BY Zenon, <1>1, <1>2, <1>3
<1> QED
    BY Zenon, <1>1, <1>4 DEF Sess

\* A step that leaves the session, the frames and the pin as Outcome and run
\* leave them keeps the invariant.
LEMMA StepKeeps ==
    ASSUME NEW s \in Sess, ServerIs(s), frames' \in Seq(Frame), Shape(frames'),
           lost' \/ Known(frames', s), pin' \in BOOLEAN, pin' => IsOpen(frames'),
           lost' \in BOOLEAN, answer' \in Answered
    PROVE  IInv'
<1>1. Now' = s
    BY Zenon, NowAfter
<1>2. TypeOK'
    BY Zenon, NowAfter DEF TypeOK
<1>3. Mirror'
    BY Zenon, <1>1 DEF Mirror, Known, Agrees, Remnant, IsOpen, PgName
<1> QED
    BY Zenon, <1>2, <1>3 DEF IInv, Shape

\* An answer is always a command and a result.
LEMMA AnswerType ==
    ASSUME NEW cmd \in TxnCmd \cup {WriteCmd, Stmt("CLOSE")}, NEW ok \in BOOLEAN,
           Answer(cmd, ok)
    PROVE  answer' \in Answered
    BY Zenon DEF Answer, Answered

\* A session after a lost connection, or PQreset, is a session.
LEMMA FreshType ==
    ASSUME TypeOK
    PROVE  /\ Fresh \in Sess /\ Fresh.status = "IDLE" /\ Fresh.disk = disk
           /\ <<>> \in Seq(Frame) /\ Shape(<<>>)
           /\ Agrees(<<>>, Fresh)
<1>1. disk \in SUBSET Writes
    BY Zenon DEF TypeOK
<1>2. Fresh.status = "IDLE" /\ Fresh.disk = disk
    BY Zenon DEF Fresh, Session
<1> QED
    BY Zenon, <1>1, <1>2, EndAgrees DEF Fresh

\* After a session ended and its transaction was forgotten.
LEMMA ForgetKeeps ==
    ASSUME NEW s \in Sess, ServerIs(s), Forget, s.status = "IDLE",
           s.saves = <<>>, s.data = s.disk,
           lost' \in BOOLEAN, answer' \in Answered
    PROVE  IInv'
<1>1. frames' = <<>> /\ pin' = FALSE
    BY Zenon DEF Forget
<1>2. Agrees(<<>>, s)
    BY DEF Agrees, IsOpen
<1>3. <<>> \in Seq(Frame) /\ Shape(<<>>)
    BY DEF Shape
<1>4. pin' \in BOOLEAN /\ (pin' => IsOpen(frames'))
    BY Zenon, <1>1
<1>5. frames' \in Seq(Frame) /\ Shape(frames') /\ Known(frames', s)
    BY Zenon, <1>1, <1>2, <1>3 DEF Known
<1> QED
    BY Zenon, <1>4, <1>5, StepKeeps

\* A plan with no statements leaves the frames alone.
LEMMA EmptyPlan ==
    ASSUME NEW f \in Seq(Frame), NEW cmd \in TxnCmd, plan(f, cmd).sql = <<>>
    PROVE  plan(f, cmd).next = f
<1>1. CASE cmd.op = "BEGIN"
    BY Zenon, <1>1 DEF plan, PlanBegin, Plan
<1>2. CASE cmd.op = "COMMIT"
    BY Zenon, <1>2 DEF plan, PlanCommit, Plan
<1>3. CASE cmd.op = "ROLLBACK"
    BY Zenon, <1>3 DEF plan, PlanRollback, Plan
<1>4. CASE cmd.op = "SAVEPOINT"
    BY Zenon, <1>4 DEF plan, PlanSavepoint, Plan
<1>5. CASE cmd.op = "RELEASE"
    BY Zenon, <1>5 DEF plan, PlanRelease, Plan
<1>6. CASE cmd.op = "ROLLBACK TO"
    BY Zenon, <1>6 DEF plan, PlanRollbackTo, Plan
<1> QED
    BY Zenon, <1>1, <1>2, <1>3, <1>4, <1>5, <1>6 DEF TxnCmd

\* A remnant the registry does not know of refuses every plan, or is not
\* sent anything.
LEMMA RemnantRefuses ==
    ASSUME NEW s \in Sess, Remnant(s), NEW cmd \in TxnCmd
    PROVE  LET p == plan(<<>>, cmd)
               r == PgRun(s, p.sql)
           IN  /\ r.ok \in BOOLEAN /\ r.s = s
               /\ r.ok => p.next = <<>>
<1> DEFINE p == plan(<<>>, cmd)
           r == PgRun(s, p.sql)
<1>1. s.status = "INERROR"
    BY Zenon DEF Remnant
<1>2. PgExec(s, Stmt("BEGIN")) = Fails(s)
    BY Zenon, <1>1 DEF PgExec, Stmt, Cmd
<1>3. Fails(s).ok = FALSE /\ Fails(s).s = s
    BY Zenon, <1>1, FailsInError
<1>4. <<>> \in Seq(Frame)
    OBVIOUS
<1>5. ASSUME p.sql = <<>> PROVE r.ok = TRUE /\ r.s = s /\ p.next = <<>>
  <2>1. r = Result(TRUE, s)
    BY Zenon, <1>5 DEF PgRun
  <2>2. p.next = <<>>
    BY Zenon, <1>4, <1>5, EmptyPlan
  <2> HIDE DEF p, r
  <2>3. r.ok = TRUE /\ r.s = s
    BY Zenon, <2>1, ResultIs
  <2> QED
    BY Zenon, <2>2, <2>3
<1>6. ASSUME p.sql = <<Stmt("BEGIN")>> PROVE r.ok = FALSE /\ r.s = s
    BY Zenon, <1>2, <1>3, <1>6, RunOne
<1>7. ASSUME NEW n, p.sql = <<Stmt("BEGIN"), Cmd("SAVEPOINT", n)>>
      PROVE  r.ok = FALSE /\ r.s = s
    BY Zenon, <1>2, <1>3, <1>7, RunStops
<1>8. cmd.op \in {"COMMIT", "ROLLBACK", "RELEASE", "ROLLBACK TO"} => p.sql = <<>>
  <2>1. \A n : SavepointsNamed(<<>>, n) = {}
    BY DEF SavepointsNamed
  <2> QED
    BY Zenon, <2>1 DEF plan, PlanCommit, PlanRollback, PlanRelease, PlanRollbackTo, Plan
<1>9. cmd.op = "BEGIN" => p.sql = <<Stmt("BEGIN")>>
    BY Zenon DEF plan, PlanBegin, Plan
<1>10. cmd.op = "SAVEPOINT" => p.sql = <<Stmt("BEGIN"), Cmd("SAVEPOINT", cmd.name)>>
    BY Zenon DEF plan, PlanSavepoint, Plan
<1>11. cmd.op \in {"COMMIT", "ROLLBACK", "RELEASE", "ROLLBACK TO", "BEGIN", "SAVEPOINT"}
    BY Zenon DEF TxnCmd
<1> HIDE DEF p, r
<1>12. r.ok \in BOOLEAN /\ r.s = s /\ (r.ok => p.next = <<>>)
    BY Zenon, <1>5, <1>6, <1>7, <1>8, <1>9, <1>10, <1>11
<1> QED
    BY Zenon, <1>12 DEF p, r

\* A control command of Plex keeps the invariant: its plan comes out as
\* Outcome says, and run records exactly that.
LEMMA ControlKeeps ==
    ASSUME IInv, NEW cmd \in TxnCmd, Control(cmd)
    PROVE  IInv'
<1> DEFINE p == plan(frames, cmd)
           r == PgRun(Now, p.sql)
<1>1. ServerIs(r.s) /\ Answer(cmd, r.ok) /\ lost' = lost
      /\ (IF r.ok THEN RunDone(p.next) ELSE RunRefused(r.s))
      /\ (~lost \/ p.sql = <<>>)
    BY Zenon DEF Control
<1>2. Now \in Sess /\ frames \in Seq(Frame) /\ Shape(frames) /\ lost \in BOOLEAN
      /\ pin \in BOOLEAN /\ (pin => IsOpen(frames))
    BY Zenon, NowType DEF IInv, TypeOK, Mirror
<1>3. CASE ~lost /\ Agrees(frames, Now)
  <2>2. Outcome(frames, Now, p)
    BY Zenon, <1>2, <1>3, PlanOutcome
  <2>3. r.s \in Sess /\ r.ok \in BOOLEAN
    BY Zenon, <2>2 DEF Outcome
  <2>4. answer' \in Answered
    BY Zenon, <1>1, <2>3, AnswerType
  <2>5. CASE r.ok
    <3>1. frames' = p.next /\ pin' \in BOOLEAN /\ (pin' => IsOpen(p.next))
        BY Zenon, <1>1, <1>2, <2>5 DEF RunDone, IsOpen
    <3>2. p.next \in Seq(Frame) /\ Shape(p.next) /\ Known(p.next, r.s)
        BY Zenon, <2>2, <2>5 DEF Outcome, Known
    <3> HIDE DEF p, r
    <3>3. lost' \in BOOLEAN
        BY Zenon, <1>1, <1>2
    <3> QED
        BY Zenon, <1>1, <2>3, <2>4, <3>1, <3>2, <3>3, StepKeeps
  <2>6. CASE ~r.ok
    <3>1. r.s.status # "IDLE" /\ Known(frames, r.s)
        BY Zenon, <2>2, <2>6 DEF Outcome, Known
    <3>2. frames' = frames /\ pin' = pin
        BY Zenon, <1>1, <2>6, <3>1 DEF RunRefused
    <3> HIDE DEF p, r
    <3>4. lost' \in BOOLEAN /\ pin' \in BOOLEAN /\ (pin' => IsOpen(frames'))
        BY Zenon, <1>1, <1>2, <3>2
    <3> QED
        BY Zenon, <1>1, <1>2, <2>3, <2>4, <3>1, <3>2, <3>4, StepKeeps
  <2> QED
    BY Zenon, <2>5, <2>6
<1>4. CASE lost /\ p.sql = <<>>
  <2>1. r = Result(TRUE, Now)
    BY Zenon, <1>4 DEF PgRun
  <2>2. r.ok = TRUE /\ r.s = Now
    BY <2>1 DEF Result
  <2>3. p.next = frames
    BY Zenon, <1>2, <1>4, EmptyPlan
  <2>4. frames' = frames /\ pin' \in BOOLEAN /\ (pin' => IsOpen(frames))
    BY Zenon, <1>1, <1>2, <2>2, <2>3 DEF RunDone, IsOpen
  <2>5. answer' \in Answered
    BY Zenon, <1>1, <2>2, AnswerType
  <2>6. ServerIs(Now)
    BY Zenon, <1>1, <2>2
  <2> HIDE DEF p, r
  <2> QED
    BY Zenon, <1>1, <1>2, <1>4, <2>4, <2>5, <2>6, StepKeeps
<1>5. CASE ~lost /\ frames = <<>> /\ Remnant(Now)
  <2>1. r.ok \in BOOLEAN /\ r.s = Now /\ (r.ok => p.next = <<>>)
    BY Zenon, <1>2, <1>5, RemnantRefuses
  <2>2. answer' \in Answered
    BY Zenon, <1>1, <2>1, AnswerType
  <2>3. Now.status # "IDLE"
    BY Zenon, <1>5 DEF Remnant
  <2> HIDE DEF p, r
  <2>4. frames' = <<>> /\ pin' = FALSE
    <3>1. CASE r.ok
        BY Zenon, <1>1, <2>1, <3>1 DEF RunDone, IsOpen
    <3>2. CASE ~r.ok
        BY Zenon, <1>1, <1>2, <1>5, <2>1, <2>3, <3>2 DEF RunRefused, IsOpen
    <3> QED
        BY Zenon, <3>1, <3>2
  <2>5. Known(frames', Now) /\ frames' \in Seq(Frame) /\ Shape(frames')
    BY Zenon, <1>2, <1>5, <2>4 DEF Known, IsOpen
  <2> QED
    BY Zenon, <1>1, <1>2, <2>1, <2>2, <2>4, <2>5, StepKeeps
<1>6. lost \/ Agrees(frames, Now) \/ (frames = <<>> /\ Remnant(Now))
    BY Zenon DEF IInv, Mirror, IsOpen
<1> QED
    BY Zenon, <1>1, <1>3, <1>4, <1>5, <1>6

\* A control command the server refuses at one of its statements keeps the
\* invariant.
LEMMA RefusalKeeps ==
    ASSUME IInv, NEW cmd \in TxnCmd, ControlRefused(cmd)
    PROVE  IInv'
<1>1. PICK k \in 1..Len(plan(frames, cmd).sql) :
        /\ PgRun(Now, Truncate(plan(frames, cmd).sql, k - 1)).ok
        /\ ServerIs(Refusal(Now, plan(frames, cmd).sql, k))
        /\ RunRefused(Refusal(Now, plan(frames, cmd).sql, k))
    BY Zenon DEF ControlRefused
<1> DEFINE t == Refusal(Now, plan(frames, cmd).sql, k)
<1>2. Now \in Sess /\ frames \in Seq(Frame) /\ Shape(frames) /\ lost \in BOOLEAN
      /\ pin \in BOOLEAN /\ (pin => IsOpen(frames)) /\ ~lost
    BY Zenon, NowType DEF IInv, TypeOK, Mirror, ControlRefused
<1>3. Known(frames, Now)
    BY Zenon, <1>2 DEF IInv, Mirror, Known
<1>4. Refused(frames, Now, t)
    BY Zenon, <1>1, <1>2, <1>3, RefusalOutcome
<1>5. answer' \in Answered /\ lost' = lost
    BY Zenon, AnswerType DEF ControlRefused
<1>6. ServerIs(t) /\ RunRefused(t)
    BY Zenon, <1>1
<1> HIDE DEF t
<1>7. CASE t.status = "IDLE"
    BY Zenon, <1>2, <1>4, <1>5, <1>6, <1>7, ForgetKeeps DEF RunRefused, Refused
<1>8. CASE t.status # "IDLE"
  <2>1. frames' = frames /\ pin' = pin
    BY Zenon, <1>6, <1>8 DEF RunRefused
  <2>2. frames' \in Seq(Frame) /\ Shape(frames') /\ Known(frames', t)
        /\ pin' \in BOOLEAN /\ (pin' => IsOpen(frames')) /\ lost' \in BOOLEAN
        /\ t \in Sess
    BY Zenon, <1>2, <1>4, <1>5, <1>8, <2>1 DEF Refused
  <2> QED
    BY Zenon, <1>5, <1>6, <2>2, StepKeeps
<1> QED
    BY Zenon, <1>7, <1>8

\* The steps that end the session or meet a lost one.
LEMMA SessionEndKeeps ==
    ASSUME IInv
    PROVE  /\ \A cmd \in TxnCmd : ControlOnLost(cmd) => IInv'
           /\ \A cmd \in TxnCmd : ExecControlOnLost(cmd) => IInv'
           /\ \A w \in Writes : WriteOnLost(w) => IInv'
           /\ ReconnectFails => IInv'
           /\ CloseHandle => IInv'
           /\ CloseAway => IInv'
           /\ LoseConnection => IInv'
<1>1. /\ lost \in BOOLEAN /\ frames \in Seq(Frame) /\ Shape(frames)
      /\ disk \in SUBSET Writes /\ answer \in Answered /\ Now \in Sess
      /\ pin \in BOOLEAN /\ (pin => IsOpen(frames))
    BY Zenon, NowType DEF IInv, TypeOK, Mirror
<1>2. Fresh \in Sess /\ Fresh.status = "IDLE" /\ Agrees(<<>>, Fresh)
      /\ Fresh.saves = <<>> /\ Fresh.data = Fresh.disk
    BY Zenon, FreshType DEF IInv, Fresh, Session
<1>3. ASSUME CloseAway PROVE IInv'
  <2>1. pin' = FALSE /\ answer' \in Answered
        /\ UNCHANGED <<frames, server, data, disk, lost>>
    BY Zenon, <1>3, AnswerType DEF CloseAway
  <2>2. ServerIs(Now)
    BY Zenon, <1>1, <2>1, NowType DEF ServerIs, IInv, TypeOK
  <2>3. lost' \/ Known(frames', Now)
    BY Zenon, <2>1 DEF IInv, Mirror, Known
  <2>4. frames' \in Seq(Frame) /\ Shape(frames') /\ lost' \in BOOLEAN
    BY Zenon, <1>1, <2>1
  <2> QED
    BY Zenon, <1>1, <2>1, <2>2, <2>3, <2>4, StepKeeps
<1>4. ASSUME NEW cmd \in TxnCmd, ControlOnLost(cmd) PROVE IInv'
  <2>1. ServerIs(Fresh) /\ Forget /\ answer' \in Answered /\ lost' = FALSE
    BY Zenon, <1>4, AnswerType DEF ControlOnLost
  <2> QED
    BY Zenon, <1>1, <1>2, <2>1, ForgetKeeps
<1>5. ASSUME NEW cmd \in TxnCmd, ExecControlOnLost(cmd) PROVE IInv'
  <2> DEFINE p == plan(<<>>, cmd)
             r == PgRun(Fresh, p.sql)
  <2>1. ServerIs(r.s) /\ frames' = p.next /\ pin' = IsOpen(p.next)
        /\ lost' = FALSE /\ Answer(cmd, r.ok)
    BY Zenon, <1>5 DEF ExecControlOnLost
  <2>2. <<>> \in Seq(Frame) /\ Shape(<<>>)
    BY DEF Shape
  <2>3. Outcome(<<>>, Fresh, p)
    BY Zenon, <1>2, <2>2, PlanOutcome
  <2>4. r.ok \in BOOLEAN /\ r.s \in Sess /\ p.next \in Seq(Frame) /\ Shape(p.next)
    BY Zenon, <2>3 DEF Outcome
  <2>5. r.ok
    BY Zenon, <1>2, <2>3 DEF Outcome
  <2>6. Known(p.next, r.s)
    BY Zenon, <2>3, <2>5 DEF Outcome, Known
  <2>7. answer' \in Answered
    BY Zenon, <2>1, <2>4, AnswerType
  <2> HIDE DEF p, r
  <2>8. frames' = p.next /\ pin' \in BOOLEAN /\ (pin' => IsOpen(frames'))
    BY Zenon, <2>1 DEF IsOpen
  <2> QED
    BY Zenon, <2>1, <2>4, <2>6, <2>7, <2>8, StepKeeps
<1>6. ASSUME NEW w \in Writes, WriteOnLost(w) PROVE IInv'
  <2> DEFINE d == disk \cup {w}
             s == Session("IDLE", <<>>, d, d)
  <2>1. d \in SUBSET Writes
    BY Zenon, <1>1
  <2> HIDE DEF d
  <2>2. s \in Sess /\ s.status = "IDLE" /\ s.saves = <<>> /\ s.data = s.disk
    BY Zenon, <2>1, EndAgrees DEF Session
  <2>3. ServerIs(s) /\ Forget /\ lost' = FALSE /\ answer' \in Answered
    BY Zenon, <1>6, AnswerType DEF WriteOnLost, d
  <2> HIDE DEF s
  <2> QED
    BY Zenon, <2>2, <2>3, ForgetKeeps
<1>7. ASSUME ReconnectFails PROVE IInv'
  <2>1. Forget /\ answer' \in Answered /\ lost /\ lost' = lost
        /\ UNCHANGED <<server, data, disk>>
    BY Zenon, <1>7, AnswerType DEF ReconnectFails
  <2>2. ServerIs(Now)
    BY Zenon, <1>1, <2>1, NowType DEF ServerIs, IInv, TypeOK
  <2>3. frames' = <<>> /\ frames' \in Seq(Frame) /\ Shape(frames')
        /\ pin' = FALSE
    <3>1. frames' = <<>> /\ pin' = FALSE
        BY Zenon, <2>1 DEF Forget
    <3>2. <<>> \in Seq(Frame) /\ Shape(<<>>)
        BY DEF Shape
    <3> QED
        BY Zenon, <3>1, <3>2
  <2> QED
    BY Zenon, <1>1, <2>1, <2>2, <2>3, StepKeeps
<1>8. ASSUME CloseHandle PROVE IInv'
  <2>1. ServerIs(Fresh) /\ Forget /\ answer' \in Answered /\ lost' = lost
    BY Zenon, <1>8, AnswerType DEF CloseHandle
  <2> QED
    BY Zenon, <1>1, <1>2, <2>1, ForgetKeeps
<1>9. ASSUME LoseConnection PROVE IInv'
  <2>1. ServerIs(Fresh) /\ lost' /\ lost' \in BOOLEAN
        /\ UNCHANGED <<frames, pin, answer>>
    BY Zenon, <1>9 DEF LoseConnection
  <2>2. frames' \in Seq(Frame) /\ Shape(frames') /\ pin' \in BOOLEAN
        /\ (pin' => IsOpen(frames')) /\ answer' \in Answered
    BY Zenon, <1>1, <2>1
  <2> QED
    BY Zenon, <1>2, <2>1, <2>2, StepKeeps
<1> QED
    BY Zenon, <1>3, <1>4, <1>5, <1>6, <1>7, <1>8, <1>9

\* A data statement between transaction controls, accepted or refused by the
\* server, keeps the inductive invariant: it touches no frame.
LEMMA WriteKeeps ==
    ASSUME IInv
    PROVE  /\ \A w \in Writes : Write(w) => IInv'
           /\ WriteRefused => IInv'
<1>1. /\ lost \in BOOLEAN /\ frames \in Seq(Frame) /\ Shape(frames)
      /\ Now \in Sess /\ pin \in BOOLEAN /\ (pin => IsOpen(frames))
      /\ server \in [status : Status, saves : Seq(Save)]
      /\ data \in SUBSET Writes /\ disk \in SUBSET Writes
    BY Zenon, NowType DEF IInv, TypeOK, Mirror
<1>2. ASSUME NEW w \in Writes, Write(w) PROVE IInv'
  <2> DEFINE d == data \cup {w}
             e == IF server.status = "IDLE" THEN d ELSE disk
             s == Session(server.status, server.saves, d, e)
  <2>1. ~lost /\ lost' = lost /\ frames' = frames /\ pin' = pin /\ server' = server
        /\ data' = d /\ disk' = e /\ answer' \in Answered
    BY Zenon, <1>2, AnswerType DEF Write
  <2>2. d \in SUBSET Writes /\ e \in SUBSET Writes
    BY Zenon, <1>1
  <2>3. Agrees(frames, Now)
    BY Zenon, <1>2, <2>1, NowType DEF IInv, Mirror, Remnant, Write
  <2> HIDE DEF d
  <2>4. s \in Sess /\ s.status = server.status /\ s.saves = server.saves
        /\ s.data = d /\ s.disk = e
    BY Zenon, <1>1, <2>2 DEF Session, Sess
  <2>5. Now.status = server.status /\ Now.saves = server.saves
    BY Zenon, NowType DEF IInv
  <2> HIDE DEF s
  <2>6. Agrees(frames, s)
    BY Zenon, <2>3, <2>4, <2>5 DEF Agrees, IsOpen
  <2>7. ServerIs(s)
    BY Zenon, <1>1, <2>1, <2>4 DEF ServerIs
  <2>8. Known(frames', s)
    BY Zenon, <2>1, <2>6 DEF Known
  <2> QED
    BY Zenon, <1>1, <2>1, <2>4, <2>7, <2>8, StepKeeps
<1>3. ASSUME WriteRefused PROVE IInv'
  <2> DEFINE s == Fails(Now).s
  <2>1. ~lost /\ lost' = lost /\ frames' = frames /\ pin' = pin /\ ServerIs(s)
        /\ answer' \in Answered
    BY Zenon, <1>3, AnswerType DEF WriteRefused
  <2>2. Known(frames, Now)
    BY Zenon, <2>1 DEF IInv, Mirror, Known
  <2>3. s = [Now EXCEPT !.status = IF @ = "IDLE" THEN "IDLE" ELSE "INERROR"]
    BY Zenon DEF Fails, Result
  <2>4. s \in Sess /\ (s.status = "IDLE" <=> Now.status = "IDLE")
        /\ (Now.status # "IDLE" => s.status = "INERROR")
        /\ s.saves = Now.saves /\ s.data = Now.data /\ s.disk = Now.disk
    BY Zenon, <1>1, <2>3 DEF Sess, Status
  <2> HIDE DEF s
  <2>5. Known(frames', s)
    BY Zenon, <2>1, <2>2, <2>4 DEF Known, Agrees, Remnant, IsOpen
  <2> QED
    BY Zenon, <1>1, <2>1, <2>4, <2>5, StepKeeps
<1> QED
    BY Zenon, <1>2, <1>3

\* The invariant holds before the first command.
LEMMA InitHolds ==
    ASSUME Init
    PROVE  IInv
<1>1. TypeOK /\ Shape(frames)
  <2>1. answer = [cmd |-> Stmt("none"), ok |-> TRUE]
    BY Zenon DEF Init
  <2>2. answer \in Answered
    BY Zenon, <2>1 DEF Answered
  <2>3. server \in [status : Status, saves : Seq(Save)]
    BY DEF Init, Status
  <2>4. frames \in Seq(Frame) /\ frames = <<>> /\ Len(frames) = 0
    BY DEF Init
  <2>5. Shape(frames)
    BY <2>4 DEF Shape
  <2> QED
    BY Zenon, <2>2, <2>3, <2>4, <2>5 DEF Init, TypeOK
<1>2. Mirror
  <2>1. frames = <<>> /\ pin = FALSE /\ Now.saves = <<>> /\ Now.status = "IDLE"
        /\ Now.data = Now.disk
    BY Zenon DEF Init, Now, Session
  <2>2. Len(Now.saves) = 0
    BY <2>1
  <2>3. ~IsOpen(frames)
    BY Zenon, <2>1 DEF IsOpen
  <2>4. Agrees(frames, Now)
    BY <2>1, <2>2, <2>3 DEF Agrees
  <2> QED
    BY Zenon, <2>1, <2>4 DEF Mirror
<1> QED
    BY Zenon, <1>1, <1>2 DEF IInv

\* TypeOK, the shape of the frames and Mirror together are inductive: the
\* frames alone do not say what a plan will meet on the server, and Mirror
\* alone does not say which names the savepoints can have.
THEOREM Inductive == Spec => []IInv
<1>1. Init => IInv
    BY Zenon, InitHolds
<1>2. IInv /\ [Next]_vars => IInv'
  <2> SUFFICES ASSUME IInv, [Next]_vars PROVE IInv'
    BY Zenon
  <2>1. CASE Next
    BY Zenon, <2>1, ControlKeeps, RefusalKeeps, SessionEndKeeps, WriteKeeps DEF Next
  <2>2. CASE UNCHANGED vars
    BY Zenon, <2>2 DEF vars, IInv, TypeOK, Mirror, Agrees, Remnant, Now, Session,
                Shape, IsOpen, PgName
  <2> QED
    BY Zenon, <2>1, <2>2
<1> QED
    BY <1>1, <1>2, PTL DEF Spec

\* The frames the shim keeps for a connection and the savepoints PostgreSQL
\* has open on it describe the same transaction, through every sequence of
\* commands, refusals, lost connections and closed handles.
THEOREM MirrorHolds == Spec => [](TypeOK /\ Mirror)
<1>1. IInv => TypeOK /\ Mirror
    BY Zenon DEF IInv
<1> QED
    BY <1>1, Inductive, PTL

\* Every transaction-control command Plex can send is accepted by a session
\* that is up and not aborted: no plan makes PostgreSQL raise an error that
\* SQLite would not have raised.
THEOREM PlansAreAccepted == Spec => []PlanAccepted
<1>1. IInv => PlanAccepted
  <2> SUFFICES ASSUME IInv, ~lost, server.status # "INERROR",
                      NEW cmd \in TxnCmd
               PROVE  PgRun(Now, plan(frames, cmd).sql).ok
    BY Zenon DEF PlanAccepted
  <2>1. Now \in Sess /\ frames \in Seq(Frame) /\ Shape(frames)
        /\ Agrees(frames, Now) /\ Now.status # "INERROR"
    BY Zenon, NowType DEF IInv, TypeOK, Mirror, Remnant
  <2>2. Outcome(frames, Now, plan(frames, cmd))
    BY Zenon, <2>1, PlanOutcome
  <2> QED
    BY Zenon, <2>1, <2>2 DEF Outcome
<1> QED
    BY <1>1, Inductive, PTL

\* While no connection is lost, a step that changes the database under an
\* open transaction is the COMMIT of all the handle sees.
LEMMA StepIsAllOrNothing ==
    ASSUME IInv, ~lost, Next, IsOpen(frames), disk' # disk
    PROVE  disk' = data /\ ~IsOpen(frames')
<1>1. Now \in Sess /\ frames \in Seq(Frame) /\ Shape(frames)
      /\ Agrees(frames, Now) /\ Now.disk = disk /\ Now.data = data
    BY Zenon, NowType DEF IInv, TypeOK, Mirror, Now, Session
<1>2. ASSUME NEW cmd \in TxnCmd, Control(cmd)
      PROVE  disk' = data /\ ~IsOpen(frames')
  <2> DEFINE p == plan(frames, cmd)
             r == PgRun(Now, p.sql)
  <2>1. disk' = r.s.disk /\ (IF r.ok THEN RunDone(p.next) ELSE RunRefused(r.s))
    BY Zenon, <1>2 DEF Control, ServerIs
  <2>2. Outcome(frames, Now, p)
    BY Zenon, <1>1, PlanOutcome
  <2>3. r.ok /\ p.next = <<>> /\ r.s.disk = data
    BY Zenon, <1>1, <2>1, <2>2 DEF Outcome
  <2> QED
    BY Zenon, <2>1, <2>3 DEF RunDone, IsOpen
<1>3. server.status # "IDLE"
    BY Zenon, <1>1, NowType DEF IInv, Agrees
<1>4. Fresh.disk = disk /\ Fails(Now).s.disk = disk
    BY Zenon, <1>1 DEF Fresh, Session, Fails, Result, Sess
<1>5. \A cmd \in TxnCmd : ~ControlRefused(cmd)
  <2> SUFFICES ASSUME NEW cmd \in TxnCmd, ControlRefused(cmd) PROVE FALSE
    BY Zenon
  <2>1. PICK k \in 1..Len(plan(frames, cmd).sql) :
            /\ PgRun(Now, Truncate(plan(frames, cmd).sql, k - 1)).ok
            /\ ServerIs(Refusal(Now, plan(frames, cmd).sql, k))
    BY Zenon DEF ControlRefused
  <2>2. Refused(frames, Now, Refusal(Now, plan(frames, cmd).sql, k))
    BY Zenon, <1>1, <2>1, RefusalOutcome DEF Known
  <2> QED
    BY Zenon, <1>1, <2>1, <2>2 DEF Refused, ServerIs
<1>6. \A cmd \in TxnCmd : ~ControlOnLost(cmd) /\ ~ExecControlOnLost(cmd)
    BY Zenon DEF ControlOnLost, ExecControlOnLost
<1>7. \A w \in Writes : ~Write(w) /\ ~WriteOnLost(w)
    BY Zenon, <1>3 DEF Write, WriteOnLost
<1>8. ~WriteRefused /\ ~ReconnectFails /\ ~CloseHandle /\ ~CloseAway
      /\ ~LoseConnection
    BY Zenon, <1>4 DEF WriteRefused, ReconnectFails, CloseHandle, CloseAway,
        LoseConnection, ServerIs
<1> QED
    BY Zenon, <1>2, <1>5, <1>6, <1>7, <1>8 DEF Next

\* A transaction reaches the database whole or not at all, as long as no
\* connection is lost while it is open (run TxnLost shows that assumption is
\* needed): every refusal, nesting and close of the handle is covered.
THEOREM AtomicWithoutLoss ==
    ASSUME "lose" \notin Env
    PROVE  Spec => AllOrNothing
<1>1. Init => ~lost
    BY Zenon DEF Init
<1>2. ~lost /\ [Next]_vars => ~lost'
  <2> SUFFICES ASSUME ~lost, [Next]_vars PROVE ~lost'
    BY Zenon
  <2> QED
    BY Zenon DEF vars, Next, Control, ControlRefused, ControlOnLost,
           ExecControlOnLost, Write, WriteOnLost, WriteRefused, ReconnectFails,
           CloseHandle, CloseAway, LoseConnection
<1>3. IInv /\ ~lost /\ [Next]_vars =>
        [IsOpen(frames) /\ disk' # disk => disk' = data /\ ~IsOpen(frames')]_vars
  <2> SUFFICES ASSUME IInv, ~lost, Next, IsOpen(frames), disk' # disk
               PROVE  disk' = data /\ ~IsOpen(frames')
    BY Zenon DEF vars
  <2> QED
    BY Zenon, StepIsAllOrNothing
<1> QED
    BY <1>1, <1>2, <1>3, Inductive, PTL DEF Spec, AllOrNothing

------------------------------------------------------------------------------
(* The refinement: with a connection that is kept and a server that        *)
(* refuses nothing, Txn is SqliteTxn.                                      *)

\* The levels Plex has open, read off frames f and session s: Txn's mapping,
\* as a function of the two.
LevelOf(f, s, i) ==
    [kind |-> f[i].kind,
     name |-> IF f[i].kind = "Save" THEN f[i].name ELSE 0,
     data |-> IF i = 1 THEN s.disk ELSE s.saves[i - 1].data]

Levels(f, s) == [i \in 1..Len(f) |-> LevelOf(f, s, i)]

LevelType ==
    [kind : {"Begin", "Auto", "Nested", "Save"}, name : Names \cup {0},
     data : SUBSET Writes]

\* No named savepoint is opened inside a nested BEGIN.
Orderly(f) ==
    \A i, j \in 1..Len(f) : i < j /\ f[i].kind = "Nested" => f[j].kind = "Nested"

NestedOf(b) == {i \in 1..Len(b) : b[i].kind = "Nested"}

NamedOf(b, n) ==
    {i \in 1..Len(b) : b[i].kind = "Save" /\ Fold[b[i].name] = Fold[n]}

LastOf(S) == CHOOSE i \in S : \A j \in S : j <= i

\* Plan p, run on session s, is accepted and leaves levels b, with d seen and
\* k on disk.
Leaves(s, p, b, d, k) ==
    LET r == PgRun(s, p.sql)
    IN  /\ r.ok /\ r.s.status # "INERROR"
        /\ Levels(p.next, r.s) = b
        /\ r.s.data = d /\ r.s.disk = k
        /\ Orderly(p.next)

\* The levels are a sequence with one level for each frame.
LEMMA LevelsAre ==
    ASSUME NEW f \in Seq(Frame), NEW s \in Sess, Agrees(f, s)
    PROVE  /\ Levels(f, s) \in Seq(LevelType)
           /\ Len(Levels(f, s)) = Len(f)
           /\ \A i \in 1..Len(f) : Levels(f, s)[i] = LevelOf(f, s, i)
<1>1. Len(f) \in Nat
    OBVIOUS
<1>2. \A i \in 1..Len(f) : LevelOf(f, s, i) \in LevelType
  <2> SUFFICES ASSUME NEW i \in 1..Len(f) PROVE LevelOf(f, s, i) \in LevelType
    BY Zenon
  <2>1. f[i] \in Frame
    OBVIOUS
  <2>2. f[i].kind \in {"Begin", "Auto", "Nested", "Save"}
        /\ (f[i].kind = "Save" => f[i].name \in Names)
    BY Zenon, <2>1 DEF Frame
  <2>3. s.disk \in SUBSET Writes /\ s.saves \in Seq(Save)
    BY Zenon DEF Sess
  <2>4. i # 1 => i - 1 \in 1..Len(s.saves)
    BY <1>1, <2>3 DEF Agrees, IsOpen
  <2>5. i # 1 => s.saves[i - 1] \in Save
    BY <2>3, <2>4
  <2>6. i # 1 => s.saves[i - 1].data \in SUBSET Writes
    BY Zenon, <2>5 DEF Save
  <2> QED
    BY Zenon, <2>2, <2>3, <2>6 DEF LevelOf, LevelType
<1> HIDE DEF LevelOf
<1>3. Levels(f, s) \in [1..Len(f) -> LevelType]
    BY Zenon, <1>2 DEF Levels
<1>4. Levels(f, s) \in Seq(LevelType)
    BY <1>1, <1>3
<1>5. Len(Levels(f, s)) = Len(f)
    BY <1>1, <1>3, <1>4
<1>6. \A i \in 1..Len(f) : Levels(f, s)[i] = LevelOf(f, s, i)
    BY Zenon DEF Levels
<1> QED
    BY Zenon, <1>4, <1>5, <1>6

\* No frames, no levels.
LEMMA NoLevels ==
    ASSUME NEW s
    PROVE  Levels(<<>>, s) = <<>>
    BY DEF Levels

\* Cutting the frames, and the savepoints with them, cuts the levels.
LEMMA LevelsCut ==
    ASSUME NEW f \in Seq(Frame), NEW s \in Sess, Agrees(f, s),
           NEW t \in Sess, NEW m \in 1..Len(f), Agrees(Truncate(f, m), t),
           t.disk = s.disk, t.saves = Truncate(s.saves, m - 1)
    PROVE  Levels(Truncate(f, m), t) = SubSeq(Levels(f, s), 1, m)
<1> DEFINE g == Truncate(f, m)
           a == Levels(g, t)
           b == SubSeq(Levels(f, s), 1, m)
<1>1. g \in Seq(Frame) /\ Len(g) = m /\ \A i \in 1..m : g[i] = f[i]
    BY DEF Truncate
<1>2. Len(s.saves) = Len(f) - 1 /\ s.saves \in Seq(Save)
    BY DEF Agrees, IsOpen, Sess
<1>3. \A i \in 1..m - 1 : t.saves[i] = s.saves[i]
    BY <1>2 DEF Truncate
<1>4. \A i \in 1..m : LevelOf(g, t, i) = LevelOf(f, s, i)
  <2> SUFFICES ASSUME NEW i \in 1..m PROVE LevelOf(g, t, i) = LevelOf(f, s, i)
    BY Zenon
  <2>1. g[i] = f[i]
    BY Zenon, <1>1
  <2>2. i # 1 => t.saves[i - 1] = s.saves[i - 1]
    BY <1>3
  <2> QED
    BY Zenon, <2>1, <2>2 DEF LevelOf
<1> HIDE DEF g
<1>5. a \in Seq(LevelType) /\ Len(a) = m /\ \A i \in 1..m : a[i] = LevelOf(g, t, i)
    BY Zenon, <1>1, LevelsAre DEF g
<1>6. Levels(f, s) \in Seq(LevelType) /\ Len(Levels(f, s)) = Len(f)
      /\ \A i \in 1..Len(f) : Levels(f, s)[i] = LevelOf(f, s, i)
    BY Zenon, LevelsAre
<1> HIDE DEF LevelOf, Levels
<1>7. b \in Seq(LevelType) /\ Len(b) = m /\ \A i \in 1..m : b[i] = Levels(f, s)[i]
    BY <1>6
<1>8. \A i \in 1..m : a[i] = b[i]
    BY <1>4, <1>5, <1>6, <1>7
<1> HIDE DEF a, b
<1>9. a = b
    BY Zenon, <1>5, <1>7, <1>8, SeqEqual
<1> QED
    BY Zenon, <1>9 DEF a, b, g

\* One frame more, and a savepoint with it, is one level more.
LEMMA LevelsPush ==
    ASSUME NEW f \in Seq(Frame), NEW s \in Sess, Agrees(f, s), f # <<>>,
           NEW e \in Frame, NEW v \in Save, NEW t \in Sess,
           Agrees(Append(f, e), t),
           t.disk = s.disk, t.saves = Append(s.saves, v)
    PROVE  Levels(Append(f, e), t) =
              Append(Levels(f, s),
                     [kind |-> e.kind, name |-> IF e.kind = "Save" THEN e.name ELSE 0,
                      data |-> v.data])
<1> DEFINE g == Append(f, e)
           m == Len(f)
           l == [kind |-> e.kind, name |-> IF e.kind = "Save" THEN e.name ELSE 0,
                 data |-> v.data]
           a == Levels(g, t)
           b == Append(Levels(f, s), l)
<1>1. m \in Nat /\ m > 0 /\ g \in Seq(Frame) /\ Len(g) = m + 1
      /\ (\A i \in 1..m : g[i] = f[i]) /\ g[m + 1] = e
    OBVIOUS
<1>2. Len(s.saves) = m - 1 /\ s.saves \in Seq(Save)
    BY Zenon DEF Agrees, IsOpen, Sess
<1>3. (\A i \in 1..m - 1 : t.saves[i] = s.saves[i]) /\ t.saves[m] = v
    BY <1>1, <1>2
<1>4. \A i \in 1..m : LevelOf(g, t, i) = LevelOf(f, s, i)
  <2> SUFFICES ASSUME NEW i \in 1..m PROVE LevelOf(g, t, i) = LevelOf(f, s, i)
    BY Zenon
  <2>1. g[i] = f[i]
    BY Zenon, <1>1
  <2>2. i # 1 => i - 1 \in 1..m - 1
    BY <1>1
  <2>3. i # 1 => t.saves[i - 1] = s.saves[i - 1]
    BY Zenon, <1>3, <2>2
  <2> HIDE DEF g
  <2> QED
    BY Zenon, <2>1, <2>3 DEF LevelOf
<1> HIDE DEF g
<1>5. LevelOf(g, t, m + 1) = l
  <2>1. m + 1 # 1 /\ (m + 1) - 1 = m
    BY <1>1
  <2> HIDE DEF m
  <2> QED
    BY Zenon, <1>1, <1>3, <2>1 DEF LevelOf
<1>6. a \in Seq(LevelType) /\ Len(a) = m + 1
      /\ \A i \in 1..m + 1 : a[i] = LevelOf(g, t, i)
    BY Zenon, <1>1, LevelsAre DEF g
<1>7. Levels(f, s) \in Seq(LevelType) /\ Len(Levels(f, s)) = m
      /\ \A i \in 1..m : Levels(f, s)[i] = LevelOf(f, s, i)
    BY Zenon, LevelsAre
<1>8. l \in LevelType
    BY <1>1, <1>5, <1>6
<1> HIDE DEF LevelOf, Levels, l
<1>9. b \in Seq(LevelType) /\ Len(b) = m + 1 /\ b[m + 1] = l
      /\ \A i \in 1..m : b[i] = Levels(f, s)[i]
    BY <1>1, <1>7, <1>8
<1>10. \A i \in 1..m + 1 : a[i] = b[i]
  <2> SUFFICES ASSUME NEW i \in 1..m + 1 PROVE a[i] = b[i]
    BY Zenon
  <2>1. CASE i = m + 1
    BY Zenon, <1>1, <1>5, <1>6, <1>9, <2>1
  <2>2. CASE i \in 1..m
    BY Zenon, <1>4, <1>6, <1>7, <1>9, <2>2
  <2>3. i = m + 1 \/ i \in 1..m
    BY <1>1
  <2> QED
    BY Zenon, <2>1, <2>2, <2>3
<1> HIDE DEF a, b
<1>11. a = b
    BY Zenon, <1>6, <1>9, <1>10, SeqEqual
<1> QED
    BY Zenon, <1>11 DEF a, b, g, l

\* The topmost nested BEGIN, if there is one, is the topmost level.
LEMMA NestedTop ==
    ASSUME NEW f \in Seq(Frame), NEW s \in Sess, Agrees(f, s), Orderly(f)
    PROVE  /\ LastIsNested(f) => /\ NestedOf(Levels(f, s)) # {}
                                 /\ LastOf(NestedOf(Levels(f, s))) = Len(f)
           /\ ~LastIsNested(f) => NestedOf(Levels(f, s)) = {}
<1> DEFINE N == NestedOf(Levels(f, s))
<1>1. N = {i \in 1..Len(f) : f[i].kind = "Nested"}
  <2>1. ASSUME NEW i \in 1..Len(f) PROVE Levels(f, s)[i].kind = f[i].kind
    <3>1. Levels(f, s)[i] = LevelOf(f, s, i)
        BY Zenon, LevelsAre
    <3> QED
        BY <3>1 DEF LevelOf
  <2>2. Len(Levels(f, s)) = Len(f)
    BY Zenon, LevelsAre
  <2> QED
    BY Zenon, <2>1, <2>2 DEF NestedOf
<1>2. Len(f) \in Nat /\ N \subseteq 1..Len(f)
    BY Zenon, <1>1, LenProperties
<1> HIDE DEF N
<1>3. ASSUME LastIsNested(f) PROVE N # {} /\ LastOf(N) = Len(f)
  <2>1. Len(f) \in N
    BY <1>1, <1>2, <1>3 DEF LastIsNested
  <2>2. \A j \in N : j <= Len(f)
    BY <1>2
  <2>3. LastOf(N) \in N /\ \A j \in N : j <= LastOf(N)
    BY Zenon, <2>1, <2>2 DEF LastOf
  <2>4. LastOf(N) <= Len(f) /\ Len(f) <= LastOf(N) /\ LastOf(N) \in 1..Len(f)
    BY Zenon, <1>2, <2>1, <2>2, <2>3
  <2> QED
    BY <1>2, <2>1, <2>4
<1>4. ASSUME ~LastIsNested(f) PROVE N = {}
  <2> SUFFICES ASSUME NEW i \in N PROVE FALSE
    BY Zenon
  <2>1. i \in 1..Len(f) /\ f[i].kind = "Nested"
    BY Zenon, <1>1
  <2>2. f # <<>> /\ Len(f) \in 1..Len(f)
    BY <1>2, <2>1
  <2>3. f[Len(f)].kind = "Nested"
    BY <1>2, <2>1, <2>2 DEF Orderly
  <2> QED
    BY Zenon, <1>4, <2>2, <2>3 DEF LastIsNested
<1> QED
    BY Zenon, <1>3, <1>4 DEF N

\* The level a name finds is the frame it finds.
LEMMA NamedTop ==
    ASSUME NEW f \in Seq(Frame), NEW s \in Sess, Agrees(f, s), NEW n \in Names
    PROVE  /\ NamedOf(Levels(f, s), n) = SavepointsNamed(f, n)
           /\ LastOf(NamedOf(Levels(f, s), n)) = RPosition(f, n)
<1>1. Len(Levels(f, s)) = Len(f)
    BY Zenon, LevelsAre
<1>2. \A i \in 1..Len(f) :
            (Levels(f, s)[i].kind = "Save" /\ Fold[Levels(f, s)[i].name] = Fold[n])
                <=> (f[i].kind = "Save" /\ f[i].name = n)
  <2> SUFFICES ASSUME NEW i \in 1..Len(f)
               PROVE  (Levels(f, s)[i].kind = "Save" /\ Fold[Levels(f, s)[i].name] = Fold[n])
                          <=> (f[i].kind = "Save" /\ f[i].name = n)
    BY Zenon
  <2>1. Levels(f, s)[i].kind = f[i].kind
        /\ (f[i].kind = "Save" => Levels(f, s)[i].name = f[i].name)
    <3>1. Levels(f, s)[i] = LevelOf(f, s, i)
        BY Zenon, LevelsAre
    <3> QED
        BY <3>1 DEF LevelOf
  <2>2. f[i].kind = "Save" => f[i].name \in Names
    <3>1. f[i] \in Frame
        OBVIOUS
    <3> QED
        BY Zenon, <3>1 DEF Frame
  <2>3. \A m \in Names : Fold[m] = Fold[n] <=> m = n
    BY Zenon, FoldAssumption
  <2> QED
    BY Zenon, <2>1, <2>2, <2>3
<1>3. NamedOf(Levels(f, s), n) = SavepointsNamed(f, n)
    BY Zenon, <1>1, <1>2 DEF NamedOf, SavepointsNamed
<1> QED
    BY Zenon, <1>3 DEF LastOf, RPosition

\* A plan whose statements are all accepted.
LEMMA AcceptedLeaves ==
    ASSUME NEW s, NEW sql, NEW g, NEW t,
           PgRun(s, sql) = Result(TRUE, t), t.status # "INERROR", Orderly(g)
    PROVE  Leaves(s, Plan(sql, g), Levels(g, t), t.data, t.disk)
<1>1. Plan(sql, g).sql = sql /\ Plan(sql, g).next = g
    BY Zenon DEF Plan
<1>2. Result(TRUE, t).ok = TRUE /\ Result(TRUE, t).s = t
    BY Zenon DEF Result
<1> QED
    BY <1>1, <1>2, Zenon DEF Leaves

\* Ending the transaction leaves no level.
LEMMA EndLeaves ==
    ASSUME NEW s, NEW sql, NEW d,
           PgRun(s, sql) = Result(TRUE, Session("IDLE", <<>>, d, d))
    PROVE  Leaves(s, Plan(sql, <<>>), <<>>, d, d)
<1> DEFINE t == Session("IDLE", <<>>, d, d)
<1>1. t.status # "INERROR" /\ t.data = d /\ t.disk = d
    BY Zenon DEF Session
<1>2. Orderly(<<>>)
    BY DEF Orderly
<1> HIDE DEF t
<1> QED
    BY Zenon, <1>1, <1>2, AcceptedLeaves, NoLevels DEF t

\* A plan of no statements leaves everything.
LEMMA NothingLeaves ==
    ASSUME NEW f, NEW s, s.status # "INERROR", Orderly(f)
    PROVE  Leaves(s, Plan(<<>>, f), Levels(f, s), s.data, s.disk)
<1>1. PgRun(s, <<>>) = Result(TRUE, s)
    BY Zenon DEF PgRun
<1> QED
    BY Zenon, <1>1, AcceptedLeaves

\* Cut frames are orderly.
LEMMA CutOrderly ==
    ASSUME NEW f \in Seq(Frame), Orderly(f), NEW m \in 0..Len(f)
    PROVE  Orderly(Truncate(f, m))
    BY DEF Orderly, Truncate

\* BEGIN is SqliteTxn's Begin.
LEMMA BeginLeaves ==
    ASSUME NEW f \in Seq(Frame), NEW s \in Sess, Shape(f), Agrees(f, s),
           Orderly(f), s.status # "INERROR"
    PROVE  Leaves(s, PlanBegin(f),
                  Append(Levels(f, s),
                         [kind |-> IF f # <<>> THEN "Nested" ELSE "Begin",
                          name |-> 0, data |-> s.data]),
                  s.data, s.disk)
<1>0. Outcome(f, s, PlanBegin(f))
    BY Zenon, BeginOutcome
<1>1. CASE f = <<>>
  <2> DEFINE t == [s EXCEPT !.status = "INTRANS"]
             l == [kind |-> "Begin", name |-> 0, data |-> s.data]
  <2>1. PlanBegin(f) = Plan(<<Stmt("BEGIN")>>, <<Outer(TRUE)>>)
    BY Zenon, <1>1 DEF PlanBegin
  <2>2. s.status = "IDLE" /\ s.data = s.disk
    BY Zenon, <1>1 DEF Agrees, IsOpen, Sess, Status
  <2>3. PgRun(s, <<Stmt("BEGIN")>>) = Result(TRUE, t)
    BY Zenon, <2>2, RunOne, PgBegin
  <2>4. t.status = "INTRANS" /\ t.data = s.data /\ t.disk = s.data
    BY Zenon, <2>2 DEF Sess
  <2> HIDE DEF t
  <2>5. LevelOf(<<Outer(TRUE)>>, t, 1) = l
    BY Zenon, <2>4 DEF LevelOf, Outer
  <2>6. Levels(<<Outer(TRUE)>>, t) = <<l>>
    <3> HIDE DEF l, Outer, LevelOf
    <3>1. 1..Len(<<Outer(TRUE)>>) = {1}
        OBVIOUS
    <3>2. Levels(<<Outer(TRUE)>>, t) = [i \in {1} |-> LevelOf(<<Outer(TRUE)>>, t, i)]
        BY Zenon, <3>1 DEF Levels
    <3>3. [i \in {1} |-> LevelOf(<<Outer(TRUE)>>, t, i)] = [i \in {1} |-> l]
        BY Zenon, <2>5
    <3>4. [i \in {1} |-> l] = <<l>>
        OBVIOUS
    <3> QED
        BY Zenon, <3>2, <3>3, <3>4
  <2>7. Append(Levels(f, s), l) = <<l>>
    <3> HIDE DEF l
    <3>1. Append(<<>>, l) = <<l>>
        OBVIOUS
    <3> QED
        BY Zenon, <1>1, <3>1, NoLevels
  <2>8. Orderly(<<Outer(TRUE)>>)
    BY DEF Orderly
  <2> QED
    BY Zenon, <1>1, <2>1, <2>2, <2>3, <2>4, <2>6, <2>7, <2>8, AcceptedLeaves
<1>2. CASE f # <<>>
  <2> DEFINE k == Len(f)
             e == NestedBegin(k)
             g == Append(f, e)
             v == [name |-> -k, data |-> s.data]
             t == [s EXCEPT !.saves = Append(s.saves, v)]
             sql == <<Cmd("SAVEPOINT", -k)>>
  <2>1. PlanBegin(f) = Plan(sql, g)
    BY Zenon, <1>2 DEF PlanBegin
  <2>2. k \in Nat /\ k > 0 /\ e \in Frame /\ PgName(-k) = -k /\ e.kind = "Nested"
    BY <1>2, NamesAssumption DEF NestedBegin, Frame, PgName
  <2>3. s.status = "INTRANS" /\ s.saves \in Seq(Save)
    BY Zenon, <1>2 DEF Agrees, IsOpen, Sess, Status
  <2>4. PgRun(s, sql) = Result(TRUE, t)
    BY Zenon, <2>2, <2>3, RunOne, PgSavepoint
  <2>5. v \in Save /\ v.data = s.data
    BY <2>2 DEF Save, Sess
  <2>6. t.saves = Append(s.saves, v) /\ t.status = "INTRANS" /\ t.disk = s.disk
        /\ t.data = s.data
    BY Zenon, <2>3 DEF Sess
  <2> HIDE DEF e, v, t
  <2>7. t \in Sess /\ Agrees(g, t)
    <3>1. Plan(sql, g).sql = sql /\ Plan(sql, g).next = g
        BY Zenon DEF Plan
    <3>2. Result(TRUE, t).ok = TRUE /\ Result(TRUE, t).s = t
        BY Zenon DEF Result
    <3> HIDE DEF sql, g
    <3> QED
        BY Zenon, <1>0, <2>1, <2>4, <3>1, <3>2 DEF Outcome
  <2>8. Levels(g, t) = Append(Levels(f, s), [kind |-> "Nested", name |-> 0, data |-> s.data])
    <3>1. e.kind # "Save"
        BY Zenon, <2>2
    <3>2. Levels(g, t) =
              Append(Levels(f, s),
                     [kind |-> e.kind, name |-> IF e.kind = "Save" THEN e.name ELSE 0,
                      data |-> v.data])
        BY Zenon, <1>2, <2>2, <2>5, <2>6, <2>7, LevelsPush
    <3> HIDE DEF g
    <3> QED
        BY Zenon, <2>2, <2>5, <3>1, <3>2
  <2>9. Orderly(g)
    BY <2>2 DEF Orderly
  <2>10. t.status # "INERROR"
    BY Zenon, <2>6
  <2> HIDE DEF g, sql
  <2> QED
    BY Zenon, <1>2, <2>1, <2>4, <2>6, <2>8, <2>9, <2>10, AcceptedLeaves
<1> QED
    BY Zenon, <1>1, <1>2

\* Frames and savepoints cut to m and m - 1 leave the lower m levels.
LEMMA CutLeaves ==
    ASSUME NEW f \in Seq(Frame), NEW s \in Sess, Shape(f), Agrees(f, s), Orderly(f),
           NEW m \in 1..Len(f), NEW t \in Sess, NEW sql,
           PgRun(s, sql) = Result(TRUE, t),
           t.status = "INTRANS", t.disk = s.disk, t.saves = Truncate(s.saves, m - 1)
    PROVE  Leaves(s, Plan(sql, Truncate(f, m)), SubSeq(Levels(f, s), 1, m),
                  t.data, s.disk)
<1>1. Agrees(Truncate(f, m), t)
    BY Zenon, CutTogether
<1>2. Levels(Truncate(f, m), t) = SubSeq(Levels(f, s), 1, m)
    BY Zenon, <1>1, LevelsCut
<1>3. Orderly(Truncate(f, m))
    BY CutOrderly
<1>4. t.status # "INERROR"
    BY Zenon
<1> QED
    BY Zenon, <1>2, <1>3, <1>4, AcceptedLeaves

\* COMMIT is SqliteTxn's Commit.
LEMMA CommitLeaves ==
    ASSUME NEW f \in Seq(Frame), NEW s \in Sess, Shape(f), Agrees(f, s),
           Orderly(f), s.status # "INERROR"
    PROVE  LET N == NestedOf(Levels(f, s))
           IN  IF N # {}
               THEN Leaves(s, PlanCommit(f), SubSeq(Levels(f, s), 1, LastOf(N) - 1),
                           s.data, s.disk)
               ELSE Leaves(s, PlanCommit(f), <<>>, s.data, s.data)
<1>1. CASE f = <<>>
  <2>1. NestedOf(Levels(f, s)) = {}
    BY Zenon, <1>1, NestedTop DEF LastIsNested
  <2>2. Levels(f, s) = <<>> /\ PlanCommit(f) = Plan(<<>>, f) /\ s.data = s.disk
    BY Zenon, <1>1, NoLevels DEF PlanCommit, Agrees, IsOpen
  <2> QED
    BY Zenon, <2>1, <2>2, NothingLeaves
<1>2. CASE f # <<>> /\ LastIsNested(f)
  <2> DEFINE n == LastName(f)
             m == Len(f) - 1
             t == [s EXCEPT !.saves = Truncate(s.saves, m - 1)]
             sql == <<Cmd("RELEASE", n)>>
  <2>1. PlanCommit(f) = Plan(sql, Truncate(f, m))
    BY Zenon, <1>2 DEF PlanCommit
  <2>2. m \in 1..Len(f) /\ Found(s, n) # {} /\ Latest(s, n) = m
        /\ m - 1 \in 0..Len(s.saves) /\ s.saves \in Seq(Save)
    BY <1>2, NestedOnTop DEF Sess, Agrees, IsOpen
  <2>3. s.status = "INTRANS"
    BY Zenon, <1>2 DEF Agrees, IsOpen, Sess, Status
  <2>4. PgRun(s, sql) = Result(TRUE, t)
    BY Zenon, <2>2, <2>3, RunOne, PgRelease
  <2>5. Truncate(s.saves, m - 1) \in Seq(Save)
    BY <2>2 DEF Truncate
  <2>6. t \in Sess /\ t.status = "INTRANS" /\ t.disk = s.disk /\ t.data = s.data
        /\ t.saves = Truncate(s.saves, m - 1)
    BY Zenon, <2>3, <2>5 DEF Sess
  <2>7. NestedOf(Levels(f, s)) # {} /\ LastOf(NestedOf(Levels(f, s))) - 1 = m
    BY Zenon, <1>2, NestedTop
  <2> HIDE DEF m, t, sql
  <2>8. Leaves(s, PlanCommit(f), SubSeq(Levels(f, s), 1, m), s.data, s.disk)
    BY Zenon, <2>1, <2>2, <2>4, <2>6, CutLeaves
  <2> QED
    BY Zenon, <2>7, <2>8
<1>3. CASE f # <<>> /\ ~LastIsNested(f)
  <2>1. PlanCommit(f) = Plan(<<Stmt("COMMIT")>>, <<>>)
    BY Zenon, <1>3 DEF PlanCommit
  <2>2. PgExec(s, Stmt("COMMIT")) = Result(TRUE, Session("IDLE", <<>>, s.data, s.data))
    BY Zenon DEF PgExec, Stmt, Cmd
  <2>3. NestedOf(Levels(f, s)) = {}
    BY Zenon, <1>3, NestedTop
  <2> QED
    BY Zenon, <2>1, <2>2, <2>3, RunOne, EndLeaves
<1> QED
    BY Zenon, <1>1, <1>2, <1>3

\* ROLLBACK is SqliteTxn's Rollback.
LEMMA RollbackLeaves ==
    ASSUME NEW f \in Seq(Frame), NEW s \in Sess, Shape(f), Agrees(f, s),
           Orderly(f), s.status # "INERROR"
    PROVE  LET N == NestedOf(Levels(f, s))
           IN  IF N # {}
               THEN Leaves(s, PlanRollback(f), SubSeq(Levels(f, s), 1, LastOf(N) - 1),
                           Levels(f, s)[LastOf(N)].data, s.disk)
               ELSE Leaves(s, PlanRollback(f), <<>>, s.disk, s.disk)
<1>1. CASE f = <<>>
  <2>1. NestedOf(Levels(f, s)) = {}
    BY Zenon, <1>1, NestedTop DEF LastIsNested
  <2>2. Levels(f, s) = <<>> /\ PlanRollback(f) = Plan(<<>>, f) /\ s.data = s.disk
    BY Zenon, <1>1, NoLevels DEF PlanRollback, Agrees, IsOpen
  <2> QED
    BY Zenon, <2>1, <2>2, NothingLeaves
<1>2. CASE f # <<>> /\ LastIsNested(f)
  <2> DEFINE n == LastName(f)
             back == Cmd("ROLLBACK TO", n)
             release == Cmd("RELEASE", n)
             k == Len(f) - 1
             t == [s EXCEPT !.status = "INTRANS",
                            !.saves = Truncate(s.saves, k),
                            !.data = s.saves[k].data]
             u == [t EXCEPT !.saves = Truncate(t.saves, k - 1)]
  <2>1. PlanRollback(f) = Plan(<<back, release>>, Truncate(f, k))
    BY Zenon, <1>2 DEF PlanRollback
  <2>2. k \in 1..Len(f) /\ Found(s, n) # {} /\ Latest(s, n) = k
        /\ k \in 1..Len(s.saves) /\ k = Len(s.saves)
        /\ s.saves \in Seq(Save) /\ s.status # "IDLE" /\ k \in Nat
    BY <1>2, NestedOnTop DEF Sess, Agrees, IsOpen
  <2>3. PgExec(s, back).ok /\ PgExec(s, back).s = t
    <3>1. PgExec(s, back) = Result(TRUE, t)
        BY Zenon, <2>2, PgRollbackTo
    <3> HIDE DEF back, t
    <3> QED
        BY <3>1 DEF Result
  <2>4. Truncate(s.saves, k) = s.saves /\ s.saves[k] \in Save
    BY <2>2, SubSeqFull DEF Truncate
  <2>5. t \in Sess /\ t.status = "INTRANS" /\ t.saves = s.saves /\ t.disk = s.disk
        /\ t.data = s.saves[k].data
    BY Zenon, <2>4 DEF Sess, Status, Save
  <2>6. Found(t, n) = Found(s, n) /\ Latest(t, n) = k
    BY Zenon, <2>2, <2>5 DEF Found, Latest
  <2> HIDE DEF n, t
  <2>7. PgExec(t, release) = Result(TRUE, u)
    BY Zenon, <2>2, <2>5, <2>6, PgRelease
  <2>8. PgRun(s, <<back, release>>) = Result(TRUE, u)
    <3> HIDE DEF u, k, back, release
    <3>1. PgRun(s, <<back, release>>) = PgExec(t, release)
        BY <2>3, RunTwo
    <3> QED
        BY Zenon, <2>7, <3>1
  <2>9. Truncate(t.saves, k - 1) \in Seq(Save)
    BY <2>2, <2>5 DEF Truncate
  <2>10. u \in Sess /\ u.status = "INTRANS" /\ u.disk = s.disk
         /\ u.saves = Truncate(s.saves, k - 1) /\ u.data = s.saves[k].data
    BY Zenon, <2>5, <2>9 DEF Sess
  <2>11. NestedOf(Levels(f, s)) # {} /\ LastOf(NestedOf(Levels(f, s))) = Len(f)
         /\ LastOf(NestedOf(Levels(f, s))) - 1 = k
    BY Zenon, <1>2, NestedTop
  <2>12. Levels(f, s)[Len(f)].data = s.saves[k].data
    <3>1. Len(f) \in 1..Len(f) /\ Len(f) # 1
        BY <2>2
    <3>2. Levels(f, s)[Len(f)] = LevelOf(f, s, Len(f))
        BY Zenon, <3>1, LevelsAre
    <3> QED
        BY <3>1, <3>2 DEF LevelOf
  <2> HIDE DEF u, k, back, release
  <2>13. Leaves(s, PlanRollback(f), SubSeq(Levels(f, s), 1, k), s.saves[k].data, s.disk)
    BY Zenon, <2>1, <2>2, <2>8, <2>10, CutLeaves
  <2> QED
    BY Zenon, <2>11, <2>12, <2>13
<1>3. CASE f # <<>> /\ ~LastIsNested(f)
  <2>1. PlanRollback(f) = Plan(<<Stmt("ROLLBACK")>>, <<>>)
    BY Zenon, <1>3 DEF PlanRollback
  <2>2. NestedOf(Levels(f, s)) = {}
    BY Zenon, <1>3, NestedTop
  <2> QED
    BY Zenon, <2>1, <2>2, RunOne, PgRollback, EndLeaves
<1> QED
    BY Zenon, <1>1, <1>2, <1>3

\* Two levels, one after the other.
LEMMA PairIsConcat ==
    ASSUME NEW S, NEW a \in S, NEW b \in S
    PROVE  <<a>> \o <<b>> = <<a, b>>
<1>1. <<a>> \in Seq(S)
    OBVIOUS
<1>2. Append(<<a>>, b) = <<a>> \o <<b>>
    BY Zenon, <1>1, AppendIsConcat
<1>3. Append(<<a>>, b) = <<a, b>>
  <2>1. Append(<<a>>, b) \in Seq(S) /\ Len(Append(<<a>>, b)) = 2
        /\ Append(<<a>>, b)[1] = a /\ Append(<<a>>, b)[2] = b
    BY <1>1, AppendProperties
  <2>2. <<a, b>> \in Seq(S) /\ Len(<<a, b>>) = 2 /\ <<a, b>>[1] = a /\ <<a, b>>[2] = b
    OBVIOUS
  <2>3. \A i \in 1..2 : i = 1 \/ i = 2
    OBVIOUS
  <2>4. \A i \in 1..2 : Append(<<a>>, b)[i] = <<a, b>>[i]
    BY Zenon, <2>1, <2>2, <2>3
  <2> QED
    BY Zenon, <2>1, <2>2, <2>4, SeqEqual
<1> QED
    BY Zenon, <1>2, <1>3

\* SAVEPOINT is SqliteTxn's Savepoint.
LEMMA SavepointLeaves ==
    ASSUME NEW f \in Seq(Frame), NEW s \in Sess, Shape(f), Agrees(f, s),
           Orderly(f), s.status # "INERROR", NEW n \in Names,
           \A i \in 1..Len(f) : f[i].kind # "Nested"
    PROVE  Leaves(s, PlanSavepoint(f, n),
                  (IF f # <<>> THEN Levels(f, s)
                   ELSE <<[kind |-> "Auto", name |-> 0, data |-> s.data]>>)
                      \o <<[kind |-> "Save", name |-> n, data |-> s.data]>>,
                  s.data, s.disk)
<1> DEFINE v == [name |-> PgName(n), data |-> s.data]
           e == SavepointFrame(n)
           l == [kind |-> "Save", name |-> n, data |-> s.data]
<1>1. e \in Frame /\ e.kind = "Save" /\ e.name = n
    BY Zenon DEF SavepointFrame, Frame
<1>2. v \in Save /\ v.data = s.data
  <2>1. PgName(n) \in Int
    BY Zenon, NameType
  <2> QED
    BY Zenon, <2>1 DEF Save, Sess
<1>3. Outcome(f, s, PlanSavepoint(f, n))
    BY Zenon, SavepointOutcome
<1> HIDE DEF e
<1>4. CASE f = <<>>
  <2> DEFINE o == Outer(FALSE)
             g == <<o, e>>
             begin == Stmt("BEGIN")
             save == Cmd("SAVEPOINT", n)
             t == [s EXCEPT !.status = "INTRANS"]
             u == [t EXCEPT !.saves = Append(t.saves, [name |-> PgName(n), data |-> t.data])]
             b == [kind |-> "Auto", name |-> 0, data |-> s.data]
  <2>1. PlanSavepoint(f, n) = Plan(<<begin, save>>, g)
    BY Zenon, <1>4 DEF PlanSavepoint, e
  <2>2. s.status = "IDLE" /\ s.saves = <<>> /\ s.data = s.disk
    BY Zenon, <1>4 DEF Agrees, IsOpen
  <2>3. t \in Sess /\ t.status = "INTRANS" /\ t.saves = <<>> /\ t.disk = s.data
        /\ t.data = s.data
    BY Zenon, <2>2 DEF Sess, Status
  <2>4. PgExec(s, begin) = Result(TRUE, t)
    BY Zenon, <2>2, PgBegin
  <2> HIDE DEF t
  <2>5. PgExec(t, save) = Result(TRUE, u)
    BY Zenon, <2>3, PgSavepoint
  <2>6. PgRun(s, <<begin, save>>) = Result(TRUE, u)
    <3> HIDE DEF u, begin, save
    <3>1. PgExec(s, begin).ok /\ PgExec(s, begin).s = t
        BY <2>4 DEF Result
    <3>2. PgRun(s, <<begin, save>>) = PgExec(t, save)
        BY <3>1, RunTwo
    <3> QED
        BY Zenon, <2>5, <3>2
  <2>7. u.status = "INTRANS" /\ u.disk = s.data /\ u.data = s.data /\ u.saves = <<v>>
    <3>1. Append(<<>>, v) = <<v>>
        BY <1>2
    <3>2. [name |-> PgName(n), data |-> t.data] = v
        BY Zenon, <2>3
    <3> HIDE DEF v
    <3> QED
        BY Zenon, <2>3, <3>1, <3>2 DEF Sess
  <2> HIDE DEF u, v
  <2>8. o.kind = "Auto" /\ o.kind # "Save"
    BY Zenon DEF Outer
  <2> HIDE DEF o
  <2>9. Len(g) = 2 /\ g[1] = o /\ g[2] = e /\ <<v>>[1] = v /\ 2 - 1 = 1
    OBVIOUS
  <2>10. LevelOf(g, u, 1) = b
    <3> HIDE DEF g
    <3> QED
        BY Zenon, <2>7, <2>8, <2>9 DEF LevelOf
  <2>11. LevelOf(g, u, 2) = l
    <3>1. u.saves[2 - 1] = v
        BY Zenon, <2>7, <2>9
    <3> HIDE DEF g
    <3> QED
        BY <1>1, <1>2, <2>9, <3>1 DEF LevelOf
  <2>12. Levels(g, u) = <<b, l>>
    <3> HIDE DEF b, l, LevelOf
    <3>1. 1..Len(g) = 1..2
        BY Zenon, <2>9
    <3> HIDE DEF g
    <3>2. Levels(g, u) = [i \in 1..2 |-> LevelOf(g, u, i)]
        BY Zenon, <3>1 DEF Levels
    <3>3. \A i \in 1..2 : LevelOf(g, u, i) = <<b, l>>[i]
      <4>1. \A i \in 1..2 : i = 1 \/ i = 2
        OBVIOUS
      <4>2. <<b, l>>[1] = b /\ <<b, l>>[2] = l
        BY Zenon
      <4> QED
        BY Zenon, <2>10, <2>11, <4>1, <4>2
    <3>4. <<b, l>> = [i \in 1..2 |-> <<b, l>>[i]]
        OBVIOUS
    <3> QED
        BY Zenon, <3>2, <3>3, <3>4
  <2>13. <<b>> \o <<l>> = <<b, l>>
    <3> HIDE DEF b, l
    <3>1. b \in {b, l} /\ l \in {b, l}
        BY Zenon
    <3> QED
        BY Zenon, <3>1, PairIsConcat
  <2>14. Orderly(g)
    <3>1. \A i \in 1..Len(g) : g[i].kind # "Nested"
      <4>1. \A i \in 1..Len(g) : i = 1 \/ i = 2
        BY <2>9
      <4>2. g[1].kind # "Nested" /\ g[2].kind # "Nested"
        BY Zenon, <1>1, <2>8, <2>9
      <4> QED
        BY Zenon, <4>1, <4>2
    <3> QED
        BY Zenon, <3>1 DEF Orderly
  <2>15. u.status # "INERROR"
    BY Zenon, <2>7
  <2> HIDE DEF g, b, l, begin, save
  <2>16. Leaves(s, PlanSavepoint(f, n), <<b>> \o <<l>>, s.data, s.disk)
    BY Zenon, <2>1, <2>2, <2>6, <2>7, <2>12, <2>13, <2>14, <2>15, AcceptedLeaves
  <2> QED
    BY Zenon, <1>4, <2>16 DEF b, l
<1>5. CASE f # <<>>
  <2> DEFINE g == Append(f, e)
             sql == <<Cmd("SAVEPOINT", n)>>
             t == [s EXCEPT !.saves = Append(s.saves, v)]
  <2>1. PlanSavepoint(f, n) = Plan(sql, g)
    BY Zenon, <1>5 DEF PlanSavepoint, e
  <2>2. s.status = "INTRANS" /\ s.saves \in Seq(Save)
    BY Zenon, <1>5 DEF Agrees, IsOpen, Sess, Status
  <2>3. PgRun(s, sql) = Result(TRUE, t)
    BY Zenon, <2>2, RunOne, PgSavepoint
  <2>4. t.saves = Append(s.saves, v) /\ t.status = "INTRANS" /\ t.disk = s.disk
        /\ t.data = s.data
    BY Zenon, <2>2 DEF Sess
  <2> HIDE DEF v, t
  <2>5. t \in Sess /\ Agrees(g, t)
    <3>1. Plan(sql, g).sql = sql /\ Plan(sql, g).next = g
        BY Zenon DEF Plan
    <3>2. Result(TRUE, t).ok = TRUE /\ Result(TRUE, t).s = t
        BY Zenon DEF Result
    <3> HIDE DEF sql, g
    <3> QED
        BY Zenon, <1>3, <2>1, <2>3, <3>1, <3>2 DEF Outcome
  <2>6. Levels(g, t) =
            Append(Levels(f, s),
                   [kind |-> e.kind, name |-> IF e.kind = "Save" THEN e.name ELSE 0,
                    data |-> v.data])
    BY Zenon, <1>1, <1>2, <1>5, <2>4, <2>5, LevelsPush
  <2>7. Orderly(g)
    BY <1>1 DEF Orderly
  <2> HIDE DEF g, sql
  <2>8. Levels(g, t) = Append(Levels(f, s), l)
    BY Zenon, <1>1, <1>2, <2>6
  <2> HIDE DEF l
  <2>9. Append(Levels(f, s), l) = Levels(f, s) \o <<l>>
    <3>1. Levels(f, s) \in Seq(LevelType)
        BY Zenon, LevelsAre
    <3>2. l \in LevelType
        BY Zenon DEF l, LevelType, Sess
    <3> QED
        BY Zenon, <3>1, <3>2, AppendIsConcat
  <2>10. t.status # "INERROR"
    BY Zenon, <2>4
  <2>11. Leaves(s, PlanSavepoint(f, n), Levels(f, s) \o <<l>>, s.data, s.disk)
    BY Zenon, <2>1, <2>3, <2>4, <2>7, <2>8, <2>9, <2>10, AcceptedLeaves
  <2> QED
    BY Zenon, <1>5, <2>11 DEF l
<1> QED
    BY Zenon, <1>4, <1>5

\* ROLLBACK TO is SqliteTxn's RollbackTo.
LEMMA RollbackToLeaves ==
    ASSUME NEW f \in Seq(Frame), NEW s \in Sess, Shape(f), Agrees(f, s),
           Orderly(f), s.status # "INERROR", NEW n \in Names
    PROVE  LET M == NamedOf(Levels(f, s), n)
           IN  IF M = {}
               THEN Leaves(s, PlanRollbackTo(f, n), Levels(f, s), s.data, s.disk)
               ELSE Leaves(s, PlanRollbackTo(f, n), SubSeq(Levels(f, s), 1, LastOf(M)),
                           Levels(f, s)[LastOf(M)].data, s.disk)
<1>0. NamedOf(Levels(f, s), n) = SavepointsNamed(f, n)
      /\ LastOf(NamedOf(Levels(f, s), n)) = RPosition(f, n)
    BY Zenon, NamedTop
<1>1. CASE SavepointsNamed(f, n) = {}
    BY Zenon, <1>0, <1>1, NothingLeaves DEF PlanRollbackTo
<1>2. CASE SavepointsNamed(f, n) # {}
  <2> DEFINE p == RPosition(f, n)
             k == Latest(s, n)
             sql == <<Cmd("ROLLBACK TO", n)>>
             t == [s EXCEPT !.status = "INTRANS",
                            !.saves = Truncate(s.saves, k),
                            !.data = s.saves[k].data]
  <2>1. PlanRollbackTo(f, n) = Plan(sql, Truncate(f, p))
    BY Zenon, <1>2 DEF PlanRollbackTo
  <2>2. Found(s, n) # {} /\ k = p - 1 /\ k \in 1..Len(s.saves) /\ p \in 1..Len(f)
        /\ p # 1
    BY <1>2, SamePosition
  <2>3. s.status # "IDLE" /\ s.saves \in Seq(Save)
    BY <2>2 DEF Agrees, IsOpen, Sess
  <2>4. PgRun(s, sql) = Result(TRUE, t)
    BY Zenon, <2>2, <2>3, RunOne, PgRollbackTo
  <2>5. Truncate(s.saves, k) \in Seq(Save) /\ s.saves[k] \in Save
    BY <2>2, <2>3 DEF Truncate
  <2>6. t \in Sess /\ t.status = "INTRANS" /\ t.disk = s.disk
        /\ t.saves = Truncate(s.saves, p - 1) /\ t.data = s.saves[p - 1].data
    BY Zenon, <2>2, <2>5 DEF Sess, Status, Save
  <2>7. Levels(f, s)[p].data = s.saves[p - 1].data
    <3>1. Levels(f, s)[p] = LevelOf(f, s, p)
        BY Zenon, <2>2, LevelsAre
    <3> HIDE DEF p
    <3> QED
        BY <2>2, <3>1 DEF LevelOf
  <2> HIDE DEF p, k, t, sql
  <2>8. Leaves(s, PlanRollbackTo(f, n), SubSeq(Levels(f, s), 1, p), t.data, s.disk)
    BY Zenon, <2>1, <2>2, <2>4, <2>6, CutLeaves
  <2> QED
    BY Zenon, <1>0, <1>2, <2>6, <2>7, <2>8 DEF p
<1> QED
    BY Zenon, <1>1, <1>2

\* What is left below a released savepoint is the level SAVEPOINT had begun
\* alone exactly when the frames left are that one frame.
LEMMA AloneIsAuto ==
    ASSUME NEW f \in Seq(Frame), NEW s \in Sess, Shape(f), Agrees(f, s),
           NEW m \in 1..Len(f)
    PROVE  LET rest == SubSeq(Levels(f, s), 1, m)
           IN  (Len(rest) = 1 /\ rest[1].kind = "Auto")
                    <=> Truncate(f, m) = <<Outer(FALSE)>>
<1> DEFINE b == Levels(f, s)
           rest == SubSeq(b, 1, m)
           g == Truncate(f, m)
           o == Outer(FALSE)
<1>1. b \in Seq(LevelType) /\ Len(b) = Len(f) /\ b[1] = LevelOf(f, s, 1)
    BY LevelsAre
<1>2. b[1].kind = f[1].kind
    BY <1>1 DEF LevelOf
<1> HIDE DEF b
<1>3. Len(rest) = m /\ rest[1] = b[1]
    BY <1>1
<1>4. g \in Seq(Frame) /\ Len(g) = m /\ g[1] = f[1] /\ g[1] \in Frame
    BY DEF Truncate
<1>5. o \in Frame /\ o.kind = "Auto" /\ <<o>> \in Seq(Frame) /\ Len(<<o>>) = 1
      /\ <<o>>[1] = o
    BY DEF Outer, Frame
<1>6. \A e \in Frame : e.kind = "Auto" => e = o
    BY DEF Frame, Outer
<1> HIDE DEF rest, g, o
<1>7. ASSUME g = <<o>> PROVE Len(rest) = 1 /\ rest[1].kind = "Auto"
    BY Zenon, <1>2, <1>3, <1>4, <1>5, <1>7
<1>8. ASSUME Len(rest) = 1, rest[1].kind = "Auto" PROVE g = <<o>>
  <2>1. g[1] = o /\ Len(g) = 1
    BY Zenon, <1>2, <1>3, <1>4, <1>6, <1>8
  <2>2. \A i \in 1..1 : i = 1
    OBVIOUS
  <2>3. \A i \in 1..1 : g[i] = <<o>>[i]
    BY Zenon, <1>5, <2>1, <2>2
  <2> QED
    BY Zenon, <1>4, <1>5, <2>1, <2>3, SeqEqual
<1> QED
    BY Zenon, <1>7, <1>8 DEF rest, g, o, b

\* RELEASE is SqliteTxn's Release.
LEMMA ReleaseLeaves ==
    ASSUME NEW f \in Seq(Frame), NEW s \in Sess, Shape(f), Agrees(f, s),
           Orderly(f), s.status # "INERROR", NEW n \in Names
    PROVE  LET M == NamedOf(Levels(f, s), n)
               rest == SubSeq(Levels(f, s), 1, LastOf(M) - 1)
           IN  IF M = {}
               THEN Leaves(s, PlanRelease(f, n), Levels(f, s), s.data, s.disk)
               ELSE IF Len(rest) = 1 /\ rest[1].kind = "Auto"
               THEN Leaves(s, PlanRelease(f, n), <<>>, s.data, s.data)
               ELSE Leaves(s, PlanRelease(f, n), rest, s.data, s.disk)
<1>0. NamedOf(Levels(f, s), n) = SavepointsNamed(f, n)
      /\ LastOf(NamedOf(Levels(f, s), n)) = RPosition(f, n)
    BY Zenon, NamedTop
<1>1. CASE SavepointsNamed(f, n) = {}
    BY Zenon, <1>0, <1>1, NothingLeaves DEF PlanRelease
<1>2. CASE SavepointsNamed(f, n) # {}
  <2> DEFINE m == RPosition(f, n) - 1
             k == Latest(s, n)
             rest == SubSeq(Levels(f, s), 1, m)
             release == Cmd("RELEASE", n)
             commit == Stmt("COMMIT")
             t == [s EXCEPT !.saves = Truncate(s.saves, k - 1)]
  <2>1. Found(s, n) # {} /\ k = m /\ k \in 1..Len(s.saves) /\ m \in 1..Len(f)
    BY <1>2, SamePosition
  <2>2. s.status = "INTRANS" /\ s.saves \in Seq(Save)
    BY <2>1 DEF Agrees, IsOpen, Sess, Status
  <2>3. PgExec(s, release) = Result(TRUE, t)
    BY Zenon, <2>1, <2>2, PgRelease
  <2>4. Truncate(s.saves, k - 1) \in Seq(Save)
    BY <2>1, <2>2 DEF Truncate
  <2>5. t \in Sess /\ t.status = "INTRANS" /\ t.disk = s.disk
        /\ t.data = s.data /\ t.saves = Truncate(s.saves, m - 1)
    BY Zenon, <2>1, <2>2, <2>4 DEF Sess
  <2>6. (Len(rest) = 1 /\ rest[1].kind = "Auto") <=> Truncate(f, m) = <<Outer(FALSE)>>
    BY Zenon, <2>1, AloneIsAuto
  <2> HIDE DEF t, k
  <2>7. CASE Truncate(f, m) = <<Outer(FALSE)>>
    <3>1. PlanRelease(f, n) = Plan(<<release, commit>>, <<>>)
        BY Zenon, <1>2, <2>7 DEF PlanRelease
    <3>2. PgExec(s, release).ok /\ PgExec(s, release).s = t
        BY <2>3 DEF Result
    <3>3. PgExec(t, commit) = Result(TRUE, Session("IDLE", <<>>, t.data, t.data))
        BY Zenon, <2>5 DEF PgExec, Stmt, Cmd
    <3> HIDE DEF release, commit
    <3>4. PgRun(s, <<release, commit>>) = PgExec(t, commit)
        BY <3>2, RunTwo
    <3>5. Leaves(s, PlanRelease(f, n), <<>>, s.data, s.data)
        BY Zenon, <2>5, <3>1, <3>3, <3>4, EndLeaves
    <3> QED
        BY Zenon, <1>0, <1>2, <2>6, <2>7, <3>5
  <2>8. CASE Truncate(f, m) # <<Outer(FALSE)>>
    <3>1. PlanRelease(f, n) = Plan(<<release>>, Truncate(f, m))
        BY Zenon, <1>2, <2>8 DEF PlanRelease
    <3>2. PgRun(s, <<release>>) = Result(TRUE, t)
        BY Zenon, <2>3, RunOne
    <3>3. Leaves(s, PlanRelease(f, n), rest, s.data, s.disk)
      <4> HIDE DEF m, release
      <4> QED
        BY Zenon, <2>1, <2>5, <3>1, <3>2, CutLeaves
    <3> QED
        BY Zenon, <1>0, <1>2, <2>6, <2>8, <3>3
  <2> QED
    BY Zenon, <2>7, <2>8
<1> QED
    BY Zenon, <1>1, <1>2

\* The stack the promise is about.
stackBar == [i \in 1..Len(frames) |-> Level(i)]

\* What is true while nothing is lost and nothing refused.
KeptInv ==
    /\ IInv
    /\ ~lost
    /\ server.status # "INERROR"
    /\ Orderly(frames)

\* The mapping of Txn is Levels of the frames and the session.
LEMMA StackIs ==
    stackBar = Levels(frames, Now) /\ stackBar' = Levels(frames', Now')
<1>1. Now.disk = disk /\ Now.saves = server.saves
    BY Zenon DEF Now, Session
<1>2. \A i : Level(i) = LevelOf(frames, Now, i)
    BY Zenon, <1>1 DEF Level, LevelOf
<1>3. Now'.disk = disk' /\ Now'.saves = server'.saves
    BY Zenon DEF Now, Session
<1>4. \A i : Level(i)' = LevelOf(frames', Now', i)
    BY Zenon, <1>3 DEF Level, LevelOf
<1> QED
    BY Zenon, <1>2, <1>4 DEF stackBar, Levels

\* What a control command leaves is what its plan leaves.
LEMMA ControlLeaves ==
    ASSUME KeptInv, NEW cmd \in TxnCmd, Control(cmd),
           NEW b, NEW d, NEW k, Leaves(Now, plan(frames, cmd), b, d, k)
    PROVE  /\ KeptInv'
           /\ stackBar' = b /\ data' = d /\ disk' = k
           /\ <<answer.cmd.op, answer.ok>>' = <<cmd.op, TRUE>>
<1> DEFINE p == plan(frames, cmd)
           r == PgRun(Now, p.sql)
<1>1. IInv'
    BY Zenon, ControlKeeps DEF KeptInv
<1>2. ServerIs(r.s) /\ Answer(cmd, r.ok) /\ lost' = lost
      /\ (IF r.ok THEN RunDone(p.next) ELSE RunRefused(r.s))
    BY Zenon DEF Control
<1>3. r.ok /\ r.s.status # "INERROR" /\ Levels(p.next, r.s) = b
      /\ r.s.data = d /\ r.s.disk = k /\ Orderly(p.next)
    BY Zenon DEF Leaves
<1>4. r.s \in Sess /\ r.ok \in BOOLEAN
  <2>1. Now \in Sess /\ frames \in Seq(Frame) /\ Shape(frames) /\ Agrees(frames, Now)
    BY Zenon, NowType DEF KeptInv, IInv, TypeOK, Mirror, Remnant
  <2>2. Outcome(frames, Now, p)
    BY Zenon, <2>1, PlanOutcome
  <2> QED
    BY Zenon, <2>2 DEF Outcome
<1>5. frames' = p.next
    BY Zenon, <1>2, <1>3 DEF RunDone
<1> HIDE DEF p, r
<1>6. Now' = r.s /\ data' = r.s.data /\ disk' = r.s.disk /\ server'.status = r.s.status
  <2>1. Now' = r.s
    BY Zenon, <1>2, <1>4, NowAfter
  <2> QED
    BY Zenon, <1>2, <2>1 DEF ServerIs
<1>7. stackBar' = b
  <2>1. stackBar' = Levels(frames', Now')
    BY Zenon, StackIs
  <2> QED
    BY Zenon, <1>3, <1>5, <1>6, <2>1
<1>8. KeptInv'
    BY Zenon, <1>1, <1>2, <1>3, <1>5, <1>6 DEF KeptInv
<1>9. answer' = [cmd |-> cmd, ok |-> TRUE]
  <2>1. r.ok = TRUE
    BY Zenon, <1>3, <1>4
  <2> QED
    BY Zenon, <1>2, <2>1 DEF Answer
<1>10. <<answer.cmd.op, answer.ok>>' = <<cmd.op, TRUE>>
    BY Zenon, <1>9
<1> QED
    BY Zenon, <1>3, <1>6, <1>7, <1>8, <1>10

\* Every control command is the step of SqliteTxn of the same name.
LEMMA ControlPromised ==
    ASSUME KeptInv, Env = {}, NEW cmd \in TxnCmd, Control(cmd)
    PROVE  KeptInv' /\ Promise!Next
<1> DEFINE B == Levels(frames, Now)
<1>1. Now \in Sess /\ frames \in Seq(Frame) /\ Shape(frames) /\ Agrees(frames, Now)
      /\ Now.status # "INERROR" /\ Orderly(frames) /\ Now.data = data /\ Now.disk = disk
    BY Zenon, NowType DEF KeptInv, IInv, TypeOK, Mirror, Remnant
<1>2. "mix" \notin Env
    BY Zenon
<1>3. stackBar = B
    BY Zenon, StackIs
<1>4. stackBar # <<>> <=> frames # <<>>
  <2>1. B \in Seq(LevelType) /\ Len(B) = Len(frames)
    BY Zenon, <1>1, LevelsAre
  <2> HIDE DEF B
  <2>2. B # <<>> <=> Len(B) # 0
    BY <2>1
  <2>3. frames # <<>> <=> Len(frames) # 0
    BY <1>1
  <2> QED
    BY Zenon, <1>3, <2>1, <2>2, <2>3
<1>5. CASE cmd.op = "BEGIN"
  <2> DEFINE b == Append(B, [kind |-> IF frames # <<>> THEN "Nested" ELSE "Begin",
                             name |-> 0, data |-> Now.data])
  <2>1. plan(frames, cmd) = PlanBegin(frames)
    BY Zenon, <1>5 DEF plan
  <2>2. Leaves(Now, plan(frames, cmd), b, Now.data, Now.disk)
    BY Zenon, <1>1, <2>1, BeginLeaves
  <2>3. KeptInv' /\ stackBar' = b /\ data' = data /\ disk' = disk
        /\ <<answer.cmd.op, answer.ok>>' = <<"BEGIN", TRUE>>
    BY Zenon, <1>1, <1>2, <1>5, <2>2, ControlLeaves
  <2>4. stackBar' = Append(stackBar, [kind |-> IF stackBar # <<>> THEN "Nested" ELSE "Begin",
                                      name |-> 0, data |-> data])
    BY Zenon, <1>1, <1>3, <1>4, <2>3
  <2>5. Promise!Begin
    BY Zenon, <2>3, <2>4
        DEF Promise!Begin, Promise!Done, Promise!Open, Promise!Level, stackBar
  <2> QED
    BY Zenon, <2>3, <2>5 DEF Promise!Next
<1>6. CASE cmd.op = "COMMIT"
  <2> DEFINE N == NestedOf(B)
  <2>1. plan(frames, cmd) = PlanCommit(frames)
    BY Zenon, <1>6 DEF plan
  <2>2. IF N # {}
        THEN Leaves(Now, plan(frames, cmd), SubSeq(B, 1, LastOf(N) - 1), data, disk)
        ELSE Leaves(Now, plan(frames, cmd), <<>>, data, data)
    BY Zenon, <1>1, <2>1, CommitLeaves
  <2>3. KeptInv' /\ data' = data /\ <<answer.cmd.op, answer.ok>>' = <<"COMMIT", TRUE>>
        /\ IF N # {} THEN stackBar' = SubSeq(B, 1, LastOf(N) - 1) /\ disk' = disk
           ELSE stackBar' = <<>> /\ disk' = data
    BY Zenon, <1>2, <1>6, <2>2, ControlLeaves
  <2>4. N = Promise!NestedLevels
    BY Zenon, <1>3 DEF NestedOf, Promise!NestedLevels, stackBar
  <2>5. Promise!Commit
    BY Zenon, <1>3, <2>3, <2>4
        DEF Promise!Commit, Promise!Done, Promise!Keep, Promise!Topmost, LastOf, stackBar
  <2> QED
    BY Zenon, <2>3, <2>5 DEF Promise!Next
<1>7. CASE cmd.op = "ROLLBACK"
  <2> DEFINE N == NestedOf(B)
  <2>1. plan(frames, cmd) = PlanRollback(frames)
    BY Zenon, <1>7 DEF plan
  <2>2. IF N # {}
        THEN Leaves(Now, plan(frames, cmd), SubSeq(B, 1, LastOf(N) - 1),
                    B[LastOf(N)].data, disk)
        ELSE Leaves(Now, plan(frames, cmd), <<>>, disk, disk)
    BY Zenon, <1>1, <2>1, RollbackLeaves
  <2>3. KeptInv' /\ disk' = disk /\ <<answer.cmd.op, answer.ok>>' = <<"ROLLBACK", TRUE>>
        /\ IF N # {} THEN stackBar' = SubSeq(B, 1, LastOf(N) - 1)
                          /\ data' = B[LastOf(N)].data
           ELSE stackBar' = <<>> /\ data' = disk
    BY Zenon, <1>2, <1>7, <2>2, ControlLeaves
  <2>4. N = Promise!NestedLevels
    BY Zenon, <1>3 DEF NestedOf, Promise!NestedLevels, stackBar
  <2>5. Promise!Rollback
    BY Zenon, <1>3, <2>3, <2>4
        DEF Promise!Rollback, Promise!Done, Promise!Keep, Promise!Topmost, LastOf, stackBar
  <2> QED
    BY Zenon, <2>3, <2>5 DEF Promise!Next
<1>8. CASE cmd.op = "SAVEPOINT"
  <2> DEFINE n == cmd.name
             b == (IF frames # <<>> THEN B
                   ELSE <<[kind |-> "Auto", name |-> 0, data |-> Now.data]>>)
                      \o <<[kind |-> "Save", name |-> n, data |-> Now.data]>>
  <2>1. plan(frames, cmd) = PlanSavepoint(frames, n)
    BY Zenon, <1>8 DEF plan
  <2>2. n \in Names
    BY Zenon, <1>8 DEF TxnCmd
  <2>3. \A i \in 1..Len(frames) : frames[i].kind # "Nested"
    BY Zenon, <1>2, <1>8 DEF Control, Allowed
  <2>4. Leaves(Now, plan(frames, cmd), b, Now.data, Now.disk)
    BY Zenon, <1>1, <2>1, <2>2, <2>3, SavepointLeaves
  <2>5. KeptInv' /\ stackBar' = b /\ data' = data /\ disk' = disk
        /\ <<answer.cmd.op, answer.ok>>' = <<"SAVEPOINT", TRUE>>
    BY Zenon, <1>1, <1>2, <1>8, <2>4, ControlLeaves
  <2>6. stackBar' = (IF stackBar # <<>> THEN stackBar
                     ELSE <<[kind |-> "Auto", name |-> 0, data |-> data]>>)
                        \o <<[kind |-> "Save", name |-> n, data |-> data]>>
    BY Zenon, <1>1, <1>3, <1>4, <2>5
  <2> HIDE DEF n
  <2>7. Promise!Savepoint(n)
    BY Zenon, <2>5, <2>6
        DEF Promise!Savepoint, Promise!Done, Promise!Open, Promise!Level, stackBar
  <2> QED
    BY Zenon, <2>2, <2>5, <2>7 DEF Promise!Next
<1>9. CASE cmd.op = "RELEASE"
  <2> DEFINE n == cmd.name
             M == NamedOf(B, n)
             rest == SubSeq(B, 1, LastOf(M) - 1)
  <2>1. plan(frames, cmd) = PlanRelease(frames, n)
    BY Zenon, <1>9 DEF plan
  <2>2. n \in Names
    BY Zenon, <1>9 DEF TxnCmd
  <2>3. IF M = {} THEN Leaves(Now, plan(frames, cmd), B, data, disk)
        ELSE IF Len(rest) = 1 /\ rest[1].kind = "Auto"
        THEN Leaves(Now, plan(frames, cmd), <<>>, data, data)
        ELSE Leaves(Now, plan(frames, cmd), rest, data, disk)
    BY Zenon, <1>1, <1>2, <2>1, <2>2, ReleaseLeaves
  <2>4. KeptInv' /\ data' = data /\ <<answer.cmd.op, answer.ok>>' = <<"RELEASE", TRUE>>
        /\ IF M = {} THEN stackBar' = B /\ disk' = disk
           ELSE IF Len(rest) = 1 /\ rest[1].kind = "Auto"
           THEN stackBar' = <<>> /\ disk' = data
           ELSE stackBar' = rest /\ disk' = disk
    BY Zenon, <1>2, <1>9, <2>3, ControlLeaves
  <2> HIDE DEF n
  <2>5. M = Promise!SaveLevels(n)
    BY Zenon, <1>3 DEF NamedOf, Promise!SaveLevels, stackBar
  <2>6. Promise!Release(n)
    BY Zenon, <1>3, <2>4, <2>5
        DEF Promise!Release, Promise!Done, Promise!Keep, Promise!Topmost, LastOf, stackBar
  <2> QED
    BY Zenon, <2>2, <2>4, <2>6 DEF Promise!Next
<1>10. CASE cmd.op = "ROLLBACK TO"
  <2> DEFINE n == cmd.name
             M == NamedOf(B, n)
  <2>1. plan(frames, cmd) = PlanRollbackTo(frames, n)
    BY Zenon, <1>10 DEF plan
  <2>2. n \in Names
    BY Zenon, <1>10 DEF TxnCmd
  <2>3. IF M = {} THEN Leaves(Now, plan(frames, cmd), B, data, disk)
        ELSE Leaves(Now, plan(frames, cmd), SubSeq(B, 1, LastOf(M)),
                    B[LastOf(M)].data, disk)
    BY Zenon, <1>1, <1>2, <2>1, <2>2, RollbackToLeaves
  <2>4. KeptInv' /\ disk' = disk /\ <<answer.cmd.op, answer.ok>>' = <<"ROLLBACK TO", TRUE>>
        /\ IF M = {} THEN stackBar' = B /\ data' = data
           ELSE stackBar' = SubSeq(B, 1, LastOf(M)) /\ data' = B[LastOf(M)].data
    BY Zenon, <1>2, <1>10, <2>3, ControlLeaves
  <2> HIDE DEF n
  <2>5. M = Promise!SaveLevels(n)
    BY Zenon, <1>3 DEF NamedOf, Promise!SaveLevels, stackBar
  <2>6. Promise!RollbackTo(n)
    BY Zenon, <1>3, <2>4, <2>5
        DEF Promise!RollbackTo, Promise!Done, Promise!Keep, Promise!Topmost, LastOf, stackBar
  <2> QED
    BY Zenon, <2>2, <2>4, <2>6 DEF Promise!Next
<1> QED
    BY Zenon, <1>5, <1>6, <1>7, <1>8, <1>9, <1>10 DEF TxnCmd

\* A write is SqliteTxn's Write, and a close its Close.
LEMMA OthersPromised ==
    ASSUME KeptInv
    PROVE  /\ \A w \in Writes : Write(w) => KeptInv' /\ Promise!Next
           /\ CloseHandle => KeptInv' /\ Promise!Next
<1>0. frames \in Seq(Frame) /\ Agrees(frames, Now) /\ Now.status = server.status
      /\ Now.disk = disk
    BY Zenon, NowType DEF KeptInv, IInv, TypeOK, Mirror, Remnant
<1>1. ASSUME NEW w \in Writes, Write(w) PROVE KeptInv' /\ Promise!Next
  <2>1. IInv'
    BY Zenon, <1>1, WriteKeeps DEF KeptInv
  <2>2. frames' = frames /\ server' = server /\ lost' = lost /\ data' = data \cup {w}
        /\ disk' = (IF server.status = "IDLE" THEN data \cup {w} ELSE disk)
        /\ answer' = [cmd |-> WriteCmd, ok |-> TRUE]
    BY Zenon, <1>1 DEF Write, Answer
  <2>3. KeptInv'
    BY Zenon, <2>1, <2>2 DEF KeptInv
  <2>4. <<answer.cmd.op, answer.ok>>' = <<"WRITE", TRUE>>
    BY Zenon, <2>2 DEF WriteCmd, Stmt, Cmd
  <2>5. frames # <<>> <=> server.status # "IDLE"
    BY Zenon, <1>0 DEF Agrees, IsOpen
  <2>6. stackBar # <<>> <=> frames # <<>>
    BY <1>0 DEF stackBar
  <2>7. stackBar' = stackBar
    <3>1. CASE frames = <<>>
      <4>1. Levels(frames, Now) = <<>> /\ Levels(frames', Now') = <<>>
        BY Zenon, <2>2, <3>1, NoLevels
      <4> QED
        BY Zenon, <4>1, StackIs
    <3>2. CASE frames # <<>>
      <4>1. disk' = disk
        BY Zenon, <2>2, <2>5, <3>2
      <4> QED
        BY Zenon, <2>2, <4>1 DEF stackBar, Level
    <3> QED
        BY Zenon, <3>1, <3>2
  <2>8. Promise!Write(w)
    BY Zenon, <2>2, <2>4, <2>5, <2>6, <2>7
        DEF Promise!Write, Promise!Done, Promise!Open, stackBar
  <2> QED
    BY Zenon, <2>3, <2>8 DEF Promise!Next
<1>2. ASSUME CloseHandle PROVE KeptInv' /\ Promise!Next
  <2>1. frames' = <<>> /\ ServerIs(Fresh) /\ lost' = lost
        /\ answer' = [cmd |-> Stmt("CLOSE"), ok |-> TRUE]
    BY Zenon, <1>2 DEF CloseHandle, Forget, Answer
  <2>2. Fresh.status = "IDLE" /\ Fresh.data = disk /\ Fresh.disk = disk
    BY Zenon DEF Fresh, Session
  <2>3. server'.status = "IDLE" /\ data' = disk /\ disk' = disk
    BY Zenon, <2>1, <2>2 DEF ServerIs
  <2>4. stackBar' = <<>>
    <3>1. Levels(frames', Now') = <<>>
        BY Zenon, <2>1, NoLevels
    <3> QED
        BY Zenon, <3>1, StackIs
  <2>5. <<answer.cmd.op, answer.ok>>' = <<"CLOSE", TRUE>>
    BY Zenon, <2>1 DEF Stmt, Cmd
  <2>6. Promise!Close
    BY Zenon, <2>3, <2>4, <2>5 DEF Promise!Close, Promise!Done, stackBar
  <2>7. Orderly(frames') /\ server'.status # "INERROR"
    BY <2>1, <2>3 DEF Orderly
  <2>8. IInv'
    <3>1. Fresh \in Sess /\ Fresh.saves = <<>>
        BY Zenon, FreshType DEF KeptInv, IInv, Fresh, Session
    <3>2. Forget /\ lost' \in BOOLEAN
        BY Zenon, <1>2, <2>1 DEF CloseHandle, KeptInv, IInv, TypeOK
    <3>3. answer' \in Answered
        BY Zenon, <1>2, AnswerType DEF CloseHandle
    <3> QED
        BY Zenon, <2>1, <2>2, <3>1, <3>2, <3>3, ForgetKeeps
  <2> QED
    BY Zenon, <2>1, <2>6, <2>7, <2>8 DEF KeptInv, Promise!Next
<1> QED
    BY Zenon, <1>1, <1>2

\* With a connection that is kept and a server that refuses nothing, what the
\* shim and the server do together is what SqliteTxn allows: every BEGIN,
\* COMMIT, ROLLBACK, SAVEPOINT, RELEASE, ROLLBACK TO and write Plex issues has
\* the effect SQLite's own nesting would give it (txn.rs, plan and run).
THEOREM KeepsItsPromise ==
    ASSUME Env = {}
    PROVE  Spec => Promised
<1>1. Init => KeptInv /\ Promise!Init
  <2> SUFFICES ASSUME Init PROVE KeptInv /\ Promise!Init
    BY Zenon
  <2>1. IInv
    BY Zenon, InitHolds
  <2>2. frames = <<>> /\ server.status = "IDLE" /\ lost = FALSE /\ data = {} /\ disk = {}
        /\ answer = [cmd |-> Stmt("none"), ok |-> TRUE]
    BY Zenon DEF Init
  <2>3. Orderly(frames)
    BY <2>2 DEF Orderly
  <2>4. stackBar = <<>>
    BY Zenon, <2>2, NoLevels, StackIs
  <2>5. <<answer.cmd.op, answer.ok>> = <<"none", TRUE>>
    BY Zenon, <2>2 DEF Stmt, Cmd
  <2>6. server.status # "INERROR"
    BY Zenon, <2>2
  <2> QED
    BY Zenon, <2>1, <2>2, <2>3, <2>4, <2>5, <2>6 DEF KeptInv, Promise!Init, stackBar
<1>2. KeptInv /\ [Next]_vars => KeptInv' /\ [Promise!Next]_(Promise!vars)
  <2> SUFFICES ASSUME KeptInv, [Next]_vars
               PROVE  KeptInv' /\ [Promise!Next]_(Promise!vars)
    BY Zenon
  <2>1. ASSUME NEW cmd \in TxnCmd, Control(cmd) PROVE KeptInv' /\ Promise!Next
    BY Zenon, <2>1, ControlPromised
  <2>2. ASSUME NEW cmd \in TxnCmd,
               ControlRefused(cmd) \/ ControlOnLost(cmd) \/ ExecControlOnLost(cmd)
        PROVE  FALSE
    BY Zenon, <2>2 DEF KeptInv, ControlRefused, ControlOnLost, ExecControlOnLost
  <2>3. ASSUME NEW w \in Writes, Write(w) PROVE KeptInv' /\ Promise!Next
    BY Zenon, <2>3, OthersPromised
  <2>4. ASSUME NEW w \in Writes, WriteOnLost(w) PROVE FALSE
    BY Zenon, <2>4 DEF KeptInv, WriteOnLost
  <2>5. ASSUME WriteRefused \/ ReconnectFails \/ CloseAway \/ LoseConnection
        PROVE  FALSE
    BY Zenon, <2>5 DEF KeptInv, WriteRefused, ReconnectFails, CloseAway, LoseConnection
  <2>6. ASSUME CloseHandle PROVE KeptInv' /\ Promise!Next
    BY Zenon, <2>6, OthersPromised
  <2>7. ASSUME UNCHANGED vars PROVE KeptInv' /\ UNCHANGED Promise!vars
    <3>1. frames' = frames /\ pin' = pin /\ server' = server /\ data' = data
          /\ disk' = disk /\ lost' = lost /\ answer' = answer
        BY Zenon, <2>7 DEF vars
    <3>2. KeptInv'
        BY Zenon, <3>1 DEF KeptInv, IInv, TypeOK, Mirror, Now, Session, Agrees, Remnant, IsOpen
    <3>3. stackBar' = stackBar
        BY Zenon, <3>1 DEF stackBar, Level
    <3> QED
        BY Zenon, <3>1, <3>2, <3>3 DEF Promise!vars, stackBar
  <2> QED
    BY Zenon, <2>1, <2>2, <2>3, <2>4, <2>5, <2>6, <2>7 DEF Next
<1> QED
    BY <1>1, <1>2, PTL DEF Spec, Promised, Promise!Spec
==============================================================================
