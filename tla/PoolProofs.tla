----------------------------- MODULE PoolProofs ------------------------------
(***************************************************************************)
(* Proofs about the pool, for any number of threads, handles, connections  *)
(* and slots.                                                              *)
(***************************************************************************)
EXTENDS Pool, TLAPS, WellFoundedInduction

------------------------------------------------------------------------------
(* Types.                                                                  *)

\* The thread moves on, holding no claim.
Away(t) ==
    \E p \in PCs \ (Owning \cup {"close"}), i \in Slots, c \in Conns \cup {None} :
        Move(t, p, i, c)

\* A move to a position there is, at a slot there is, is well typed.
LEMMA MoveType ==
    ASSUME PositionsOK, NEW t \in Threads, NEW p \in PCs, NEW i \in Slots,
           NEW c \in Conns \cup {None}, Move(t, p, i, c),
           then' \in [Threads -> {"cached", "reuse"}]
    PROVE  PositionsOK'
    BY Zenon DEF PositionsOK, Move

\* `continue' goes to another slot of the scan or to the next phase.
LEMMA AdvanceGoes ==
    ASSUME TypeOK, NEW t \in Threads, NEW phase \in Scans, Advance(t, phase)
    PROVE  /\ PositionsOK'
           /\ Away(t)
<1>1. NextPhase(phase) \in Scans \cup {"due", "grow"}
    BY Zenon DEF Scans, NextPhase
<1>2. at[t] \in Slots /\ call[t].n \in 0..PoolMax
    BY Zenon DEF TypeOK, PositionsOK, CallsOK
<1>3. at[t] < call[t].n => at[t] + 1 \in Slots
    BY <1>2, PoolAssumption DEF Slots
<1>4. 1 \in Slots
    BY PoolAssumption DEF Slots
<1>5. PICK p \in Scans \cup {"due", "grow"}, i \in Slots : Move(t, p, i, None)
    BY Zenon, <1>1, <1>3, <1>4 DEF Advance
<1>6. then' \in [Threads -> {"cached", "reuse"}]
    BY Zenon DEF Advance, TypeOK, PositionsOK
<1>7. p \in PCs \ (Owning \cup {"close"})
    BY Zenon, <1>5 DEF PCs, Scans, Owning
<1> QED
    BY Zenon, <1>5, <1>6, <1>7, MoveType DEF TypeOK, Away

\* Going to another position at the same slot.
LEMMA GotoType ==
    ASSUME TypeOK, NEW t \in Threads, NEW p \in PCs, Goto(t, p)
    PROVE  /\ PositionsOK'
           /\ p \notin Owning \cup {"close"} => Away(t)
    BY Zenon, MoveType DEF TypeOK, PositionsOK, Goto, Away

\* The end of a call.
LEMMA ReturnType ==
    ASSUME TypeOK, NEW t \in Threads, Return(t)
    PROVE  /\ PositionsOK'
           /\ Away(t)
           /\ call' \in [Threads -> [h : Handles \cup {None}, excl : Conns \cup {None},
                             nested : BOOLEAN, n : 0..PoolMax, m : 0..PoolMax]]
<1>1. 1 \in Slots /\ 0 \in 0..PoolMax
    BY PoolAssumption DEF Slots
<1>2. then' \in [Threads -> {"cached", "reuse"}]
    BY Zenon DEF TypeOK, PositionsOK, Return
<1>3. PositionsOK'
    BY Zenon, <1>1, <1>2, MoveType DEF TypeOK, PositionsOK, Return, PCs
<1>4. NoCall \in [h : Handles \cup {None}, excl : Conns \cup {None},
                  nested : BOOLEAN, n : 0..PoolMax, m : 0..PoolMax]
    BY Zenon, <1>1 DEF NoCall
<1>5. Away(t)
    BY Zenon, <1>1 DEF Return, Away, PCs, Owning
<1> QED
    BY Zenon, <1>3, <1>4, <1>5 DEF TypeOK, CallsOK, Return

\* Raising a slot's generation, and caching a slot, keep the caches' type.
LEMMA CacheType ==
    ASSUME TypeOK, NEW t \in Threads, NEW i \in Slots
    PROVE  /\ Stale(i) \in [Threads -> [key : Handles \cup {None}, slot : 0..PoolMax]]
           /\ [tls EXCEPT ![t] = [key |-> None, slot |-> i]]
                    \in [Threads -> [key : Handles \cup {None}, slot : 0..PoolMax]]
           /\ [tls EXCEPT ![t] = NoEntry]
                    \in [Threads -> [key : Handles \cup {None}, slot : 0..PoolMax]]
<1>1. NoEntry \in [key : Handles \cup {None}, slot : 0..PoolMax]
    BY PoolAssumption DEF NoEntry
<1>2. [key |-> None, slot |-> i] \in [key : Handles \cup {None}, slot : 0..PoolMax]
    BY PoolAssumption DEF Slots
<1> QED
    BY Zenon, <1>1, <1>2 DEF TypeOK, PoolOK, Stale

\* A step that only looks, and moves on.
LEMMA LooksType ==
    ASSUME TypeOK, Looks, PositionsOK'
    PROVE  TypeOK'
    BY Zenon DEF TypeOK, Looks, slotVars, poolVars, connVars, callVars, SlotsOK,
           PoolOK, ConnsOK, CallsOK

\* A step that changes a slot's state alone, and moves on.
LEMMA SwapsType ==
    ASSUME TypeOK, Swaps, PositionsOK', st' \in [Slots -> States]
    PROVE  TypeOK'
    BY Zenon DEF TypeOK, Swaps, poolVars, connVars, callVars, SlotsOK,
           PoolOK, ConnsOK, CallsOK

\* A session had or not is a session state.
LEMMA SessionType ==
    ASSUME TypeOK, NEW c, NEW up \in BOOLEAN, Session(c, up)
    PROVE  ConnsOK'
    BY Zenon DEF TypeOK, ConnsOK, Session

\* A call begins at a position and with a context there is.
LEMMA BeginType ==
    ASSUME TypeOK, NEW t \in Threads, NEW h \in Handles \cup {None},
           NEW x \in Conns \cup {None}, NEW nested \in BOOLEAN,
           Begin(t, h, x, nested), tries' \in [Threads -> 0..MaxTries]
    PROVE  TypeOK' /\ Away(t)
<1>1. 1 \in Slots /\ 0 \in 0..PoolMax /\ size \in 0..PoolMax
    BY PoolAssumption DEF Slots, TypeOK, PoolOK
<1>2. then' \in [Threads -> {"cached", "reuse"}]
    BY Zenon DEF TypeOK, PositionsOK, Begin
<1>3. PositionsOK' /\ Away(t)
    <2> DEFINE p == IF due THEN "zombie" ELSE "cached"
    <2>1. p \in PCs \ (Owning \cup {"close"})
        BY Zenon DEF PCs, Scans, Owning
    <2>2. Move(t, p, 1, None)
        BY Zenon DEF Begin
    <2> HIDE DEF p
    <2> QED
        BY Zenon, <1>1, <1>2, <2>1, <2>2, MoveType DEF TypeOK, Away
<1>4. [h |-> h, excl |-> x, nested |-> nested, n |-> size, m |-> 0]
        \in [h : Handles \cup {None}, excl : Conns \cup {None},
             nested : BOOLEAN, n : 0..PoolMax, m : 0..PoolMax]
    BY Zenon, <1>1
<1>5. CallsOK'
    BY Zenon, <1>4 DEF TypeOK, CallsOK, Begin
<1> QED
    BY Zenon, <1>3, <1>5 DEF TypeOK, Begin, slotVars, poolVars, connVars, SlotsOK,
                      PoolOK, ConnsOK

\* The scan of reap_idle goes on, or ends.
LEMMA ReapNextGoes ==
    ASSUME TypeOK, NEW t \in Threads, ReapNext(t)
    PROVE  /\ PositionsOK'
           /\ Away(t)
<1>1. at[t] \in Slots /\ call[t].m \in 0..PoolMax
    BY Zenon DEF TypeOK, PositionsOK, CallsOK
<1>2. at[t] < call[t].m => at[t] + 1 \in Slots
    BY <1>1, PoolAssumption DEF Slots
<1>3. 1 \in Slots
    BY PoolAssumption DEF Slots
<1>4. PICK p \in {"reap", "destroy"}, i \in Slots : Move(t, p, i, None)
    BY Zenon, <1>2, <1>3 DEF ReapNext
<1>5. then' \in [Threads -> {"cached", "reuse"}]
    BY Zenon DEF ReapNext, TypeOK, PositionsOK
<1>6. p \in PCs \ (Owning \cup {"close"})
    BY Zenon, <1>4 DEF PCs, Owning
<1> QED
    BY Zenon, <1>4, <1>5, <1>6, MoveType DEF TypeOK, Away

------------------------------------------------------------------------------
(* What a step of thread t may do to the slots, and to the connections.    *)

Working(p) == IF p \in {"reconnect", "health"} THEN "RECONNECTING" ELSE "RESERVED"

Elsewhere(t) ==
    \A u \in Threads \ {t} :
        pc[u] # "close" /\ pc'[u] = pc[u] /\ at'[u] = at[u]

Passes(t) ==
    /\ st' = st
    /\ pc'[t] \notin Owning
    /\ pc'[t] = "close" => st[at'[t]] = "READY"

Frees(t) ==
    /\ st[at[t]] = "READY"
    /\ st' = [st EXCEPT ![at[t]] = "FREE"]
    /\ pc'[t] \notin Owning \cup {"close"}

Claims(t) ==
    /\ st[at[t]] \notin {"RESERVED", "RECONNECTING"}
    /\ st' = [st EXCEPT ![at[t]] = Working(pc'[t])]
    /\ pc'[t] \in Owning \ Connecting
    /\ at'[t] = at[t]

Works(t) ==
    /\ pc[t] \in Owning
    /\ pc'[t] \in Owning
    /\ Working(pc'[t]) = Working(pc[t])
    /\ at'[t] = at[t]
    /\ st' = st
    /\ pc'[t] \in Connecting => conn'[at[t]] = None

Releases(t) ==
    /\ pc[t] \in Owning
    /\ pc'[t] \notin Owning \cup {"close"}
    /\ \E s \in States : st' = [st EXCEPT ![at[t]] = s]

SlotStep(t) == Elsewhere(t) /\ (Passes(t) \/ Frees(t) \/ Claims(t) \/ Works(t) \/ Releases(t))

Keeps == conn' = conn /\ live' = live /\ doomed' = doomed

Empties(t) ==
    /\ pc[t] \in Owning
    /\ conn' = [conn EXCEPT ![at[t]] = None]
    /\ live' = live \ {conn[at[t]]}
    /\ doomed' = doomed

Condemns(t) ==
    /\ pc[t] \in Owning
    /\ conn' = [conn EXCEPT ![at[t]] = None]
    /\ live' = live
    /\ doomed' = [doomed EXCEPT ![t] = @ \cup ({conn[at[t]]} \ {None})]

Destroys(t) ==
    /\ conn' = conn
    /\ live' = live \ doomed[t]
    /\ doomed' = [doomed EXCEPT ![t] = {}]

Fills(t) ==
    /\ pc[t] \in Owning
    /\ conn[at[t]] = None
    /\ \E c \in Conns \ live :
            conn' = [conn EXCEPT ![at[t]] = c] /\ live' = live \cup {c}
    /\ doomed' = doomed

ConnStep(t) == Keeps \/ Empties(t) \/ Condemns(t) \/ Destroys(t) \/ Fills(t)

\* What holds besides: a slot claimed to connect is empty, and one about to
\* be given back is READY still.
Settled ==
    \A t \in Threads :
        /\ pc[t] \in Connecting => conn[at[t]] = None
        /\ pc[t] = "close" => st[at[t]] = "READY"

\* Such a step keeps claims exclusive.
LEMMA SlotStepKeeps ==
    ASSUME TypeOK, TypeOK', ClaimExclusive, Settled, NEW t \in Threads,
           SlotStep(t), ConnStep(t)
    PROVE  ClaimExclusive' /\ Settled'
<1> USE DEF TypeOK, SlotsOK, PositionsOK
<1>1. ASSUME NEW u \in Threads \ {t}, pc[u] \in Owning
      PROVE  st'[at[u]] = st[at[u]] /\ (pc'[t] \in Owning => at'[t] # at[u])
    <2>1. CASE Passes(t)
        BY Zenon, <1>1, <2>1 DEF Passes
    <2>2. CASE Frees(t)
        BY Zenon, <1>1, <2>2 DEF Frees, ClaimExclusive
    <2>3. CASE Claims(t)
        BY Zenon, <1>1, <2>3 DEF Claims, ClaimExclusive
    <2>4. CASE Works(t)
        BY Zenon, <1>1, <2>4 DEF Works, ClaimExclusive
    <2>5. CASE Releases(t)
        BY <1>1, <2>5 DEF Releases, ClaimExclusive
    <2> QED
        BY Zenon, <2>1, <2>2, <2>3, <2>4, <2>5 DEF SlotStep
<1>2. pc'[t] \in Owning => st'[at'[t]] = Working(pc'[t])
    <2>1. CASE Works(t)
        BY Zenon, <2>1 DEF Works, ClaimExclusive, Working
    <2>2. CASE Claims(t)
        BY Zenon, <2>2 DEF Claims
    <2> QED
        BY Zenon, <2>1, <2>2 DEF SlotStep, Passes, Frees, Releases
<1>3. \A u \in Threads \ {t} : pc'[u] = pc[u] /\ at'[u] = at[u] /\ pc[u] # "close"
    BY Zenon DEF SlotStep, Elsewhere
<1>4. \A u \in Threads : pc'[u] \in Owning => st'[at'[u]] = Working(pc'[u])
    BY <1>1, <1>2, <1>3 DEF ClaimExclusive, Working
<1>5. \A u, v \in Threads : u # v /\ pc'[u] \in Owning /\ pc'[v] \in Owning
            => at'[u] # at'[v]
    BY <1>1, <1>3 DEF ClaimExclusive
<1>6. ClaimExclusive'
    BY Zenon, <1>4, <1>5 DEF ClaimExclusive, Working
<1>7. ASSUME NEW u \in Threads \ {t}, pc[u] \in Connecting
      PROVE  conn'[at[u]] = None
    <2>1. pc[u] \in Owning /\ conn[at[u]] = None
        BY Zenon, <1>7 DEF Connecting, Owning, Settled
    <2>2. pc[t] \in Owning => at[t] # at[u]
        BY Zenon, <2>1 DEF ClaimExclusive
    <2> QED
        BY <2>1, <2>2 DEF ConnStep, Keeps, Empties, Condemns, Destroys, Fills
<1>8. pc'[t] \in Connecting => conn'[at'[t]] = None
    BY Zenon DEF SlotStep, Passes, Frees, Claims, Works, Releases, Connecting, Owning
<1>9. pc'[t] = "close" => st'[at'[t]] = "READY"
    BY Zenon DEF SlotStep, Passes, Frees, Claims, Works, Releases, Owning
<1> QED
    BY Zenon, <1>3, <1>6, <1>7, <1>8, <1>9 DEF Settled

\* Such a step leaks no connection.
LEMMA ConnStepKeeps ==
    ASSUME TypeOK, NoLeak, NEW t \in Threads, ConnStep(t)
    PROVE  NoLeak'
<1>0. /\ conn \in [Slots -> Conns \cup {None}] /\ at[t] \in Slots
      /\ doomed \in [Threads -> SUBSET Conns] /\ live \subseteq Conns
      /\ None \notin Conns
    BY Zenon, PoolAssumption DEF TypeOK, SlotsOK, PositionsOK, ConnsOK, CallsOK
<1>1. CASE Keeps
    BY Zenon, <1>0, <1>1 DEF Keeps, NoLeak
<1>2. CASE Empties(t)
    BY <1>0, <1>2 DEF Empties, NoLeak
<1>3. CASE Condemns(t)
    BY <1>0, <1>3 DEF Condemns, NoLeak
<1>4. CASE Destroys(t)
    <2>1. \A u \in Threads : doomed'[u] = IF u = t THEN {} ELSE doomed[u]
        BY Zenon, <1>0, <1>4 DEF Destroys
    <2>2. \A c \in Conns : c \in live' <=> c \in live /\ c \notin doomed[t]
        BY Zenon, <1>4 DEF Destroys
    <2>3. conn' = conn
        BY Zenon, <1>4 DEF Destroys
    <2>4. \A u \in Threads, c \in Conns : u # t /\ c \in doomed[u] => c \notin doomed[t]
        BY Zenon DEF NoLeak
    <2>5. \A c \in Conns : c \in live' <=>
            (\E i \in Slots : conn'[i] = c) \/ (\E u \in Threads : c \in doomed'[u])
        BY <1>0, <2>1, <2>2, <2>3, <2>4 DEF NoLeak
    <2>6. \A u, v \in Threads : u # v => doomed'[u] \cap doomed'[v] = {}
        BY Zenon, <2>1 DEF NoLeak
    <2> QED
        BY Zenon, <2>1, <2>3, <2>5, <2>6 DEF NoLeak
<1>5. CASE Fills(t)
    <2>1. PICK c \in Conns \ live :
            conn' = [conn EXCEPT ![at[t]] = c] /\ live' = live \cup {c}
        BY Zenon, <1>5 DEF Fills
    <2>2. doomed' = doomed /\ conn[at[t]] = None
        BY Zenon, <1>5 DEF Fills
    <2>3. \A i \in Slots : conn[i] # c
        BY Zenon, <2>1 DEF NoLeak
    <2>4. \A u \in Threads : c \notin doomed[u]
        BY Zenon, <2>1 DEF NoLeak
    <2>5. \A i \in Slots : conn'[i] = IF i = at[t] THEN c ELSE conn[i]
        BY Zenon, <1>0, <2>1
    <2>6. \A i, j \in Slots : i # j /\ conn'[i] # None => conn'[i] # conn'[j]
        BY <1>0, <2>1, <2>3, <2>5 DEF NoLeak
    <2>7. \A i \in Slots, u \in Threads : conn'[i] \notin doomed'[u]
        BY <2>2, <2>4, <2>5 DEF NoLeak
    <2>8. \A d \in Conns : d \in live' <=>
            (\E i \in Slots : conn'[i] = d) \/ (\E u \in Threads : d \in doomed'[u])
        BY <1>0, <2>1, <2>2, <2>3, <2>5 DEF NoLeak
    <2> QED
        BY Zenon, <2>2, <2>6, <2>7, <2>8 DEF NoLeak
<1> QED
    BY Zenon, <1>1, <1>2, <1>3, <1>4, <1>5 DEF ConnStep

------------------------------------------------------------------------------
(* The steps.  While "close" is no window, a thread that moves knows no    *)
(* other is about to store its slot's release.                             *)

\* Nobody else is at "close".
LEMMA AtMeans ==
    ASSUME "close" \notin Windows, NEW t \in Threads, NEW q, At(t, q)
    PROVE  pc[t] = q /\ \A u \in Threads \ {t} : pc[u] # "close"
    BY Zenon DEF At, Narrow

\* A step that leaves the slots and the connections alone.
LEMMA PassStep ==
    ASSUME TypeOK, "close" \notin Windows, NEW t \in Threads, NEW q, At(t, q),
           Away(t), UNCHANGED <<st, conn, live, doomed>>
    PROVE  SlotStep(t) /\ ConnStep(t)
<1>1. PICK p \in PCs \ (Owning \cup {"close"}), i \in Slots, c \in Conns \cup {None} :
            Move(t, p, i, c)
    BY Zenon DEF Away
<1>2. pc'[t] = p /\ Elsewhere(t)
    BY <1>1, AtMeans DEF Move, TypeOK, PositionsOK, Elsewhere
<1> QED
    BY Zenon, <1>2 DEF SlotStep, Passes, ConnStep, Keeps

\* A step that ends a claim.
LEMMA ReleaseStep ==
    ASSUME TypeOK, "close" \notin Windows, NEW t \in Threads, NEW q \in Owning,
           At(t, q), Away(t), NEW s \in States, st' = [st EXCEPT ![at[t]] = s]
    PROVE  SlotStep(t)
<1>1. PICK p \in PCs \ (Owning \cup {"close"}), i \in Slots, c \in Conns \cup {None} :
            Move(t, p, i, c)
    BY Zenon DEF Away
<1>2. pc'[t] = p /\ Elsewhere(t) /\ pc[t] = q
    BY Zenon, <1>1, AtMeans DEF Move, TypeOK, PositionsOK, Elsewhere
<1> QED
    BY Zenon, <1>2 DEF SlotStep, Releases

\* A compare-and-swap that claims the slot.
LEMMA ClaimStep ==
    ASSUME TypeOK, "close" \notin Windows, NEW t \in Threads, NEW q, At(t, q),
           NEW from \in {"FREE", "ERROR", "READY"}, NEW p \in Owning \ Connecting,
           Cas(t, from, Working(p)), Goto(t, p), Swaps
    PROVE  TypeOK' /\ SlotStep(t) /\ ConnStep(t)
<1>1. pc'[t] = p /\ at'[t] = at[t] /\ Elsewhere(t)
    BY Zenon, AtMeans DEF Goto, Move, TypeOK, PositionsOK, Elsewhere
<1>2. p \in PCs
    BY Zenon DEF PCs
<1>3. st' \in [Slots -> States]
    BY Zenon DEF Cas, TypeOK, SlotsOK, States, Working
<1>4. TypeOK'
    BY Zenon, <1>2, <1>3, GotoType, SwapsType
<1> QED
    BY Zenon, <1>1, <1>4 DEF SlotStep, Claims, ConnStep, Keeps, Cas, Swaps, connVars, callVars

\* One that does not.
LEMMA ClaimMissed ==
    ASSUME TypeOK, "close" \notin Windows, NEW t \in Threads, NEW q, At(t, q),
           st' = st, Swaps, Away(t), PositionsOK'
    PROVE  TypeOK' /\ SlotStep(t) /\ ConnStep(t)
<1>1. TypeOK'
    BY Zenon, SwapsType DEF TypeOK, SlotsOK
<1>2. UNCHANGED <<st, conn, live, doomed>>
    BY Zenon DEF Swaps, connVars, callVars
<1> QED
    BY Zenon, <1>1, <1>2, PassStep

\* A look, whatever it saw.
LEMMA LookStep ==
    ASSUME TypeOK, "close" \notin Windows, NEW t \in Threads, NEW q, At(t, q),
           Looks, Away(t), PositionsOK'
    PROVE  TypeOK' /\ SlotStep(t) /\ ConnStep(t)
<1>1. UNCHANGED <<st, conn, live, doomed>>
    BY Zenon DEF Looks, slotVars, connVars, callVars
<1> QED
    BY Zenon, <1>1, PassStep, LooksType

\* The first slot of a scan that finds one is one it finds.
LEMMA FirstExists ==
    ASSUME NEW n \in Nat, NEW S \in SUBSET (1..n), S # {}
    PROVE  First(S) \in S /\ \A j \in S : First(S) <= j
<1>1. S \subseteq Nat
    OBVIOUS
<1>2. PICK i \in S : \A j \in S : ~(<<j, i>> \in OpToRel(<, Nat))
    BY Zenon, <1>1, WFMin, NatLessThanWellFounded
<1>3. \A j \in S : ~(j < i)
    BY Zenon, <1>1, <1>2 DEF OpToRel
<1>4. \A j \in S : i <= j
    BY <1>1, <1>3
<1> QED
    BY Zenon, <1>4 DEF First

\* What every step of a thread does.
Sound(t) == TypeOK' /\ SlotStep(t) /\ ConnStep(t)

\* The looks of the scans.
LEMMA LooksAreSound ==
    ASSUME TypeOK, "close" \notin Windows, NEW t \in Threads
    PROVE  /\ ZombieLook(t) => Sound(t)
           /\ ReapLook(t) => Sound(t)
           /\ ReadyLook(t) => Sound(t)
           /\ ReuseLook(t) => Sound(t)
           /\ CreateLook(t) => Sound(t)
           /\ GrowLook(t) => Sound(t)
           /\ HealthLook(t) => Sound(t)
<1> USE DEF Sound
<1>0. /\ at[t] \in Slots /\ got[t] \in Conns \cup {None}
      /\ conn[at[t]] \in Conns \cup {None}
      /\ then \in [Threads -> {"cached", "reuse"}]
    BY Zenon DEF TypeOK, PositionsOK, SlotsOK
<1>a. ASSUME NEW i \in Slots, NEW c \in Conns \cup {None},
             NEW p \in PCs \ (Owning \cup {"close"}), Move(t, p, i, c), UNCHANGED then
      PROVE  PositionsOK' /\ Away(t)
    BY Zenon, <1>0, <1>a, MoveType DEF TypeOK, Away
<1>1. ASSUME ZombieLook(t) PROVE Sound(t)
    <2>1. PositionsOK' /\ Away(t)
        BY <1>1, AdvanceGoes, GotoType DEF ZombieLook, PCs, Scans, Owning, Narrow
    <2> QED
        BY Zenon, <1>1, <2>1, LookStep DEF ZombieLook
<1>2. ASSUME ReapLook(t) PROVE Sound(t)
    <2>1. PositionsOK' /\ Away(t)
        BY <1>2, ReapNextGoes, GotoType DEF ReapLook, PCs, Owning
    <2> QED
        BY Zenon, <1>2, <2>1, LookStep DEF ReapLook
<1>3. ASSUME ReadyLook(t) PROVE Sound(t)
    <2>1. "take" \in PCs \ (Owning \cup {"close"}) /\ "readyCas" \in PCs \ (Owning \cup {"close"})
        BY Zenon DEF PCs, Owning, Narrow
    <2>2. CASE Advance(t, "ready")
        BY Zenon, <1>3, <2>2, AdvanceGoes, LookStep DEF ReadyLook, Scans
    <2>3. CASE ~Advance(t, "ready")
        <3>1. PositionsOK' /\ Away(t)
            BY Zenon, <1>0, <1>3, <1>a, <2>1, <2>3 DEF ReadyLook
        <3> QED
            BY Zenon, <1>3, <3>1, LookStep DEF ReadyLook
    <2> QED
        BY Zenon, <2>2, <2>3
<1>4. ASSUME ReuseLook(t) PROVE Sound(t)
    <2>1. "reuseCas" \in PCs \ (Owning \cup {"close"})
        BY Zenon DEF PCs, Owning
    <2>2. PositionsOK' /\ Away(t)
        BY Zenon, <1>0, <1>4, <1>a, <2>1, AdvanceGoes DEF ReuseLook, Scans
    <2> QED
        BY Zenon, <1>4, <2>2, LookStep DEF ReuseLook
<1>5. ASSUME CreateLook(t) PROVE Sound(t)
    <2>1. PositionsOK' /\ Away(t)
        BY <1>5, AdvanceGoes, GotoType DEF CreateLook, PCs, Scans, Owning
    <2> QED
        BY Zenon, <1>5, <2>1, LookStep DEF CreateLook
<1>6. ASSUME GrowLook(t) PROVE Sound(t)
    <2>1. "growSize" \in PCs \ (Owning \cup {"close"})
        BY Zenon DEF PCs, Owning
    <2>2. size < PoolMax => size + 1 \in Slots
        BY PoolAssumption DEF TypeOK, PoolOK, Slots
    <2>3. size >= PoolMax \/ size < PoolMax
        BY PoolAssumption DEF TypeOK, PoolOK, Slots
    <2>4. PositionsOK' /\ Away(t)
        BY <1>6, <1>a, <2>1, <2>2, <2>3, GotoType DEF GrowLook, PCs, Owning
    <2> QED
        BY Zenon, <1>6, <2>4, LookStep DEF GrowLook
<1>7. ASSUME HealthLook(t) PROVE Sound(t)
    <2> DEFINE S == {i \in Holding(got[t]) : owner[i] = t}
    <2>1. First(S) \in Slots
        <3>0. S # {} /\ S \subseteq Slots
            BY Zenon, <1>7 DEF HealthLook, Holding
        <3>1. S # {} /\ S \subseteq 1..PoolMax /\ PoolMax \in Nat
            BY <3>0, PoolAssumption DEF Slots
        <3> HIDE DEF S
        <3>2. First(S) \in S
            BY Zenon, <3>1, FirstExists
        <3> QED
            BY Zenon, <3>0, <3>2
    <2>2. Move(t, "healthCas", First(S), got[t]) /\ UNCHANGED then
        BY Zenon, <1>7 DEF HealthLook
    <2> HIDE DEF S
    <2>3. PositionsOK' /\ Away(t)
        BY Zenon, <1>0, <1>a, <2>1, <2>2 DEF PCs, Owning
    <2> QED
        BY Zenon, <1>7, <2>3, LookStep DEF HealthLook
<1> QED
    BY Zenon, <1>1, <1>2, <1>3, <1>4, <1>5, <1>6, <1>7

\* The compare-and-swaps.
LEMMA SwapsAreSound ==
    ASSUME TypeOK, "close" \notin Windows, NEW t \in Threads
    PROVE  /\ ReapCas(t) => Sound(t)
           /\ ReadyCas(t) => Sound(t)
           /\ ReuseCas(t) => Sound(t)
           /\ CreateCas(t) => Sound(t)
           /\ ErrorCas(t) => Sound(t)
           /\ GrowCas(t) => Sound(t)
           /\ HealthCas(t) => Sound(t)
<1> USE DEF Sound
<1>0. ASSUME NEW p \in {"retry", "using"}, Goto(t, p)
      PROVE  PositionsOK' /\ Away(t)
    BY Zenon, <1>0, GotoType DEF PCs, Owning
<1>a. \A p \in {"reapOwn", "reuseOwn", "createOwn", "errorOwn", "growOwn"} :
            p \in Owning \ Connecting /\ Working(p) = "RESERVED"
    BY Zenon DEF Owning, Connecting, Working
<1>b. \A p \in {"reconnect", "health"} :
            p \in Owning \ Connecting /\ Working(p) = "RECONNECTING"
    BY Zenon DEF Owning, Connecting, Working
<1>1. ASSUME ReapCas(t) PROVE Sound(t)
    BY Zenon, <1>1, <1>a, ClaimStep, ClaimMissed, ReapNextGoes DEF ReapCas, CasFails
<1>2. ASSUME ReadyCas(t) PROVE Sound(t)
    BY Zenon, <1>2, <1>b, ClaimStep, ClaimMissed, AdvanceGoes DEF ReadyCas, CasFails, Scans
<1>3. ASSUME ReuseCas(t) PROVE Sound(t)
    BY Zenon, <1>3, <1>a, ClaimStep, ClaimMissed, AdvanceGoes DEF ReuseCas, CasFails, Scans
<1>4. ASSUME CreateCas(t) PROVE Sound(t)
    BY Zenon, <1>4, <1>a, ClaimStep, ClaimMissed, AdvanceGoes DEF CreateCas, CasFails, Scans
<1>5. ASSUME ErrorCas(t) PROVE Sound(t)
    BY Zenon, <1>5, <1>a, ClaimStep, ClaimMissed, AdvanceGoes DEF ErrorCas, CasFails, Scans
<1>6. ASSUME GrowCas(t) PROVE Sound(t)
    BY Zenon, <1>6, <1>a, <1>0, ClaimStep, ClaimMissed DEF GrowCas, CasFails
<1>7. ASSUME HealthCas(t) PROVE Sound(t)
    BY Zenon, <1>7, <1>b, <1>0, ClaimStep, ClaimMissed DEF HealthCas, CasFails
<1> QED
    BY Zenon, <1>1, <1>2, <1>3, <1>4, <1>5, <1>6, <1>7

\* The two stores of READY to FREE: try_reclaim_zombie, and the close of a
\* handle, whose slot is READY still.
LEMMA FreeingIsSound ==
    ASSUME TypeOK, Settled, "close" \notin Windows, NEW t \in Threads
    PROVE  /\ ZombieCas(t) => Sound(t)
           /\ CloseStore(t) => Sound(t)
<1> USE DEF Sound
<1>0. at[t] \in Slots /\ st \in [Slots -> States]
    BY Zenon DEF TypeOK, PositionsOK, SlotsOK
<1>a. ASSUME NEW q, At(t, q), Away(t), st[at[t]] = "READY",
             st' = [st EXCEPT ![at[t]] = "FREE"]
      PROVE  SlotStep(t)
    <2>1. PICK p \in PCs \ (Owning \cup {"close"}), i \in Slots,
               c \in Conns \cup {None} : Move(t, p, i, c)
        BY Zenon, <1>a DEF Away
    <2>2. pc'[t] = p /\ Elsewhere(t)
        BY <1>a, <2>1, AtMeans DEF Move, TypeOK, PositionsOK, Elsewhere
    <2> QED
        BY Zenon, <1>a, <2>2 DEF SlotStep, Frees
<1>1. ASSUME ZombieCas(t) PROVE Sound(t)
    <2>1. PositionsOK' /\ Away(t)
        BY Zenon, <1>1, AdvanceGoes DEF ZombieCas, Scans
    <2>2. CASE st[at[t]] = "READY"
        <3>1. st' = [st EXCEPT ![at[t]] = "FREE"] /\ st' \in [Slots -> States]
            BY Zenon, <1>0, <1>1, <2>2 DEF ZombieCas, States
        <3>2. TypeOK'
            BY Zenon, <1>1, <2>1, <3>1, SwapsType DEF ZombieCas
        <3>3. ConnStep(t)
            BY Zenon, <1>1 DEF ZombieCas, Swaps, connVars, callVars, ConnStep, Keeps
        <3> QED
            BY Zenon, <1>1, <1>a, <2>1, <2>2, <3>1, <3>2, <3>3 DEF ZombieCas
    <2>3. CASE st[at[t]] # "READY"
        <3>1. st' = st
            BY Zenon, <1>0, <1>1, <2>3 DEF ZombieCas
        <3> QED
            BY Zenon, <1>1, <2>1, <3>1, ClaimMissed DEF ZombieCas
    <2> QED
        BY Zenon, <2>2, <2>3
<1>2. ASSUME CloseStore(t) PROVE Sound(t)
    <2>1. /\ PositionsOK' /\ Away(t)
          /\ call' \in [Threads -> [h : Handles \cup {None}, excl : Conns \cup {None},
                             nested : BOOLEAN, n : 0..PoolMax, m : 0..PoolMax]]
        BY Zenon, <1>2, ReturnType DEF CloseStore
    <2>2. st[at[t]] = "READY"
        BY Zenon, <1>2 DEF CloseStore, At, Settled
    <2>3. SlotStep(t)
        BY Zenon, <1>2, <1>a, <2>1, <2>2 DEF CloseStore
    <2>4. SlotsOK'
        BY Zenon, <1>2 DEF CloseStore, TypeOK, SlotsOK, States
    <2>5. PoolOK'
        BY Zenon, <1>0, <1>2, CacheType DEF CloseStore, TypeOK, PoolOK
    <2>6. ConnsOK'
        BY Zenon, <1>2 DEF CloseStore, TypeOK, ConnsOK
    <2>7. CallsOK'
        BY Zenon, <1>2, <2>1 DEF CloseStore, TypeOK, CallsOK
    <2>8. ConnStep(t)
        BY Zenon, <1>2 DEF CloseStore, ConnStep, Keeps
    <2> QED
        BY Zenon, <2>1, <2>3, <2>4, <2>5, <2>6, <2>7, <2>8 DEF TypeOK
<1> QED
    BY Zenon, <1>1, <1>2

\* Steps that a thread with a claim ends it with.
LEMMA ReleasesAreSound ==
    ASSUME TypeOK, Settled, "close" \notin Windows, NEW t \in Threads
    PROVE  /\ ReapTake(t) => Sound(t)
           /\ Reconnect(t) => Sound(t)
           /\ ReconnectFails(t) => Sound(t)
           /\ ReuseMoved(t) => Sound(t)
           /\ Reset(t) => Sound(t)
           /\ ResetFails(t) => Sound(t)
           /\ FilledOwn(t) => Sound(t)
           /\ HealthReset(t) => Sound(t)
           /\ HealthFails(t) => Sound(t)
<1> USE DEF Sound
<1>0. /\ at[t] \in Slots /\ st \in [Slots -> States]
      /\ {"FREE", "READY", "ERROR"} \subseteq States
    BY Zenon DEF TypeOK, PositionsOK, SlotsOK, States
<1>a. {"reapOwn", "reconnect", "reuseOwn", "reset", "createOwn", "growOwn",
       "health"} \subseteq Owning
    BY Zenon DEF Owning
<1>b. ASSUME NEW p \in {"found", "using", "retry"}, Goto(t, p)
      PROVE  PositionsOK' /\ Away(t)
    BY Zenon, <1>b, GotoType DEF PCs, Owning
<1>c. ASSUME UNCHANGED <<conn, live, doomed>>
      PROVE  ConnStep(t)
    BY Zenon, <1>c DEF ConnStep, Keeps
<1>1. ASSUME ReapTake(t) PROVE Sound(t)
    <2>1. PositionsOK' /\ Away(t)
        BY Zenon, <1>1, ReapNextGoes DEF ReapTake
    <2>2. SlotStep(t)
        BY Zenon, <1>0, <1>1, <1>a, <2>1, ReleaseStep DEF ReapTake
    <2>3. SlotsOK'
        BY Zenon, <1>1 DEF ReapTake, TypeOK, SlotsOK, States
    <2>4. PoolOK'
        BY Zenon, <1>0, <1>1, CacheType DEF ReapTake, TypeOK, PoolOK
    <2>5. ConnsOK'
        BY Zenon, <1>1 DEF ReapTake, TypeOK, ConnsOK, connVars
    <2>6. conn[at[t]] \in Conns \cup {None}
        BY Zenon, <1>0 DEF TypeOK, SlotsOK
    <2>7. CallsOK'
        BY Zenon, <1>1, <2>6 DEF ReapTake, TypeOK, CallsOK
    <2>8. ConnStep(t)
        BY Zenon, <1>1 DEF ReapTake, ConnStep, Condemns, At, Owning, connVars
    <2> QED
        BY Zenon, <2>1, <2>2, <2>3, <2>4, <2>5, <2>7, <2>8 DEF TypeOK
<1>2. ASSUME Reconnect(t) PROVE Sound(t)
    <2>1. PositionsOK' /\ Away(t)
        BY Zenon, <1>2, <1>b DEF Reconnect
    <2>2. SlotStep(t)
        BY Zenon, <1>0, <1>2, <1>a, <2>1, ReleaseStep DEF Reconnect
    <2>3. SlotsOK' /\ CallsOK'
        BY Zenon, <1>2 DEF Reconnect, TypeOK, SlotsOK, States, CallsOK, callVars
    <2>4. PoolOK'
        BY Zenon, <1>0, <1>2, CacheType DEF Reconnect, Cache, TypeOK, PoolOK
    <2>5. ConnsOK'
        BY Zenon, <1>2, SessionType DEF Reconnect
    <2>6. ConnStep(t)
        BY Zenon, <1>2, <1>c DEF Reconnect, Session, callVars
    <2> QED
        BY Zenon, <2>1, <2>2, <2>3, <2>4, <2>5, <2>6 DEF TypeOK
<1>3. ASSUME ReconnectFails(t) PROVE Sound(t)
    <2>1. /\ PositionsOK' /\ Away(t)
          /\ call' \in [Threads -> [h : Handles \cup {None}, excl : Conns \cup {None},
                             nested : BOOLEAN, n : 0..PoolMax, m : 0..PoolMax]]
        BY Zenon, <1>3, ReturnType DEF ReconnectFails
    <2>2. SlotStep(t)
        BY Zenon, <1>0, <1>3, <1>a, <2>1, ReleaseStep DEF ReconnectFails
    <2>3. SlotsOK' /\ CallsOK' /\ PoolOK'
        BY Zenon, <1>3, <2>1 DEF ReconnectFails, TypeOK, SlotsOK, States, CallsOK, PoolOK, poolVars
    <2>4. ConnsOK'
        BY Zenon, <1>3, SessionType DEF ReconnectFails
    <2>5. ConnStep(t)
        BY Zenon, <1>3, <1>c DEF ReconnectFails, Session
    <2> QED
        BY Zenon, <2>1, <2>2, <2>3, <2>4, <2>5 DEF TypeOK
<1>4. ASSUME ReuseMoved(t) PROVE Sound(t)
    <2>1. PositionsOK' /\ Away(t)
        BY Zenon, <1>4, AdvanceGoes DEF ReuseMoved, Scans
    <2>2. SlotStep(t)
        BY Zenon, <1>0, <1>4, <1>a, <2>1, ReleaseStep DEF ReuseMoved
    <2>3. TypeOK'
        BY Zenon, <1>0, <1>4, <2>1, SwapsType DEF ReuseMoved
    <2>4. ConnStep(t)
        BY Zenon, <1>4, <1>c DEF ReuseMoved, Swaps, connVars, callVars
    <2> QED
        BY Zenon, <2>2, <2>3, <2>4
<1>5. ASSUME Reset(t) PROVE Sound(t)
    <2>1. PositionsOK' /\ Away(t)
        BY Zenon, <1>5, <1>b DEF Reset
    <2>2. SlotStep(t)
        BY Zenon, <1>0, <1>5, <1>a, <2>1, ReleaseStep DEF Reset
    <2>3. SlotsOK' /\ CallsOK'
        BY Zenon, <1>5 DEF Reset, TypeOK, SlotsOK, States, CallsOK, callVars
    <2>4. PoolOK'
        BY Zenon, <1>0, <1>5, CacheType DEF Reset, Cache, TypeOK, PoolOK
    <2>5. ConnsOK'
        BY Zenon, <1>5, SessionType DEF Reset
    <2>6. ConnStep(t)
        BY Zenon, <1>5, <1>c DEF Reset, Session, callVars
    <2> QED
        BY Zenon, <2>1, <2>2, <2>3, <2>4, <2>5, <2>6 DEF TypeOK
<1>6. ASSUME ResetFails(t) PROVE Sound(t)
    <2>1. PositionsOK' /\ Away(t)
        BY Zenon, <1>6, AdvanceGoes DEF ResetFails, Scans
    <2>2. SlotStep(t)
        BY Zenon, <1>0, <1>6, <1>a, <2>1, ReleaseStep DEF ResetFails
    <2>3. SlotsOK' /\ CallsOK' /\ PoolOK'
        BY Zenon, <1>6 DEF ResetFails, TypeOK, SlotsOK, States, CallsOK, PoolOK, poolVars, callVars
    <2>4. ConnsOK'
        BY Zenon, <1>6, SessionType DEF ResetFails
    <2>5. ConnStep(t)
        BY Zenon, <1>6, <1>c DEF ResetFails, Session, callVars
    <2> QED
        BY Zenon, <2>1, <2>2, <2>3, <2>4, <2>5 DEF TypeOK
<1>7. ASSUME FilledOwn(t) PROVE Sound(t)
    <2>1. PositionsOK' /\ Away(t)
        BY Zenon, <1>7, <1>b, AdvanceGoes DEF FilledOwn, Scans
    <2>2. SlotStep(t)
        BY Zenon, <1>0, <1>7, <1>a, <2>1, ReleaseStep DEF FilledOwn
    <2>3. TypeOK'
        BY Zenon, <1>0, <1>7, <2>1, SwapsType DEF FilledOwn
    <2>4. ConnStep(t)
        BY Zenon, <1>7, <1>c DEF FilledOwn, Swaps, connVars, callVars
    <2> QED
        BY Zenon, <2>2, <2>3, <2>4
<1>8. ASSUME HealthReset(t) PROVE Sound(t)
    <2>1. PositionsOK' /\ Away(t)
        BY Zenon, <1>8, <1>b DEF HealthReset
    <2>2. SlotStep(t)
        BY Zenon, <1>0, <1>8, <1>a, <2>1, ReleaseStep DEF HealthReset
    <2>3. SlotsOK' /\ CallsOK' /\ PoolOK'
        BY Zenon, <1>8 DEF HealthReset, TypeOK, SlotsOK, States, CallsOK, PoolOK, poolVars, callVars
    <2>4. ConnsOK'
        BY Zenon, <1>8, SessionType DEF HealthReset
    <2>5. ConnStep(t)
        BY Zenon, <1>8, <1>c DEF HealthReset, Session, callVars
    <2> QED
        BY Zenon, <2>1, <2>2, <2>3, <2>4, <2>5 DEF TypeOK
<1>9. ASSUME HealthFails(t) PROVE Sound(t)
    <2>1. /\ PositionsOK' /\ Away(t)
          /\ call' \in [Threads -> [h : Handles \cup {None}, excl : Conns \cup {None},
                             nested : BOOLEAN, n : 0..PoolMax, m : 0..PoolMax]]
        BY Zenon, <1>9, ReturnType DEF HealthFails
    <2>2. SlotStep(t)
        BY Zenon, <1>0, <1>9, <1>a, <2>1, ReleaseStep DEF HealthFails
    <2>3. SlotsOK' /\ CallsOK' /\ PoolOK'
        BY Zenon, <1>9, <2>1 DEF HealthFails, TypeOK, SlotsOK, States, CallsOK, PoolOK, poolVars
    <2>4. ConnsOK'
        BY Zenon, <1>9, SessionType DEF HealthFails
    <2>5. ConnStep(t)
        BY Zenon, <1>9, <1>c DEF HealthFails, Session
    <2> QED
        BY Zenon, <2>1, <2>2, <2>3, <2>4, <2>5 DEF TypeOK
<1> QED
    BY Zenon, <1>1, <1>2, <1>3, <1>4, <1>5, <1>6, <1>7, <1>8, <1>9

\* Steps within a claim: the second look, and the connection made or not.
LEMMA ClaimedWorkIsSound ==
    ASSUME TypeOK, Settled, "close" \notin Windows, NEW t \in Threads
    PROVE  /\ ReuseOwn(t) => Sound(t)
           /\ EmptyOwn(t) => Sound(t)
           /\ ErrorOwn(t) => Sound(t)
           /\ \A c \in Conns : Connect(t, c) => Sound(t)
           /\ ConnectFails(t) => Sound(t)
<1> USE DEF Sound
<1>0. at[t] \in Slots /\ {"FREE", "READY"} \subseteq States /\ Connecting \subseteq Owning
    BY Zenon DEF TypeOK, PositionsOK, States, Connecting, Owning
<1>a. ASSUME NEW q \in Owning, At(t, q), NEW p \in Owning, Working(p) = Working(q),
             Goto(t, p), st' = st, p \in Connecting => conn'[at[t]] = None
      PROVE  SlotStep(t) /\ PositionsOK'
    <2>1. pc[t] = q /\ pc'[t] = p /\ at'[t] = at[t] /\ Elsewhere(t)
        BY <1>a, AtMeans DEF Goto, Move, TypeOK, PositionsOK, Elsewhere
    <2>2. PositionsOK'
        BY Zenon, <1>a, GotoType DEF PCs
    <2> QED
        BY Zenon, <1>a, <2>1, <2>2 DEF SlotStep, Works
<1>b. ASSUME Claim(t, at[t]), UNCHANGED <<size, due, ref, callVars>>
      PROVE  /\ owner' \in [Slots -> Threads \cup {None}]
             /\ aged' \in [Slots -> BOOLEAN]
             /\ PoolOK' /\ CallsOK'
    BY Zenon, <1>0, <1>b, CacheType DEF Claim, TypeOK, SlotsOK, PoolOK, CallsOK, callVars
<1>1. ASSUME ReuseOwn(t) PROVE Sound(t)
    <2>1. SlotStep(t) /\ PositionsOK'
        BY Zenon, <1>1, <1>a DEF ReuseOwn, Owning, Working, Connecting
    <2>2. SlotsOK' /\ PoolOK' /\ CallsOK' /\ ConnsOK'
        BY Zenon, <1>1, <1>b DEF ReuseOwn, TypeOK, SlotsOK, ConnsOK, connVars
    <2>3. ConnStep(t)
        BY Zenon, <1>1 DEF ReuseOwn, ConnStep, Keeps, connVars, callVars
    <2> QED
        BY Zenon, <2>1, <2>2, <2>3 DEF TypeOK
<1>2. ASSUME EmptyOwn(t) PROVE Sound(t)
    <2>1. SlotStep(t) /\ PositionsOK'
        <3>1. CASE At(t, "createOwn")
            <4>1. Goto(t, "createConnect")
                BY Zenon, <1>2, <3>1 DEF EmptyOwn, At
            <4> QED
                BY Zenon, <1>2, <1>a, <3>1, <4>1 DEF EmptyOwn, Owning, Working, Connecting
        <3>2. CASE At(t, "growOwn")
            <4>1. Goto(t, "growConnect")
                BY Zenon, <1>2, <3>2 DEF EmptyOwn, At
            <4> QED
                BY Zenon, <1>2, <1>a, <3>2, <4>1 DEF EmptyOwn, Owning, Working, Connecting
        <3> QED
            BY Zenon, <1>2, <3>1, <3>2 DEF EmptyOwn
    <2>2. SlotsOK' /\ PoolOK' /\ CallsOK' /\ ConnsOK'
        BY Zenon, <1>2, <1>b DEF EmptyOwn, TypeOK, SlotsOK, ConnsOK, connVars
    <2>3. ConnStep(t)
        BY Zenon, <1>2 DEF EmptyOwn, ConnStep, Keeps, connVars, callVars
    <2> QED
        BY Zenon, <2>1, <2>2, <2>3 DEF TypeOK
<1>3. ASSUME ErrorOwn(t) PROVE Sound(t)
    <2>1. conn' = [conn EXCEPT ![at[t]] = None] /\ conn'[at[t]] = None
        BY Zenon, <1>0, <1>3 DEF ErrorOwn, TypeOK, SlotsOK
    <2>2. SlotStep(t) /\ PositionsOK'
        BY Zenon, <1>3, <1>a, <2>1 DEF ErrorOwn, Owning, Working, Connecting
    <2>3. SlotsOK' /\ PoolOK' /\ CallsOK'
        BY Zenon, <1>3, <1>b, <2>1 DEF ErrorOwn, TypeOK, SlotsOK
    <2>4. live' = live \ {conn[at[t]]}
        BY Zenon, <1>3, PoolAssumption DEF ErrorOwn, Destroy, TypeOK, ConnsOK
    <2>5. ConnsOK'
        BY Zenon, <1>3 DEF ErrorOwn, Destroy, TypeOK, ConnsOK
    <2>6. ConnStep(t)
        BY Zenon, <1>3, <2>1, <2>4 DEF ErrorOwn, ConnStep, Empties, At, Owning, callVars
    <2> QED
        BY Zenon, <2>2, <2>3, <2>5, <2>6 DEF TypeOK
<1>4. ASSUME NEW c \in Conns, Connect(t, c) PROVE Sound(t)
    <2>1. PICK q \in Connecting : At(t, q)
        BY Zenon, <1>4 DEF Connect
    <2>2. conn[at[t]] = None
        BY Zenon, <2>1 DEF At, Settled
    <2>3. PositionsOK' /\ Away(t)
        <3>1. "found" \in PCs \ (Owning \cup {"close"})
            BY Zenon DEF PCs, Owning
        <3>2. then' \in [Threads -> {"cached", "reuse"}]
            BY Zenon, <1>4 DEF Connect, TypeOK, PositionsOK
        <3> QED
            BY Zenon, <1>0, <1>4, <3>1, <3>2, MoveType DEF Connect, TypeOK, Away
    <2>4. SlotStep(t)
        BY Zenon, <1>0, <1>4, <2>1, <2>3, ReleaseStep DEF Connect
    <2>5. SlotsOK' /\ CallsOK'
        BY Zenon, <1>4 DEF Connect, TypeOK, SlotsOK, States, CallsOK, callVars
    <2>6. PoolOK'
        BY Zenon, <1>0, <1>4, CacheType DEF Connect, Cache, TypeOK, PoolOK
    <2>7. ConnsOK'
        BY Zenon, <1>4 DEF Connect, TypeOK, ConnsOK
    <2>8. ConnStep(t)
        BY Zenon, <1>0, <1>4, <2>1, <2>2 DEF Connect, ConnStep, Fills, At, callVars
    <2> QED
        BY Zenon, <2>3, <2>4, <2>5, <2>6, <2>7, <2>8 DEF TypeOK
<1>5. ASSUME ConnectFails(t) PROVE Sound(t)
    <2>1. PICK q \in Connecting : At(t, q)
        BY Zenon, <1>5 DEF ConnectFails
    <2>2. conn[at[t]] = None
        BY Zenon, <2>1 DEF At, Settled
    <2>3. conn' = conn
        BY Zenon, <1>0, <1>5, <2>2 DEF ConnectFails, TypeOK, SlotsOK
    <2>4. PositionsOK' /\ Away(t)
        <3>1. CASE pc[t] = "createConnect"
            BY Zenon, <1>5, <3>1, AdvanceGoes DEF ConnectFails, Scans
        <3>2. CASE pc[t] = "errorConnect"
            BY Zenon, <1>5, <3>2, AdvanceGoes DEF ConnectFails, Scans
        <3>3. CASE pc[t] = "growConnect"
            <4>1. Goto(t, "retry")
                BY Zenon, <1>5, <3>3 DEF ConnectFails
            <4> QED
                BY <4>1, GotoType DEF PCs, Owning
        <3> QED
            BY Zenon, <2>1, <3>1, <3>2, <3>3 DEF At, Connecting
    <2>5. SlotStep(t)
        BY Zenon, <1>0, <1>5, <2>1, <2>4, ReleaseStep DEF ConnectFails
    <2>6. SlotsOK' /\ CallsOK' /\ PoolOK' /\ ConnsOK'
        BY Zenon, <1>5, <2>3 DEF ConnectFails, TypeOK, SlotsOK, States, CallsOK, callVars,
                          PoolOK, poolVars, ConnsOK, connVars
    <2>7. ConnStep(t)
        BY Zenon, <1>5, <2>3 DEF ConnectFails, ConnStep, Keeps, connVars, callVars
    <2> QED
        BY Zenon, <2>4, <2>5, <2>6, <2>7 DEF TypeOK
<1> QED
    BY Zenon, <1>1, <1>2, <1>3, <1>4, <1>5

\* The rest of what a thread does in a call.
LEMMA OtherStepsAreSound ==
    ASSUME TypeOK, Settled, "close" \notin Windows, NEW t \in Threads
    PROVE  /\ ReapDue(t) => Sound(t)
           /\ ReapDestroy(t) => Sound(t)
           /\ Cached(t) => Sound(t)
           /\ Take(t) => Sound(t)
           /\ GrowSize(t) => Sound(t)
           /\ Retry(t) => Sound(t)
           /\ RetriesSpent(t) => Sound(t)
           /\ Track(t) => Sound(t)
           /\ TrackFails(t) => Sound(t)
           /\ Given(t) => Sound(t)
           /\ Done(t) => Sound(t)
           /\ \A h \in Handles : Find(t, h) => Sound(t)
           /\ \A x \in streaming \cup {None} : Get(t, x) => Sound(t)
           /\ \A h \in Handles : Close(t, h) => Sound(t)
<1> USE DEF Sound
<1>0. /\ at[t] \in Slots /\ got[t] \in Conns \cup {None}
      /\ then[t] \in {"cached", "reuse"} /\ 1 \in Slots
      /\ then \in [Threads -> {"cached", "reuse"}]
    BY PoolAssumption DEF TypeOK, PositionsOK, Slots
<1>a. ASSUME NEW i \in Slots, NEW c \in Conns \cup {None},
             NEW p \in PCs \ (Owning \cup {"close"}), Move(t, p, i, c), UNCHANGED then
      PROVE  PositionsOK' /\ Away(t)
    BY Zenon, <1>0, <1>a, MoveType DEF TypeOK, Away
<1>b. {"reap", "cached", "reuse", "take", "ready", "found", "retry", "growCas", "using"}
            \subseteq PCs \ (Owning \cup {"close"})
    BY Zenon DEF PCs, Owning, Scans, Narrow
<1>c. ASSUME NEW p \in {"found", "retry", "growCas", "using", "cached", "reuse"}, Goto(t, p)
      PROVE  PositionsOK' /\ Away(t)
    BY Zenon, <1>c, <1>b, GotoType
<1>d. ASSUME Succeeds(t) PROVE tries' \in [Threads -> 0..MaxTries]
    BY <1>d, PoolAssumption DEF Succeeds, TypeOK, CallsOK
<1>1. ASSUME ReapDue(t) PROVE Sound(t)
    <2>1. PositionsOK' /\ Away(t)
        <3> DEFINE p == IF due THEN "reap" ELSE then[t]
        <3>1. p \in PCs \ (Owning \cup {"close"})
            BY Zenon, <1>0, <1>b
        <3>2. Move(t, p, 1, None) /\ UNCHANGED then
            BY Zenon, <1>1 DEF ReapDue
        <3> HIDE DEF p
        <3> QED
            BY Zenon, <1>0, <1>a, <3>1, <3>2
    <2>2. SlotStep(t) /\ ConnStep(t)
        BY Zenon, <1>1, <2>1, PassStep DEF ReapDue, slotVars, connVars
    <2>3. (IF due THEN size ELSE 0) \in 0..PoolMax
        BY PoolAssumption DEF TypeOK, PoolOK, Slots
    <2>4. CallsOK'
        BY <1>1, <2>3 DEF ReapDue, TypeOK, CallsOK
    <2>5. SlotsOK' /\ PoolOK' /\ ConnsOK'
        BY Zenon, <1>1 DEF ReapDue, TypeOK, SlotsOK, PoolOK, ConnsOK, slotVars, connVars
    <2> QED
        BY Zenon, <2>1, <2>2, <2>4, <2>5 DEF TypeOK
<1>2. ASSUME ReapDestroy(t) PROVE Sound(t)
    <2>1. PositionsOK' /\ Away(t)
        BY Zenon, <1>0, <1>2, <1>c DEF ReapDestroy
    <2>2. SlotStep(t)
        <3>1. PICK p \in PCs \ (Owning \cup {"close"}), i \in Slots,
                   c \in Conns \cup {None} : Move(t, p, i, c)
            BY Zenon, <2>1 DEF Away
        <3>2. pc'[t] = p /\ Elsewhere(t)
            BY Zenon, <1>2, <3>1, AtMeans DEF ReapDestroy, Move, TypeOK, PositionsOK, Elsewhere
        <3> QED
            BY Zenon, <1>2, <3>2 DEF ReapDestroy, SlotStep, Passes, slotVars
    <2>3. SlotsOK' /\ PoolOK' /\ ConnsOK'
        BY Zenon, <1>2
           DEF ReapDestroy, Destroy, TypeOK, SlotsOK, PoolOK, ConnsOK, slotVars, poolVars
    <2>4. CallsOK'
        BY Zenon, <1>2 DEF ReapDestroy, TypeOK, CallsOK
    <2>5. ConnStep(t)
        BY Zenon, <1>2 DEF ReapDestroy, Destroy, ConnStep, Destroys, slotVars
    <2> QED
        BY Zenon, <2>1, <2>2, <2>3, <2>4, <2>5 DEF TypeOK
<1>3. ASSUME Cached(t) PROVE Sound(t)
    <2>1. PositionsOK' /\ Away(t)
        <3>1. CASE Move(t, "ready", 1, None)
            BY Zenon, <1>0, <1>3, <1>a, <1>b, <3>1 DEF Cached
        <3>2. CASE ~Move(t, "ready", 1, None)
            <4>1. /\ Move(t, "take", tls[t].slot, conn[tls[t].slot])
                  /\ tls[t].slot # 0 /\ UNCHANGED then
                BY Zenon, <1>3, <3>2 DEF Cached
            <4>2. tls[t].slot \in Slots
                BY <4>1, PoolAssumption DEF TypeOK, PoolOK, Slots
            <4>3. conn[tls[t].slot] \in Conns \cup {None}
                BY Zenon, <4>2 DEF TypeOK, SlotsOK
            <4> QED
                BY Zenon, <1>a, <1>b, <4>1, <4>2, <4>3
        <3> QED
            BY Zenon, <3>1, <3>2
    <2>2. SlotStep(t) /\ ConnStep(t)
        BY Zenon, <1>3, <2>1, PassStep DEF Cached, slotVars, connVars, callVars
    <2>3. SlotsOK' /\ ConnsOK' /\ CallsOK'
        BY Zenon, <1>3 DEF Cached, TypeOK, SlotsOK, ConnsOK, CallsOK, slotVars, connVars, callVars
    <2>4. PoolOK'
        <3>1. tls' = tls \/ tls' = [tls EXCEPT ![t] = NoEntry]
            BY Zenon, <1>3 DEF Cached
        <3> QED
            BY Zenon, <1>0, <1>3, <3>1, CacheType DEF Cached, TypeOK, PoolOK
    <2> QED
        BY Zenon, <2>1, <2>2, <2>3, <2>4 DEF TypeOK
<1>4. ASSUME Take(t) PROVE Sound(t)
    <2>1. PositionsOK' /\ Away(t)
        BY Zenon, <1>4, <1>c DEF Take
    <2>2. SlotStep(t) /\ ConnStep(t)
        BY Zenon, <1>4, <2>1, PassStep DEF Take, connVars, callVars
    <2>3. SlotsOK' /\ ConnsOK' /\ CallsOK'
        BY Zenon, <1>4 DEF Take, TypeOK, SlotsOK, ConnsOK, CallsOK, connVars, callVars
    <2>4. PoolOK'
        BY Zenon, <1>0, <1>4, CacheType DEF Take, Cache, TypeOK, PoolOK
    <2> QED
        BY Zenon, <2>1, <2>2, <2>3, <2>4 DEF TypeOK
<1>5. ASSUME GrowSize(t) PROVE Sound(t)
    <2>1. PositionsOK' /\ Away(t)
        BY Zenon, <1>5, <1>c DEF GrowSize
    <2>2. SlotStep(t) /\ ConnStep(t)
        BY Zenon, <1>5, <2>1, PassStep DEF GrowSize, slotVars, connVars, callVars
    <2>3. SlotsOK' /\ ConnsOK' /\ CallsOK' /\ PoolOK'
        BY Zenon, <1>0, <1>5 DEF GrowSize, TypeOK, SlotsOK, ConnsOK, CallsOK, PoolOK,
                          slotVars, connVars, callVars
    <2> QED
        BY Zenon, <2>1, <2>2, <2>3 DEF TypeOK
<1>6. ASSUME Retry(t) PROVE Sound(t)
    <2>1. tries' \in [Threads -> 0..MaxTries]
        BY <1>6, PoolAssumption DEF Retry, TypeOK, CallsOK
    <2>2. call[t].h \in Handles \cup {None}
        BY Zenon DEF TypeOK, CallsOK
    <2>3. TypeOK' /\ Away(t)
        BY Zenon, <1>6, <2>1, <2>2, BeginType DEF Retry
    <2> QED
        BY Zenon, <1>6, <2>3, PassStep DEF Retry, Begin, slotVars, connVars
<1>7. ASSUME RetriesSpent(t) PROVE Sound(t)
    <2>1. /\ PositionsOK' /\ Away(t)
          /\ call' \in [Threads -> [h : Handles \cup {None}, excl : Conns \cup {None},
                             nested : BOOLEAN, n : 0..PoolMax, m : 0..PoolMax]]
        BY Zenon, <1>7, ReturnType DEF RetriesSpent
    <2>2. SlotStep(t) /\ ConnStep(t)
        BY Zenon, <1>7, <2>1, PassStep DEF RetriesSpent, slotVars, connVars
    <2>3. SlotsOK' /\ ConnsOK' /\ PoolOK'
        BY Zenon, <1>7
           DEF RetriesSpent, TypeOK, SlotsOK, ConnsOK, PoolOK, slotVars, connVars, poolVars
    <2>4. tries' \in [Threads -> 0..MaxTries]
        BY <1>7, PoolAssumption DEF RetriesSpent, TypeOK, CallsOK
    <2>5. doomed' = doomed
        BY Zenon, <1>7 DEF RetriesSpent
    <2>6. CallsOK'
        BY Zenon, <2>1, <2>4, <2>5 DEF TypeOK, CallsOK
    <2> QED
        BY Zenon, <2>1, <2>2, <2>3, <2>6 DEF TypeOK
<1>8. ASSUME Track(t) PROVE Sound(t)
    <2>1. PositionsOK' /\ Away(t)
        BY Zenon, <1>8, <1>c DEF Track
    <2>2. SlotStep(t) /\ ConnStep(t)
        BY Zenon, <1>8, <2>1, PassStep DEF Track, slotVars, connVars
    <2>3. SlotsOK' /\ ConnsOK'
        BY Zenon, <1>8 DEF Track, TypeOK, SlotsOK, ConnsOK, slotVars, connVars
    <2>4. CallsOK'
        BY Zenon, <1>8, <1>d DEF Track, TypeOK, CallsOK
    <2>5. call[t].h \in Handles
        BY Zenon, <1>8 DEF Track, TypeOK, CallsOK
    <2>6. ref' \in [Handles -> 0..PoolMax]
        <3>1. CASE Holding(got[t]) = {}
            BY Zenon, <1>8, <3>1 DEF Track, TypeOK, PoolOK
        <3>2. CASE Holding(got[t]) # {}
            <4>1. PoolMax \in Nat /\ \A i \in 1..PoolMax : i \in 0..PoolMax
                BY PoolAssumption
            <4>2. Holding(got[t]) \in SUBSET (1..PoolMax)
                BY Zenon DEF Holding, Slots
            <4>3. First(Holding(got[t])) \in 1..PoolMax
                BY Zenon, <3>2, <4>1, <4>2, FirstExists
            <4>4. First(Holding(got[t])) \in 0..PoolMax
                BY Zenon, <4>1, <4>3
            <4> QED
                BY Zenon, <1>8, <2>5, <3>2, <4>4 DEF Track, TypeOK, PoolOK
        <3> QED
            BY Zenon, <3>1, <3>2
    <2>7. PoolOK'
        BY Zenon, <1>8, <2>5, <2>6 DEF Track, TypeOK, PoolOK
    <2> QED
        BY Zenon, <2>1, <2>2, <2>3, <2>4, <2>7 DEF TypeOK
<1>9. ASSUME TrackFails(t) PROVE Sound(t)
    <2>1. /\ PositionsOK' /\ Away(t)
          /\ call' \in [Threads -> [h : Handles \cup {None}, excl : Conns \cup {None},
                             nested : BOOLEAN, n : 0..PoolMax, m : 0..PoolMax]]
        BY Zenon, <1>9, ReturnType DEF TrackFails
    <2>2. SlotStep(t) /\ ConnStep(t)
        BY Zenon, <1>9, <2>1, PassStep DEF TrackFails, slotVars, connVars
    <2>3. SlotsOK' /\ ConnsOK' /\ PoolOK'
        BY Zenon, <1>9
           DEF TrackFails, TypeOK, SlotsOK, ConnsOK, PoolOK, slotVars, connVars, poolVars
    <2>4. CallsOK'
        BY Zenon, <1>9, <1>d, <2>1 DEF TrackFails, TypeOK, CallsOK
    <2> QED
        BY Zenon, <2>1, <2>2, <2>3, <2>4 DEF TypeOK
<1>10. ASSUME Given(t) PROVE Sound(t)
    <2>1. PositionsOK' /\ Away(t)
        BY Zenon, <1>10, <1>c DEF Given
    <2>2. SlotStep(t) /\ ConnStep(t)
        BY Zenon, <1>10, <2>1, PassStep DEF Given, slotVars, connVars
    <2>3. SlotsOK' /\ ConnsOK' /\ PoolOK'
        BY Zenon, <1>10 DEF Given, TypeOK, SlotsOK, ConnsOK, PoolOK, slotVars, connVars, poolVars
    <2>4. CallsOK'
        BY Zenon, <1>10, <1>d DEF Given, TypeOK, CallsOK
    <2> QED
        BY Zenon, <2>1, <2>2, <2>3, <2>4 DEF TypeOK
<1>11. ASSUME Done(t) PROVE Sound(t)
    <2>1. /\ PositionsOK' /\ Away(t)
          /\ call' \in [Threads -> [h : Handles \cup {None}, excl : Conns \cup {None},
                             nested : BOOLEAN, n : 0..PoolMax, m : 0..PoolMax]]
        BY Zenon, <1>11, ReturnType DEF Done
    <2>2. SlotStep(t) /\ ConnStep(t)
        BY Zenon, <1>11, <2>1, PassStep DEF Done, slotVars, connVars
    <2>3. SlotsOK' /\ ConnsOK' /\ PoolOK' /\ CallsOK'
        BY Zenon, <1>11, <2>1 DEF Done, TypeOK, SlotsOK, ConnsOK, PoolOK, CallsOK,
                           slotVars, connVars, poolVars
    <2> QED
        BY Zenon, <2>1, <2>2, <2>3 DEF TypeOK
<1>12. ASSUME NEW h \in Handles, Find(t, h) PROVE Sound(t)
    <2>1. TypeOK' /\ Away(t)
        BY Zenon, <1>12, BeginType DEF Find, TypeOK, CallsOK
    <2> QED
        BY Zenon, <1>12, <2>1, PassStep DEF Find, Begin, slotVars, connVars
<1>13. ASSUME NEW x \in streaming \cup {None}, Get(t, x) PROVE Sound(t)
    <2>1. x \in Conns \cup {None}
        BY Zenon DEF TypeOK, ConnsOK
    <2>2. TypeOK' /\ Away(t)
        BY Zenon, <1>13, <2>1, BeginType DEF Get, TypeOK, CallsOK
    <2> QED
        BY Zenon, <1>13, <2>2, PassStep DEF Get, Begin, slotVars, connVars
<1>14. ASSUME NEW h \in Handles, Close(t, h) PROVE Sound(t)
    <2>1. SlotsOK' /\ ConnsOK' /\ CallsOK' /\ ConnStep(t) /\ st' = st
        BY Zenon, <1>14 DEF Close, TypeOK, SlotsOK, ConnsOK, CallsOK, slotVars, connVars,
                     callVars, ConnStep, Keeps
    <2>2. PoolOK'
        <3>a. ref' = [ref EXCEPT ![h] = 0]
            BY <1>14, Zenon DEF Close
        <3>0. ref' = [ref EXCEPT ![h] = 0] /\ 0 \in 0..PoolMax
            BY <3>a, PoolAssumption
        <3>1. ref' \in [Handles -> 0..PoolMax]
            BY Zenon, <3>0 DEF TypeOK, PoolOK
        <3>2. tls' = tls \/ tls' = [tls EXCEPT ![t] = NoEntry]
            BY <1>14, Zenon DEF Close
        <3>3. tls' \in [Threads -> [key : Handles \cup {None}, slot : 0..PoolMax]]
            <4>1. tls \in [Threads -> [key : Handles \cup {None}, slot : 0..PoolMax]]
                BY Zenon DEF TypeOK, PoolOK
            <4>2. [tls EXCEPT ![t] = NoEntry]
                        \in [Threads -> [key : Handles \cup {None}, slot : 0..PoolMax]]
                BY Zenon, <1>0, CacheType
            <4>3. CASE tls' = tls
                BY Zenon, <4>1, <4>3
            <4>4. CASE tls' = [tls EXCEPT ![t] = NoEntry]
                BY Zenon, <4>2, <4>4
            <4> QED
                BY Zenon, <3>2, <4>3, <4>4
        <3>4. size' = size /\ due' = due
            BY <1>14, Zenon DEF Close
        <3> QED
            BY Zenon, <3>1, <3>3, <3>4 DEF TypeOK, PoolOK
    <2>3. CASE Move(t, "close", ref[h], conn[ref[h]]) /\ ref[h] \in 1..size /\ st[ref[h]] = "READY"
        <3>1. ref[h] \in Slots
            BY <2>3, PoolAssumption DEF TypeOK, PoolOK, Slots
        <3>2. conn[ref[h]] \in Conns \cup {None} /\ "close" \in PCs /\ "close" \notin Owning
            BY Zenon, <3>1 DEF TypeOK, SlotsOK, PCs, Narrow, Owning
        <3>3. PositionsOK'
            BY Zenon, <1>0, <1>14, <2>3, <3>1, <3>2, MoveType DEF Close, TypeOK
        <3>4. pc'[t] = "close" /\ at'[t] = ref[h] /\ Elsewhere(t)
            BY Zenon, <1>14, <2>3, AtMeans DEF Close, Move, TypeOK, PositionsOK, Elsewhere
        <3>5. SlotStep(t)
            BY Zenon, <2>1, <2>3, <3>2, <3>4 DEF SlotStep, Passes
        <3> QED
            BY Zenon, <2>1, <2>2, <3>3, <3>5 DEF TypeOK
    <2>4. CASE UNCHANGED <<pc, at, got>>
        <3>1. PositionsOK'
            BY Zenon, <1>14, <2>4 DEF Close, TypeOK, PositionsOK
        <3>2. Elsewhere(t) /\ pc'[t] = "idle"
            BY Zenon, <1>14, <2>4, AtMeans DEF Close, Elsewhere
        <3>3. SlotStep(t)
            BY Zenon, <2>1, <3>2 DEF SlotStep, Passes, Owning
        <3> QED
            BY Zenon, <2>1, <2>2, <3>1, <3>3 DEF TypeOK
    <2> QED
        BY Zenon, <1>14, <2>3, <2>4 DEF Close
<1> QED
    BY Zenon, <1>1, <1>2, <1>3, <1>4, <1>5, <1>6, <1>7, <1>8, <1>9, <1>10, <1>11, <1>12,
       <1>13, <1>14

\* Nothing a thread is at, or a claim rests on, changes.
Still == TypeOK' /\ UNCHANGED <<st, conn, live, doomed, pc, at>>

\* Time, the network, and what is done with a connection in hand.
LEMMA EnvironmentIsStill ==
    ASSUME TypeOK
    PROVE  /\ \A t \in Threads : Touch(t) => Still
           /\ \A t \in Threads : BeginStream(t) => Still
           /\ \A c \in Conns : EndStream(c) => Still
           /\ \A c \in Conns : Break(c) => Still
           /\ \A i \in Slots : Age(i) => Still
           /\ Tick => Still
<1> USE DEF Still, TypeOK, SlotsOK, PoolOK, ConnsOK, PositionsOK, CallsOK, slotVars,
            poolVars, connVars, callVars
<1>1. ASSUME NEW t \in Threads, Touch(t) PROVE Still
    BY Zenon, <1>1 DEF Touch
<1>2. ASSUME NEW t \in Threads, BeginStream(t) PROVE Still
    BY Zenon, <1>2 DEF BeginStream, connOk
<1>3. ASSUME NEW c \in Conns, EndStream(c) PROVE Still
    BY Zenon, <1>3 DEF EndStream
<1>4. ASSUME NEW c \in Conns, Break(c) PROVE Still
    BY Zenon, <1>4 DEF Break
<1>5. ASSUME NEW i \in Slots, Age(i) PROVE Still
    BY Zenon, <1>5 DEF Age
<1>6. ASSUME Tick PROVE Still
    BY Zenon, <1>6 DEF Tick
<1> QED
    BY Zenon, <1>1, <1>2, <1>3, <1>4, <1>5, <1>6

------------------------------------------------------------------------------
(* The theorem.                                                            *)

IInv == TypeOK /\ ClaimExclusive /\ NoLeak /\ Settled

\* What a sound step keeps.
LEMMA SoundKeeps ==
    ASSUME IInv, NEW t \in Threads, Sound(t)
    PROVE  IInv'
    BY Zenon, SlotStepKeeps, ConnStepKeeps DEF IInv, Sound

\* What a still step keeps.
LEMMA StillKeeps ==
    ASSUME IInv, Still
    PROVE  IInv'
    BY Zenon DEF IInv, Still, ClaimExclusive, NoLeak, Settled

\* Every step of a thread is sound.
LEMMA StepIsSound ==
    ASSUME TypeOK, Settled, "close" \notin Windows, NEW t \in Threads, Step(t)
    PROVE  Sound(t)
    BY Zenon, LooksAreSound, SwapsAreSound, FreeingIsSound, ReleasesAreSound,
       ClaimedWorkIsSound, OtherStepsAreSound DEF Step

\* What the pool starts with.
LEMMA InitIsSound ==
    ASSUME Init
    PROVE  IInv
<1>1. 1 \in Slots /\ PoolSize \in Slots /\ 0 \in 0..PoolMax /\ 0 \in 0..MaxTries
    BY PoolAssumption DEF Slots
<1>2. SlotsOK
    BY Zenon DEF Init, SlotsOK, States
<1>3. PoolOK
    <2>1. due \in BOOLEAN
        BY DEF Init
    <2> QED
        BY Zenon, <1>1, <2>1 DEF Init, PoolOK, NoEntry
<1>4. ConnsOK
    BY Zenon DEF Init, ConnsOK
<1>5. PositionsOK
    BY Zenon, <1>1 DEF Init, PositionsOK, PCs
<1>6. CallsOK
    BY Zenon, <1>1 DEF Init, CallsOK, NoCall
<1>7. ClaimExclusive /\ Settled
    BY Zenon DEF Init, ClaimExclusive, Settled, Owning, Connecting
<1>8. NoLeak
    BY Zenon, PoolAssumption DEF Init, NoLeak
<1> QED
    BY Zenon, <1>2, <1>3, <1>4, <1>5, <1>6, <1>7, <1>8 DEF IInv, TypeOK

\* Every step keeps the inductive invariant.
LEMMA NextIsSound ==
    ASSUME IInv, "close" \notin Windows, [Next]_vars
    PROVE  IInv'
<1>1. CASE UNCHANGED vars
    <2>1. TypeOK'
        BY Zenon, <1>1 DEF IInv, vars, TypeOK, SlotsOK, PoolOK, ConnsOK, PositionsOK,
                    CallsOK, slotVars, poolVars, connVars, callVars
    <2> QED
        BY Zenon, <1>1, <2>1, StillKeeps DEF Still, vars, slotVars, connVars, callVars
<1>2. ASSUME NEW t \in Threads, Step(t) PROVE IInv'
    BY Zenon, <1>2, StepIsSound, SoundKeeps DEF IInv
<1>3. ASSUME NEW t \in Threads, NEW h \in Handles, Find(t, h) \/ Close(t, h)
      PROVE  IInv'
    BY Zenon, <1>3, OtherStepsAreSound, SoundKeeps DEF IInv
<1>4. ASSUME NEW t \in Threads, NEW x \in streaming \cup {None}, Get(t, x)
      PROVE  IInv'
    BY Zenon, <1>4, OtherStepsAreSound, SoundKeeps DEF IInv
<1>5. ASSUME NEW t \in Threads, HealthLook(t) \/ Done(t) PROVE IInv'
    BY Zenon, <1>5, OtherStepsAreSound, LooksAreSound, SoundKeeps DEF IInv
<1>6. ASSUME NEW t \in Threads, Touch(t) \/ BeginStream(t) PROVE IInv'
    BY Zenon, <1>6, EnvironmentIsStill, StillKeeps DEF IInv
<1>7. ASSUME NEW c \in Conns, EndStream(c) \/ Break(c) PROVE IInv'
    BY Zenon, <1>7, EnvironmentIsStill, StillKeeps DEF IInv
<1>8. ASSUME NEW i \in Slots, Age(i) PROVE IInv'
    BY Zenon, <1>8, EnvironmentIsStill, StillKeeps DEF IInv
<1>9. ASSUME Tick PROVE IInv'
    BY Zenon, <1>9, EnvironmentIsStill, StillKeeps DEF IInv
<1> QED
    BY Zenon, <1>1, <1>2, <1>3, <1>4, <1>5, <1>6, <1>7, <1>8, <1>9 DEF Next

\* For any number of threads, handles, connections and slots, and whatever
\* else the environment does, as long as the two stores of a closing handle
\* (pool_runtime.rs) are not come between: claims are exclusive and no
\* connection is leaked, closed twice or left in a slot after its close.
THEOREM ClaimsHold ==
    ASSUME "close" \notin Windows
    PROVE  Spec => [](TypeOK /\ ClaimExclusive /\ NoLeak)
<1>1. Init => IInv
    BY Zenon, InitIsSound
<1>2. IInv /\ [Next]_vars => IInv'
    BY Zenon, NextIsSound
<1>3. IInv => TypeOK /\ ClaimExclusive /\ NoLeak
    BY Zenon DEF IInv
<1> QED
    BY <1>1, <1>2, <1>3, PTL DEF Spec

(* No connection of the pool leaks, whatever the number of threads and      *)
(* slots: each live one is in one slot or on one thread's list to be        *)
(* destroyed, and none is closed twice (reap_idle, phase 3).                *)
THEOREM NothingLeaks ==
    ASSUME "close" \notin Windows
    PROVE  Spec => []NoLeak
<1>1. Spec => [](TypeOK /\ ClaimExclusive /\ NoLeak)
    BY Zenon, ClaimsHold
<1> QED
    BY <1>1, PTL

------------------------------------------------------------------------------
(* Who talks on a connection.                                              *)

\* Where a thread has a connection at hand, the slot it is in is the thread's.
Hands == {"take", "found", "using", "close", "reset"}

\* What a thread's position says of its slot and its connection.
Right(t) ==
    /\ pc[t] \in Hands => got[t] # None /\ conn[at[t]] = got[t]
    /\ pc[t] \in Hands \cup Connecting => owner[at[t]] = t
    /\ pc[t] \in Hands \ {"reset"} => st[at[t]] = "READY"
    /\ pc[t] \in {"found", "using", "reset"} \cup Connecting => aged[at[t]] = FALSE
    /\ pc[t] = "take" => got[t] \notin streaming
    /\ pc[t] \in {"reuseCas", "reuseOwn"} => got[t] # None
    /\ pc[t] = "zombieCas" => aged[at[t]] = TRUE
    /\ pc[t] \notin {"readyCas", "reconnect", "healthCas", "health"}

\* No two threads are in the short windows at once.
Alone == \A t, u \in Threads : t # u /\ pc[t] \in Narrow => pc[u] \notin Narrow

\* Without broken connections, what is READY has a session.
Served ==
    /\ \A i \in Slots : st[i] = "READY" => conn[i] # None /\ sess[conn[i]] = "ok"
    /\ \A c \in Conns : sess[c] # "bad"
    /\ streaming \subseteq live

OwnInv == IInv /\ (\A t \in Threads : Right(t)) /\ Alone /\ Served

\* The positions that say nothing of a slot.
Plain == PCs \ (Hands \cup Connecting \cup
                {"reuseCas", "reuseOwn", "zombieCas", "readyCas", "reconnect",
                 "healthCas", "health"})

\* The other threads stay where they are.
Others(t) ==
    \A u \in Threads \ {t} : pc'[u] = pc[u] /\ at'[u] = at[u] /\ got'[u] = got[u]

\* Thread t is right where it gets to, and what it is given is idle.
Lands(t) == Right(t)' /\ (pc'[t] = "found" => got'[t] \notin streaming')

\* What is known of every step: the invariant, and that what is given is idle.
Fine ==
    /\ OwnInv'
    /\ \A t \in Threads : pc[t] # "found" /\ pc'[t] = "found" => got'[t] \notin streaming'

\* A step of t leaves the other slots alone, and its own unless nobody else
\* can have it in hand.
SlotOwn(t) ==
    LET i == at[t] IN
    /\ \A j \in Slots \ {i} : /\ st'[j] = st[j] /\ conn'[j] = conn[j]
                              /\ owner'[j] = owner[j] /\ aged'[j] = aged[j]
    /\ \/ /\ st'[i] = st[i] /\ conn'[i] = conn[i] /\ owner'[i] = owner[i]
          /\ aged'[i] \in {aged[i], FALSE}
       \/ st[i] \in {"FREE", "ERROR"}
       \/ pc[t] \in Owning
       \/ pc[t] = "zombieCas" /\ st[i] = "READY"
       \/ pc[t] = "close"

\* A step of t leaves the sessions of the other slots' connections alone.
SessionsOwn(t) ==
    /\ \A j \in Slots \ {at[t]} : conn[j] # None => sess'[conn[j]] = sess[conn[j]]
    /\ st'[at[t]] = "READY" => conn'[at[t]] # None /\ sess'[conn'[at[t]]] = "ok"
    /\ \A c \in Conns : sess'[c] # "bad"
    /\ streaming' \subseteq live'

\* With no window open, a thread that moves is the only one near a window.
LEMMA AtAlone ==
    ASSUME Windows = {}, NEW t \in Threads, NEW q, At(t, q)
    PROVE  pc[t] = q /\ \A u \in Threads \ {t} : pc[u] \notin Narrow
    BY Zenon DEF At

\* A move takes the thread that makes it.
LEMMA MoveGoes ==
    ASSUME TypeOK, NEW t \in Threads, NEW p, NEW i, NEW c, Move(t, p, i, c)
    PROVE  pc'[t] = p /\ at'[t] = i /\ got'[t] = c /\ Others(t)
    BY Zenon DEF TypeOK, PositionsOK, Move, Others

\* A plain position is right.
LEMMA PlainLands ==
    ASSUME TypeOK, NEW t \in Threads, NEW p \in Plain, NEW i, NEW c, Move(t, p, i, c)
    PROVE  Others(t) /\ Lands(t)
<1>1. pc'[t] = p /\ Others(t)
    BY Zenon, MoveGoes
<1>2. /\ pc'[t] \notin Hands \cup Connecting
      /\ pc'[t] \notin {"reuseCas", "reuseOwn", "zombieCas", "readyCas", "reconnect",
                        "healthCas", "health"}
    BY Zenon, <1>1 DEF Plain
<1>3. Right(t)'
    BY Zenon, <1>2 DEF Right, Hands
<1>4. pc'[t] # "found"
    BY Zenon, <1>2 DEF Hands
<1> QED
    BY Zenon, <1>1, <1>3, <1>4 DEF Lands

\* Where a scan that goes on, a scan of reap_idle and the end of a call go.
LEMMA GoesPlain ==
    ASSUME TypeOK, NEW t \in Threads
    PROVE  /\ \A phase \in Scans : Advance(t, phase) => Others(t) /\ Lands(t)
           /\ ReapNext(t) => Others(t) /\ Lands(t)
           /\ Return(t) => Others(t) /\ Lands(t)
           /\ \A p \in Plain : Goto(t, p) => Others(t) /\ Lands(t)
<1>1. ASSUME NEW phase \in Scans, Advance(t, phase) PROVE Others(t) /\ Lands(t)
    <2>1. NextPhase(phase) \in Plain /\ phase \in Plain
        BY Zenon DEF Plain, PCs, Scans, Owning, Narrow, NextPhase, Hands, Connecting
    <2> QED
        BY Zenon, <1>1, <2>1, PlainLands DEF Advance
<1>2. ASSUME ReapNext(t) PROVE Others(t) /\ Lands(t)
    <2>1. "reap" \in Plain /\ "destroy" \in Plain
        BY Zenon DEF Plain, PCs, Hands, Connecting
    <2> QED
        BY Zenon, <1>2, <2>1, PlainLands DEF ReapNext
<1>3. ASSUME Return(t) PROVE Others(t) /\ Lands(t)
    <2>1. "idle" \in Plain
        BY Zenon DEF Plain, PCs, Hands, Connecting
    <2> QED
        BY Zenon, <1>3, <2>1, PlainLands DEF Return
<1>4. ASSUME NEW p \in Plain, Goto(t, p) PROVE Others(t) /\ Lands(t)
    BY Zenon, <1>4, PlainLands DEF Goto
<1> QED
    BY Zenon, <1>1, <1>2, <1>3, <1>4

\* A slot another thread has in hand stays as it is.
LEMMA HandStays ==
    ASSUME OwnInv, NEW t \in Threads, SlotOwn(t), NEW u \in Threads \ {t},
           pc[u] \in {"found", "using", "reset"} \cup Connecting
    PROVE  LET i == at[u] IN
           /\ st'[i] = st[i] /\ conn'[i] = conn[i] /\ owner'[i] = owner[i]
           /\ aged'[i] = FALSE
<1>1. Right(t) /\ Right(u) /\ at[u] \in Slots /\ at[t] \in Slots
    BY Zenon DEF OwnInv, IInv, TypeOK, PositionsOK
<1>2. owner[at[u]] = u /\ aged[at[u]] = FALSE
    BY Zenon, <1>1 DEF Right, Hands
<1>3. CASE at[u] # at[t]
    BY Zenon, <1>1, <1>2, <1>3 DEF SlotOwn
<1>4. CASE at[u] = at[t]
    <2>1. st[at[t]] \in {"READY", "RESERVED"}
        <3>1. CASE pc[u] \in {"found", "using"}
            BY Zenon, <1>1, <1>4, <3>1 DEF Right, Hands
        <3>2. CASE pc[u] \in {"reset"} \cup Connecting
            BY Zenon, <1>4, <3>2 DEF OwnInv, IInv, ClaimExclusive, Owning, Connecting
        <3> QED
            BY Zenon, <3>1, <3>2
    <2>2. pc[t] \notin Owning
        <3> SUFFICES ASSUME pc[t] \in Owning PROVE FALSE
            BY Zenon
        <3>1. pc[t] \notin {"reconnect", "health"}
            BY Zenon, <1>1 DEF Right
        <3>2. st[at[t]] = "RESERVED" /\ pc[u] \notin Owning
            BY Zenon, <1>4, <3>1 DEF OwnInv, IInv, ClaimExclusive
        <3>3. pc[u] \in {"found", "using"}
            BY Zenon, <3>2 DEF Owning, Connecting
        <3>4. st[at[u]] = "READY"
            BY Zenon, <1>1, <3>3 DEF Right, Hands
        <3> QED
            BY Zenon, <1>4, <3>2, <3>4
    <2>3. ~(pc[t] = "zombieCas" /\ st[at[t]] = "READY")
        BY Zenon, <1>1, <1>2, <1>4 DEF Right
    <2>4. pc[t] # "close"
        <3>1. pc[t] = "close" => owner[at[t]] = t
            BY Zenon, <1>1 DEF Right, Hands
        <3> QED
            BY Zenon, <1>2, <1>4, <3>1
    <2>5. /\ st'[at[t]] = st[at[t]] /\ conn'[at[t]] = conn[at[t]]
          /\ owner'[at[t]] = owner[at[t]] /\ aged'[at[t]] \in {aged[at[t]], FALSE}
        BY Zenon, <2>1, <2>2, <2>3, <2>4 DEF SlotOwn
    <2> QED
        BY Zenon, <1>2, <1>4, <2>5
<1> QED
    BY Zenon, <1>3, <1>4

\* A step that keeps to its own slot, and lands right, is fine.
LEMMA OwnStepKeeps ==
    ASSUME OwnInv, IInv', NEW t \in Threads, Others(t), SlotOwn(t), SessionsOwn(t),
           Lands(t), \A u \in Threads \ {t} : pc[u] \notin Narrow
    PROVE  Fine
<1>1. ASSUME NEW u \in Threads \ {t} PROVE Right(u)'
    <2>1. Right(u) /\ pc[u] \notin {"take", "close", "zombieCas"}
        BY Zenon DEF OwnInv, Narrow
    <2>2. pc'[u] = pc[u] /\ at'[u] = at[u] /\ got'[u] = got[u]
        BY Zenon DEF Others
    <2>3. CASE pc[u] \in {"found", "using", "reset"} \cup Connecting
        <3>1. /\ st'[at[u]] = st[at[u]] /\ conn'[at[u]] = conn[at[u]]
              /\ owner'[at[u]] = owner[at[u]] /\ aged'[at[u]] = FALSE
            BY Zenon, <2>3, HandStays
        <3> QED
            BY Zenon, <2>1, <2>2, <3>1 DEF Right
    <2>4. CASE pc[u] \notin {"found", "using", "reset"} \cup Connecting
        BY Zenon, <2>1, <2>2, <2>4 DEF Right, Hands
    <2> QED
        BY Zenon, <2>3, <2>4
<1>2. \A u \in Threads : Right(u)'
    BY Zenon, <1>1 DEF Lands
<1>3. Alone'
    BY Zenon DEF Alone, Others
<1>4. Served'
    BY Zenon DEF OwnInv, Served, SlotOwn, SessionsOwn
<1>5. \A u \in Threads : pc[u] # "found" /\ pc'[u] = "found" => got'[u] \notin streaming'
    BY Zenon DEF Lands, Others
<1> QED
    BY Zenon, <1>2, <1>3, <1>4, <1>5 DEF Fine, OwnInv

\* A step that changes neither slots nor connections.
LEMMA LookKeepsOwn ==
    ASSUME OwnInv, IInv', Windows = {}, NEW t \in Threads, NEW q, At(t, q),
           UNCHANGED <<slotVars, connVars>>, Others(t), Lands(t)
    PROVE  Fine
<1>1. \A u \in Threads \ {t} : pc[u] \notin Narrow
    BY Zenon, AtAlone
<1>2. SlotOwn(t)
    BY Zenon DEF SlotOwn, slotVars
<1>3. SessionsOwn(t)
    <2>1. at[t] \in Slots
        BY Zenon DEF OwnInv, IInv, TypeOK, PositionsOK
    <2> QED
        BY Zenon, <2>1 DEF OwnInv, Served, SessionsOwn, slotVars, connVars
<1> QED
    BY Zenon, <1>1, <1>2, <1>3, OwnStepKeeps

\* A step that changes the state of its own slot alone.
LEMMA SwapKeepsOwn ==
    ASSUME OwnInv, IInv', Windows = {}, NEW t \in Threads, NEW q, At(t, q), Swaps,
           NEW x \in States \ {"READY"}, st' = [st EXCEPT ![at[t]] = x],
           \/ st[at[t]] \in {"FREE", "ERROR"}
           \/ pc[t] \in Owning
           \/ pc[t] = "zombieCas" /\ st[at[t]] = "READY",
           Others(t), Lands(t)
    PROVE  Fine
<1>1. \A u \in Threads \ {t} : pc[u] \notin Narrow
    BY Zenon, AtAlone
<1>2. at[t] \in Slots /\ st \in [Slots -> States]
    BY Zenon DEF OwnInv, IInv, TypeOK, PositionsOK, SlotsOK
<1>3. st'[at[t]] = x /\ \A j \in Slots \ {at[t]} : st'[j] = st[j]
    BY Zenon, <1>2
<1>4. SlotOwn(t)
    BY Zenon, <1>3 DEF SlotOwn, Swaps
<1>5. SessionsOwn(t)
    BY Zenon, <1>3 DEF OwnInv, Served, SessionsOwn, Swaps, connVars
<1> QED
    BY Zenon, <1>1, <1>4, <1>5, OwnStepKeeps

\* One that finds the state changed since it looked.
LEMMA MissKeepsOwn ==
    ASSUME OwnInv, IInv', Windows = {}, NEW t \in Threads, NEW q, At(t, q), Swaps,
           st' = st, Others(t), Lands(t)
    PROVE  Fine
<1>1. UNCHANGED <<slotVars, connVars>>
    BY Zenon DEF Swaps, slotVars, connVars
<1> QED
    BY Zenon, <1>1, LookKeepsOwn

\* The looks of the scans.
LEMMA LooksAreFine ==
    ASSUME OwnInv, IInv', Windows = {}, NEW t \in Threads
    PROVE  /\ ZombieLook(t) => Fine
           /\ ReapLook(t) => Fine
           /\ ReadyLook(t) => Fine
           /\ ReuseLook(t) => Fine
           /\ CreateLook(t) => Fine
           /\ GrowLook(t) => Fine
           /\ HealthLook(t) => Fine
<1>0. /\ TypeOK /\ Right(t) /\ Served /\ at[t] \in Slots
      /\ got[t] \in Conns \cup {None} /\ conn[at[t]] \in Conns \cup {None}
      /\ aged[at[t]] \in BOOLEAN
    BY Zenon DEF OwnInv, IInv, TypeOK, PositionsOK, SlotsOK
<1>a. ASSUME NEW q, At(t, q), Looks, Others(t), Lands(t) PROVE Fine
    BY Zenon, <1>a, LookKeepsOwn DEF Looks
<1>b. {"zombie", "ready", "reuse", "create"} \subseteq Scans
    BY Zenon DEF Scans
<1>c. {"reapCas", "createCas", "retry", "growSize"} \subseteq Plain
    BY Zenon DEF Plain, PCs, Hands, Connecting
<1>1. ASSUME ZombieLook(t) PROVE Fine
    <2>1. CASE Zombie(at[t])
        <3>1. pc'[t] = "zombieCas" /\ at'[t] = at[t] /\ Others(t)
            BY Zenon, <1>0, <1>1, <2>1, MoveGoes DEF ZombieLook, Goto
        <3>2. aged'[at[t]] = TRUE
            BY Zenon, <1>0, <1>1, <2>1 DEF ZombieLook, Zombie, Looks, slotVars
        <3>3. Lands(t)
            BY Zenon, <3>1, <3>2 DEF Lands, Right, Hands, Connecting
        <3> QED
            BY Zenon, <1>1, <1>a, <3>1, <3>3 DEF ZombieLook
    <2>2. CASE ~Zombie(at[t])
        BY Zenon, <1>0, <1>1, <1>a, <1>b, <2>2, GoesPlain DEF ZombieLook
    <2> QED
        BY Zenon, <2>1, <2>2
<1>2. ASSUME ReapLook(t) PROVE Fine
    <2>1. Others(t) /\ Lands(t)
        BY Zenon, <1>0, <1>2, <1>c, GoesPlain DEF ReapLook
    <2> QED
        BY Zenon, <1>2, <1>a, <2>1 DEF ReapLook
<1>3. ASSUME ReadyLook(t) PROVE Fine
    <2>1. CASE ~Mine(t, at[t]) \/ (connOk(conn[at[t]]) /\ isStreaming(at[t]))
        BY Zenon, <1>0, <1>3, <1>a, <1>b, <2>1, GoesPlain DEF ReadyLook
    <2>2. CASE ~(~Mine(t, at[t]) \/ (connOk(conn[at[t]]) /\ isStreaming(at[t])))
        <3>1. /\ st[at[t]] = "READY" /\ owner[at[t]] = t /\ conn[at[t]] # None
              /\ sess[conn[at[t]]] = "ok"
            BY Zenon, <1>0, <2>2 DEF Mine, Served
        <3>2. connOk(conn[at[t]]) /\ conn[at[t]] \notin streaming
            BY Zenon, <2>2, <3>1 DEF connOk, isStreaming
        <3>3. Move(t, "take", at[t], conn[at[t]])
            BY Zenon, <1>3, <2>2, <3>2 DEF ReadyLook
        <3>4. pc'[t] = "take" /\ at'[t] = at[t] /\ got'[t] = conn[at[t]] /\ Others(t)
            BY Zenon, <1>0, <3>3, MoveGoes
        <3>5. UNCHANGED <<st, conn, owner, aged, streaming>>
            BY Zenon, <1>3 DEF ReadyLook, Looks, slotVars, connVars
        <3>6. Lands(t)
            BY Zenon, <3>1, <3>2, <3>4, <3>5 DEF Lands, Right, Hands, Connecting
        <3> QED
            BY Zenon, <1>3, <1>a, <3>4, <3>6 DEF ReadyLook
    <2> QED
        BY Zenon, <2>1, <2>2
<1>4. ASSUME ReuseLook(t) PROVE Fine
    <2>1. CASE conn[at[t]] \in {None, call[t].excl} \/ isStreaming(at[t])
        BY Zenon, <1>0, <1>4, <1>a, <1>b, <2>1, GoesPlain DEF ReuseLook
    <2>2. CASE ~(conn[at[t]] \in {None, call[t].excl} \/ isStreaming(at[t]))
        <3>1. pc'[t] = "reuseCas" /\ got'[t] = conn[at[t]] /\ Others(t)
            <4>1. Move(t, "reuseCas", at[t], conn[at[t]])
                BY Zenon, <1>4, <2>2 DEF ReuseLook
            <4> QED
                BY Zenon, <1>0, <4>1, MoveGoes
        <3>2. Lands(t)
            BY Zenon, <2>2, <3>1 DEF Lands, Right, Hands, Connecting
        <3> QED
            BY Zenon, <1>4, <1>a, <3>1, <3>2 DEF ReuseLook
    <2> QED
        BY Zenon, <2>1, <2>2
<1>5. ASSUME CreateLook(t) PROVE Fine
    <2>1. Others(t) /\ Lands(t)
        BY Zenon, <1>0, <1>5, <1>b, <1>c, GoesPlain DEF CreateLook
    <2> QED
        BY Zenon, <1>5, <1>a, <2>1 DEF CreateLook
<1>6. ASSUME GrowLook(t) PROVE Fine
    <2>1. Others(t) /\ Lands(t)
        <3>1. Goto(t, "retry") => Others(t) /\ Lands(t)
            BY Zenon, <1>0, <1>c, GoesPlain
        <3>2. Move(t, "growSize", size + 1, None) => Others(t) /\ Lands(t)
            BY Zenon, <1>0, <1>c, PlainLands
        <3> QED
            BY Zenon, <1>6, <3>1, <3>2 DEF GrowLook
    <2> QED
        BY Zenon, <1>6, <1>a, <2>1 DEF GrowLook
<1>7. ASSUME HealthLook(t) PROVE Fine
    <2>1. pc[t] = "using" /\ sess[got[t]] = "bad"
        BY Zenon, <1>7, AtAlone DEF HealthLook
    <2>2. got[t] \in Conns
        BY Zenon, <1>0, <2>1 DEF Right, Hands
    <2> QED
        BY Zenon, <1>0, <2>1, <2>2 DEF Served
<1> QED
    BY Zenon, <1>1, <1>2, <1>3, <1>4, <1>5, <1>6, <1>7

\* The compare-and-swaps, and the claims given up at once.
LEMMA SwapsAreFine ==
    ASSUME OwnInv, IInv', Windows = {}, NEW t \in Threads
    PROVE  /\ ZombieCas(t) => Fine
           /\ ReapCas(t) => Fine
           /\ ReadyCas(t) => Fine
           /\ ReuseCas(t) => Fine
           /\ CreateCas(t) => Fine
           /\ ErrorCas(t) => Fine
           /\ GrowCas(t) => Fine
           /\ HealthCas(t) => Fine
           /\ ReuseMoved(t) => Fine
           /\ FilledOwn(t) => Fine
<1>0. TypeOK /\ Right(t) /\ at[t] \in Slots /\ st \in [Slots -> States]
    BY Zenon DEF OwnInv, IInv, TypeOK, PositionsOK, SlotsOK
<1>a. ASSUME NEW q, At(t, q), Swaps, NEW from \in {"FREE", "ERROR"},
             Cas(t, from, "RESERVED"), Others(t), Lands(t)
      PROVE  Fine
    <2>1. "RESERVED" \in States \ {"READY"}
        BY Zenon DEF States
    <2> QED
        BY Zenon, <1>a, <2>1, SwapKeepsOwn DEF Cas
<1>b. ASSUME NEW q, At(t, q), Swaps, NEW from, CasFails(t, from), Others(t), Lands(t)
      PROVE  Fine
    BY Zenon, <1>b, MissKeepsOwn DEF CasFails
<1>c. ASSUME NEW q \in Owning, At(t, q), Swaps, st' = [st EXCEPT ![at[t]] = "FREE"],
             Others(t), Lands(t)
      PROVE  Fine
    <2>1. "FREE" \in States \ {"READY"} /\ pc[t] \in Owning
        BY Zenon, <1>c, AtAlone DEF States
    <2> QED
        BY Zenon, <1>c, <2>1, SwapKeepsOwn
<1>d. Scans = {"zombie", "ready", "reuse", "create", "error"}
    BY Zenon DEF Scans
<1>e. {"reapOwn", "createOwn", "errorOwn", "growOwn", "retry"} \subseteq Plain
    BY Zenon DEF Plain, PCs, Owning, Hands, Connecting
<1>f. /\ Advance(t, "zombie") => Others(t) /\ Lands(t)
      /\ Advance(t, "reuse") => Others(t) /\ Lands(t)
      /\ Advance(t, "create") => Others(t) /\ Lands(t)
      /\ Advance(t, "error") => Others(t) /\ Lands(t)
      /\ ReapNext(t) => Others(t) /\ Lands(t)
      /\ \A p \in {"reapOwn", "createOwn", "errorOwn", "growOwn", "retry"} :
            Goto(t, p) => Others(t) /\ Lands(t)
    BY Zenon, <1>0, <1>d, <1>e, GoesPlain
<1>1. ASSUME ZombieCas(t) PROVE Fine
    <2>1. Others(t) /\ Lands(t) /\ Swaps /\ At(t, "zombieCas") /\ pc[t] = "zombieCas"
        BY Zenon, <1>1, <1>f, AtAlone DEF ZombieCas
    <2>2. CASE st[at[t]] = "READY"
        <3>1. st' = [st EXCEPT ![at[t]] = "FREE"] /\ "FREE" \in States \ {"READY"}
            BY Zenon, <1>1, <2>2 DEF ZombieCas, States
        <3> QED
            BY Zenon, <2>1, <2>2, <3>1, SwapKeepsOwn
    <2>3. CASE st[at[t]] # "READY"
        <3>1. st' = st
            BY Zenon, <1>0, <1>1, <2>3 DEF ZombieCas
        <3> QED
            BY Zenon, <2>1, <3>1, MissKeepsOwn
    <2> QED
        BY Zenon, <2>2, <2>3
<1>2. ASSUME ReapCas(t) PROVE Fine
    BY Zenon, <1>2, <1>a, <1>b, <1>f DEF ReapCas
<1>3. ASSUME ReadyCas(t) PROVE Fine
    BY Zenon, <1>0, <1>3, AtAlone DEF ReadyCas, Right
<1>4. ASSUME ReuseCas(t) PROVE Fine
    <2>1. CASE Cas(t, "FREE", "RESERVED") /\ Goto(t, "reuseOwn")
        <3>1. pc'[t] = "reuseOwn" /\ got'[t] = got[t] /\ Others(t)
            BY Zenon, <1>0, <2>1, MoveGoes DEF Goto
        <3>2. got[t] # None
            BY Zenon, <1>0, <1>4, AtAlone DEF ReuseCas, Right
        <3>3. Lands(t)
            BY Zenon, <3>1, <3>2 DEF Lands, Right, Hands, Connecting
        <3> QED
            BY Zenon, <1>4, <1>a, <2>1, <3>1, <3>3 DEF ReuseCas
    <2>2. CASE CasFails(t, "FREE") /\ Advance(t, "reuse")
        BY Zenon, <1>4, <1>b, <1>f, <2>2 DEF ReuseCas
    <2> QED
        BY Zenon, <1>4, <2>1, <2>2 DEF ReuseCas
<1>5. ASSUME CreateCas(t) PROVE Fine
    BY Zenon, <1>5, <1>a, <1>b, <1>f DEF CreateCas
<1>6. ASSUME ErrorCas(t) PROVE Fine
    BY Zenon, <1>6, <1>a, <1>b, <1>f DEF ErrorCas
<1>7. ASSUME GrowCas(t) PROVE Fine
    BY Zenon, <1>7, <1>a, <1>b, <1>f DEF GrowCas
<1>8. ASSUME HealthCas(t) PROVE Fine
    BY Zenon, <1>0, <1>8, AtAlone DEF HealthCas, Right
<1>9. ASSUME ReuseMoved(t) PROVE Fine
    <2>1. "reuseOwn" \in Owning
        BY Zenon DEF Owning
    <2> QED
        BY Zenon, <1>9, <1>c, <1>f, <2>1 DEF ReuseMoved
<1>10. ASSUME FilledOwn(t) PROVE Fine
    <2>1. "createOwn" \in Owning /\ "growOwn" \in Owning
        BY Zenon DEF Owning
    <2>2. Others(t) /\ Lands(t)
        BY Zenon, <1>10, <1>f DEF FilledOwn
    <2> QED
        BY Zenon, <1>10, <1>c, <2>1, <2>2 DEF FilledOwn
<1> QED
    BY Zenon, <1>1, <1>2, <1>3, <1>4, <1>5, <1>6, <1>7, <1>8, <1>9, <1>10

\* Steps of a call that leave the slots and the connections alone.
LEMMA PassesAreFine ==
    ASSUME OwnInv, IInv', Windows = {}, NEW t \in Threads
    PROVE  /\ ReapDue(t) => Fine
           /\ Cached(t) => Fine
           /\ GrowSize(t) => Fine
           /\ Retry(t) => Fine
           /\ RetriesSpent(t) => Fine
           /\ Track(t) => Fine
           /\ TrackFails(t) => Fine
           /\ Given(t) => Fine
           /\ Done(t) => Fine
           /\ \A h \in Handles : Find(t, h) => Fine
           /\ \A h \in Handles : Close(t, h) => Fine
           /\ \A x : Get(t, x) => Fine
<1>0. /\ TypeOK /\ Right(t) /\ Served
      /\ then \in [Threads -> {"cached", "reuse"}]
      /\ tls \in [Threads -> [key : Handles \cup {None}, slot : 0..PoolMax]]
      /\ size \in Slots
    BY Zenon DEF OwnInv, IInv, TypeOK, PositionsOK, PoolOK
<1>a. ASSUME NEW q, At(t, q), UNCHANGED <<slotVars, connVars>>, Others(t), Lands(t)
      PROVE  Fine
    BY Zenon, <1>a, LookKeepsOwn
<1>b. {"zombie", "cached", "reap", "reuse", "ready", "growCas", "retry", "idle"} \subseteq Plain
    BY Zenon DEF Plain, PCs, Scans, Hands, Connecting
<1>c. ASSUME NEW h, NEW x, NEW nested, Begin(t, h, x, nested)
      PROVE  Others(t) /\ Lands(t) /\ UNCHANGED <<slotVars, connVars>>
    <2>1. Move(t, "zombie", 1, None) \/ Move(t, "cached", 1, None)
        BY Zenon, <1>c DEF Begin
    <2> QED
        BY Zenon, <1>0, <1>b, <1>c, <2>1, PlainLands DEF Begin
<1>d. ASSUME At(t, "found"), Goto(t, "using"), UNCHANGED <<slotVars, connVars>> PROVE Fine
    <2>1. pc'[t] = "using" /\ at'[t] = at[t] /\ got'[t] = got[t] /\ Others(t) /\ pc[t] = "found"
        BY Zenon, <1>0, <1>d, MoveGoes, AtAlone DEF Goto
    <2>2. UNCHANGED <<st, conn, owner, aged>>
        BY Zenon, <1>d DEF slotVars
    <2>3. Lands(t)
        BY Zenon, <1>0, <2>1, <2>2 DEF Lands, Right, Hands, Connecting
    <2> QED
        BY Zenon, <1>a, <1>d, <2>1, <2>3
<1>e. ASSUME NEW i \in Slots, st[i] = "READY", owner[i] = t, conn[i] \notin streaming,
             Move(t, "take", i, conn[i]), UNCHANGED <<slotVars, connVars>>
      PROVE  Others(t) /\ Lands(t)
    <2>1. pc'[t] = "take" /\ at'[t] = i /\ got'[t] = conn[i] /\ Others(t)
        <3>1. TypeOK /\ Move(t, "take", i, conn[i])
            BY Zenon, <1>0, <1>e
        <3> QED
            BY Zenon, <3>1, MoveGoes
    <2>2. UNCHANGED <<st, conn, owner, aged, streaming>> /\ conn[i] # None
        BY Zenon, <1>0, <1>e DEF slotVars, connVars, Served
    <2> QED
        BY Zenon, <1>e, <2>1, <2>2 DEF Lands, Right, Hands, Connecting
<1>1. ASSUME ReapDue(t) PROVE Fine
    <2>1. Move(t, "reap", 1, None) \/ Move(t, then[t], 1, None)
        BY Zenon, <1>1 DEF ReapDue
    <2>2. then[t] \in Plain
        BY Zenon, <1>0, <1>b
    <2> QED
        BY Zenon, <1>0, <1>1, <1>a, <1>b, <2>1, <2>2, PlainLands DEF ReapDue
<1>2. ASSUME Cached(t) PROVE Fine
    <2> DEFINE i == tls[t].slot
    <2>1. CASE Move(t, "ready", 1, None)
        BY Zenon, <1>0, <1>2, <1>a, <1>b, <2>1, PlainLands DEF Cached
    <2>2. CASE ~Move(t, "ready", 1, None)
        <3>1. /\ i # 0 /\ st[i] = "READY" /\ owner[i] = t /\ conn[i] \notin streaming
              /\ Move(t, "take", i, conn[i])
            BY Zenon, <1>2, <2>2 DEF Cached, Mine, isStreaming
        <3>2. i \in Slots
            BY <1>0, <3>1, PoolAssumption DEF Slots
        <3>3. UNCHANGED <<slotVars, connVars>> /\ At(t, "cached")
            BY Zenon, <1>2 DEF Cached
        <3> HIDE DEF i
        <3> QED
            BY Zenon, <1>a, <1>e, <3>1, <3>2, <3>3
    <2> QED
        BY Zenon, <2>1, <2>2
<1>3. ASSUME GrowSize(t) PROVE Fine
    <2>1. Others(t) /\ Lands(t)
        BY Zenon, <1>0, <1>3, <1>b, GoesPlain DEF GrowSize
    <2> QED
        BY Zenon, <1>3, <1>a, <2>1 DEF GrowSize
<1>4. ASSUME Retry(t) PROVE Fine
    BY Zenon, <1>4, <1>a, <1>c DEF Retry
<1>5. ASSUME RetriesSpent(t) PROVE Fine
    BY Zenon, <1>0, <1>5, <1>a, GoesPlain DEF RetriesSpent
<1>6. ASSUME Track(t) PROVE Fine
    BY Zenon, <1>6, <1>d DEF Track
<1>7. ASSUME TrackFails(t) PROVE Fine
    BY Zenon, <1>0, <1>7, <1>a, GoesPlain DEF TrackFails
<1>8. ASSUME Given(t) PROVE Fine
    BY Zenon, <1>8, <1>d DEF Given
<1>9. ASSUME Done(t) PROVE Fine
    BY Zenon, <1>0, <1>9, <1>a, GoesPlain DEF Done
<1>10. ASSUME NEW h \in Handles, Find(t, h) PROVE Fine
    BY Zenon, <1>10, <1>a, <1>c DEF Find
<1>11. ASSUME NEW h \in Handles, Close(t, h) PROVE Fine
    <2> DEFINE i == ref[h]
    <2>0. UNCHANGED <<slotVars, connVars>> /\ At(t, "idle") /\ pc[t] = "idle"
        BY Zenon, <1>11, AtAlone DEF Close
    <2>1. CASE i \in 1..size /\ owner[i] = t /\ st[i] = "READY"
        <3>1. Move(t, "close", i, conn[i])
            BY Zenon, <1>11, <2>1 DEF Close
        <3>2. i \in Slots
            BY <1>0, <2>1, PoolAssumption DEF Slots
        <3>3. pc'[t] = "close" /\ at'[t] = i /\ got'[t] = conn[i] /\ Others(t)
            BY Zenon, <1>0, <3>1, MoveGoes
        <3>4. conn[i] # None
            BY Zenon, <1>0, <2>1, <3>2 DEF Served
        <3>5. UNCHANGED <<st, conn, owner>>
            BY Zenon, <2>0 DEF slotVars
        <3> HIDE DEF i
        <3>6. Lands(t)
            BY Zenon, <2>1, <3>3, <3>4, <3>5 DEF Lands, Right, Hands, Connecting
        <3> QED
            BY Zenon, <1>a, <2>0, <3>3, <3>6
    <2>2. CASE ~(i \in 1..size /\ owner[i] = t /\ st[i] = "READY")
        <3>1. UNCHANGED <<pc, at, got>>
            BY Zenon, <1>11, <2>2 DEF Close
        <3>2. Others(t) /\ Lands(t)
            BY Zenon, <2>0, <3>1 DEF Others, Lands, Right, Hands, Connecting
        <3> QED
            BY Zenon, <1>a, <2>0, <3>2
    <2> QED
        BY Zenon, <2>1, <2>2
<1>12. ASSUME NEW x, Get(t, x) PROVE Fine
    BY Zenon, <1>12, <1>a, <1>c DEF Get
<1> QED
    BY Zenon, <1>1, <1>2, <1>3, <1>4, <1>5, <1>6, <1>7, <1>8, <1>9, <1>10, <1>11, <1>12

\* Steps that take a slot over, or give one up.
LEMMA WorkIsFine ==
    ASSUME OwnInv, IInv', Windows = {}, NEW t \in Threads
    PROVE  /\ ReapTake(t) => Fine
           /\ ReapDestroy(t) => Fine
           /\ Take(t) => Fine
           /\ Reconnect(t) => Fine
           /\ ReconnectFails(t) => Fine
           /\ ReuseOwn(t) => Fine
           /\ Reset(t) => Fine
           /\ ResetFails(t) => Fine
           /\ EmptyOwn(t) => Fine
           /\ ErrorOwn(t) => Fine
           /\ \A c \in Conns : Connect(t, c) => Fine
           /\ ConnectFails(t) => Fine
           /\ HealthReset(t) => Fine
           /\ HealthFails(t) => Fine
           /\ CloseStore(t) => Fine
<1>0. /\ TypeOK /\ Right(t) /\ Served /\ NoLeak /\ ClaimExclusive /\ Settled /\ at[t] \in Slots
      /\ st \in [Slots -> States] /\ conn \in [Slots -> Conns \cup {None}]
      /\ owner \in [Slots -> Threads \cup {None}] /\ aged \in [Slots -> BOOLEAN]
      /\ sess \in [Conns -> {"ok", "bad", "none"}] /\ None \notin Conns
    BY Zenon, PoolAssumption DEF OwnInv, IInv, TypeOK, PositionsOK, SlotsOK, ConnsOK
<1>a. ASSUME NEW q, At(t, q), SlotOwn(t), SessionsOwn(t), Others(t), Lands(t) PROVE Fine
    <2>1. \A u \in Threads \ {t} : pc[u] \notin Narrow
        BY Zenon, <1>a, AtAlone
    <2> QED
        BY Zenon, <1>a, <2>1, OwnStepKeeps
<1>b. ASSUME NEW q \in Owning, At(t, q)
      PROVE  pc[t] \in Owning /\ st[at[t]] = "RESERVED"
    <2>1. pc[t] \in Owning /\ pc[t] \notin {"reconnect", "health"}
        BY Zenon, <1>0, <1>b, AtAlone DEF Right
    <2> QED
        BY Zenon, <1>0, <2>1 DEF ClaimExclusive
<1>c. /\ Advance(t, "reuse") => Others(t) /\ Lands(t)
      /\ Advance(t, "create") => Others(t) /\ Lands(t)
      /\ Advance(t, "error") => Others(t) /\ Lands(t)
      /\ ReapNext(t) => Others(t) /\ Lands(t)
      /\ Return(t) => Others(t) /\ Lands(t)
      /\ Goto(t, "retry") => Others(t) /\ Lands(t)
    <2>1. {"reuse", "create", "error"} \subseteq Scans /\ "retry" \in Plain
        BY Zenon DEF Scans, Plain, PCs, Hands, Connecting
    <2> QED
        BY Zenon, <1>0, <2>1, GoesPlain
<1>d. \A j \in Slots \ {at[t]} : conn[j] # None => conn[j] # conn[at[t]]
    BY Zenon, <1>0 DEF NoLeak
<1>1. ASSUME ReapTake(t) PROVE Fine
    <2>0. "reapOwn" \in Owning
        BY Zenon DEF Owning
    <2>1. At(t, "reapOwn") /\ pc[t] \in Owning /\ Others(t) /\ Lands(t)
        BY Zenon, <1>1, <1>b, <1>c, <2>0 DEF ReapTake
    <2>2. st'[at[t]] = "FREE" /\ UNCHANGED connVars /\ aged' = aged
        BY Zenon, <1>0, <1>1 DEF ReapTake
    <2>3. \A j \in Slots \ {at[t]} : st'[j] = st[j] /\ conn'[j] = conn[j] /\ owner'[j] = owner[j]
        BY Zenon, <1>0, <1>1 DEF ReapTake
    <2>4. SlotOwn(t)
        BY Zenon, <2>1, <2>2, <2>3 DEF SlotOwn
    <2>5. SessionsOwn(t)
        BY Zenon, <1>0, <2>2 DEF SessionsOwn, Served, connVars
    <2> QED
        BY Zenon, <1>a, <2>1, <2>4, <2>5
<1>2. ASSUME ReapDestroy(t) PROVE Fine
    <2>1. At(t, "destroy") /\ Others(t) /\ Lands(t)
        <3>1. then[t] \in {"cached", "reuse"} /\ "cached" \in Plain /\ "reuse" \in Plain
            BY Zenon, <1>0 DEF TypeOK, PositionsOK, Plain, PCs, Scans, Hands, Connecting
        <3>2. then[t] \in Plain
            BY Zenon, <3>1
        <3> QED
            BY Zenon, <1>0, <1>2, <3>2, GoesPlain DEF ReapDestroy
    <2>2. UNCHANGED slotVars /\ Destroy(doomed[t])
        BY Zenon, <1>2 DEF ReapDestroy
    <2>3. SlotOwn(t)
        BY Zenon, <2>2 DEF SlotOwn, slotVars
    <2>4. \A j \in Slots : conn[j] # None => conn[j] \in Conns /\ sess'[conn[j]] = sess[conn[j]]
        BY <1>0, <2>2 DEF NoLeak, Destroy
    <2>5. /\ \A c \in Conns : sess'[c] # "bad"
          /\ streaming' \subseteq live'
        BY Zenon, <1>0, <2>2 DEF Destroy, Served
    <2>6. SessionsOwn(t)
        BY Zenon, <1>0, <2>2, <2>4, <2>5 DEF SessionsOwn, Served, slotVars
    <2> QED
        BY Zenon, <1>a, <2>1, <2>3, <2>6
<1>3. ASSUME Take(t) PROVE Fine
    <2>1. /\ At(t, "take") /\ Others(t) /\ pc[t] = "take" /\ pc'[t] = "found"
          /\ at'[t] = at[t] /\ got'[t] = got[t]
        BY Zenon, <1>0, <1>3, AtAlone, MoveGoes DEF Take, Goto
    <2>2. UNCHANGED <<st, conn, owner, connVars>>
        BY Zenon, <1>3 DEF Take
    <2>3. aged'[at[t]] = FALSE /\ \A j \in Slots \ {at[t]} : aged'[j] = aged[j]
        BY Zenon, <1>0, <1>3 DEF Take
    <2>4. SlotOwn(t)
        BY Zenon, <2>2, <2>3 DEF SlotOwn
    <2>5. SessionsOwn(t)
        BY Zenon, <1>0, <2>2 DEF SessionsOwn, Served, connVars
    <2>6. Lands(t)
        BY Zenon, <1>0, <2>1, <2>2, <2>3 DEF Lands, Right, Hands, Connecting, connVars
    <2> QED
        BY Zenon, <1>a, <2>1, <2>4, <2>5, <2>6
<1>4. ASSUME Reconnect(t) \/ ReconnectFails(t) \/ HealthReset(t) \/ HealthFails(t) PROVE Fine
    BY Zenon, <1>0, <1>4, AtAlone DEF Reconnect, ReconnectFails, HealthReset, HealthFails, Right
<1>5. ASSUME NEW q \in Owning, NEW p, At(t, q), Claim(t, at[t]), Goto(t, p), conn' = conn, st' = st
      PROVE  /\ Others(t) /\ pc'[t] = p /\ at'[t] = at[t] /\ got'[t] = got[t]
             /\ SlotOwn(t) /\ owner'[at[t]] = t /\ aged'[at[t]] = FALSE
    <2>1. Others(t) /\ pc'[t] = p /\ at'[t] = at[t] /\ got'[t] = got[t]
        BY Zenon, <1>0, <1>5, MoveGoes DEF Goto
    <2>2. /\ owner'[at[t]] = t /\ aged'[at[t]] = FALSE
          /\ \A j \in Slots \ {at[t]} : owner'[j] = owner[j] /\ aged'[j] = aged[j]
        BY Zenon, <1>0, <1>5 DEF Claim
    <2>3. SlotOwn(t)
        BY Zenon, <1>5, <1>b, <2>2 DEF SlotOwn
    <2> QED
        BY Zenon, <2>1, <2>2, <2>3
<1>6. ASSUME ReuseOwn(t) PROVE Fine
    <2>0. "reuseOwn" \in Owning
        BY Zenon DEF Owning
    <2>1. /\ At(t, "reuseOwn") /\ pc[t] = "reuseOwn" /\ conn[at[t]] = got[t]
          /\ Claim(t, at[t]) /\ Goto(t, "reset") /\ conn' = conn /\ st' = st
          /\ UNCHANGED connVars
        BY Zenon, <1>6, AtAlone DEF ReuseOwn
    <2>2. /\ Others(t) /\ pc'[t] = "reset" /\ at'[t] = at[t] /\ got'[t] = got[t]
          /\ SlotOwn(t) /\ owner'[at[t]] = t /\ aged'[at[t]] = FALSE
        BY Zenon, <1>5, <2>0, <2>1
    <2>3. Lands(t)
        BY Zenon, <1>0, <2>1, <2>2 DEF Lands, Right, Hands
    <2>4. SessionsOwn(t)
        BY Zenon, <1>0, <2>1 DEF SessionsOwn, Served, connVars
    <2> QED
        BY Zenon, <1>a, <2>1, <2>2, <2>3, <2>4
<1>7. ASSUME EmptyOwn(t) PROVE Fine
    <2>0. "createOwn" \in Owning /\ "growOwn" \in Owning
        BY Zenon DEF Owning
    <2>1. PICK q \in {"createOwn", "growOwn"} : At(t, q)
        BY Zenon, <1>7 DEF EmptyOwn
    <2>2. PICK p \in {"createConnect", "growConnect"} : Goto(t, p)
        BY Zenon, <1>7 DEF EmptyOwn
    <2>3. Claim(t, at[t]) /\ conn' = conn /\ st' = st /\ UNCHANGED connVars
        BY Zenon, <1>7 DEF EmptyOwn
    <2>4. /\ Others(t) /\ pc'[t] = p /\ at'[t] = at[t] /\ got'[t] = got[t]
          /\ SlotOwn(t) /\ owner'[at[t]] = t /\ aged'[at[t]] = FALSE
        <3>1. q \in Owning
            BY Zenon, <2>0
        <3> QED
            BY Zenon, <1>5, <2>1, <2>2, <2>3, <3>1
    <2>5. Lands(t)
        BY Zenon, <2>2, <2>4 DEF Lands, Right, Hands
    <2>6. SessionsOwn(t)
        BY Zenon, <1>0, <2>3 DEF SessionsOwn, Served, connVars
    <2> QED
        BY Zenon, <1>a, <2>1, <2>4, <2>5, <2>6
<1>8. ASSUME At(t, "reset"), NEW up \in BOOLEAN, Session(got[t], up)
      PROVE  /\ conn[at[t]] = got[t] /\ got[t] \in Conns /\ pc[t] = "reset" /\ pc[t] \in Owning
             /\ \A j \in Slots \ {at[t]} : conn[j] # None => sess'[conn[j]] = sess[conn[j]]
             /\ \A c \in Conns : sess'[c] # "bad"
             /\ streaming' \subseteq live' /\ got[t] \notin streaming'
             /\ up => sess'[got[t]] = "ok"
    <2>1. conn[at[t]] = got[t] /\ got[t] \in Conns /\ pc[t] = "reset"
        <3>1. pc[t] = "reset"
            BY Zenon, <1>8, AtAlone
        <3>2. got[t] # None /\ conn[at[t]] = got[t]
            BY Zenon, <1>0, <3>1 DEF Right, Hands
        <3> QED
            BY Zenon, <1>0, <3>1, <3>2
    <2>2. pc[t] \in Owning
        BY Zenon, <2>1 DEF Owning
    <2>3. \A j \in Slots \ {at[t]} : conn[j] # None => sess'[conn[j]] = sess[conn[j]]
        BY Zenon, <1>0, <1>8, <1>d, <2>1 DEF Session
    <2>4. /\ \A c \in Conns : sess'[c] # "bad"
          /\ streaming' \subseteq live' /\ got[t] \notin streaming'
          /\ up => sess'[got[t]] = "ok"
        BY Zenon, <1>0, <1>8, <2>1 DEF Session, Served
    <2> QED
        BY Zenon, <2>1, <2>2, <2>3, <2>4
<1>9. ASSUME NEW x \in States, st' = [st EXCEPT ![at[t]] = x], pc[t] \in Owning,
             UNCHANGED <<conn, owner, aged>>
      PROVE  SlotOwn(t) /\ st'[at[t]] = x
    <2>1. st'[at[t]] = x /\ \A j \in Slots \ {at[t]} : st'[j] = st[j]
        BY Zenon, <1>0, <1>9
    <2> QED
        BY Zenon, <1>9, <2>1 DEF SlotOwn
<1>10. ASSUME Reset(t) PROVE Fine
    <2>1. /\ At(t, "reset") /\ Session(got[t], TRUE) /\ Goto(t, "found")
          /\ st' = [st EXCEPT ![at[t]] = "READY"] /\ UNCHANGED <<conn, owner, aged>>
        BY Zenon, <1>10 DEF Reset
    <2>2. /\ conn[at[t]] = got[t] /\ got[t] \in Conns /\ pc[t] = "reset" /\ pc[t] \in Owning
          /\ \A j \in Slots \ {at[t]} : conn[j] # None => sess'[conn[j]] = sess[conn[j]]
          /\ \A c \in Conns : sess'[c] # "bad"
          /\ streaming' \subseteq live' /\ got[t] \notin streaming'
          /\ sess'[got[t]] = "ok"
        BY Zenon, <1>8, <2>1
    <2>3. SlotOwn(t) /\ st'[at[t]] = "READY"
        BY Zenon, <1>9, <2>1, <2>2 DEF States
    <2>4. Others(t) /\ pc'[t] = "found" /\ at'[t] = at[t] /\ got'[t] = got[t]
        BY Zenon, <1>0, <2>1, MoveGoes DEF Goto
    <2>5. got[t] # None
        BY Zenon, <1>0, <2>2
    <2>6. Lands(t)
        BY Zenon, <1>0, <2>1, <2>2, <2>3, <2>4, <2>5 DEF Lands, Right, Hands, Connecting
    <2>7. SessionsOwn(t)
        BY Zenon, <2>1, <2>2, <2>5 DEF SessionsOwn
    <2> QED
        BY Zenon, <1>a, <2>1, <2>3, <2>4, <2>6, <2>7
<1>11. ASSUME ResetFails(t) PROVE Fine
    <2>1. /\ At(t, "reset") /\ Session(got[t], FALSE) /\ Advance(t, "reuse")
          /\ st' = [st EXCEPT ![at[t]] = "ERROR"] /\ UNCHANGED <<conn, owner, aged>>
        BY Zenon, <1>11 DEF ResetFails
    <2>2. /\ pc[t] \in Owning
          /\ \A j \in Slots \ {at[t]} : conn[j] # None => sess'[conn[j]] = sess[conn[j]]
          /\ \A c \in Conns : sess'[c] # "bad"
          /\ streaming' \subseteq live'
        BY Zenon, <1>8, <2>1
    <2>3. SlotOwn(t) /\ st'[at[t]] = "ERROR"
        BY Zenon, <1>9, <2>1, <2>2 DEF States
    <2>4. SessionsOwn(t)
        BY Zenon, <2>2, <2>3 DEF SessionsOwn
    <2> QED
        BY Zenon, <1>a, <1>c, <2>1, <2>3, <2>4
<1>12. ASSUME ErrorOwn(t) PROVE Fine
    <2>0. "errorOwn" \in Owning
        BY Zenon DEF Owning
    <2>1. /\ At(t, "errorOwn") /\ Claim(t, at[t]) /\ Goto(t, "errorConnect") /\ st' = st
          /\ conn' = [conn EXCEPT ![at[t]] = None] /\ Destroy({conn[at[t]]} \ {None})
        BY Zenon, <1>12 DEF ErrorOwn
    <2>2. pc[t] \in Owning /\ st[at[t]] = "RESERVED"
        BY Zenon, <1>b, <2>0, <2>1
    <2>3. /\ owner'[at[t]] = t /\ aged'[at[t]] = FALSE
          /\ \A j \in Slots \ {at[t]} : owner'[j] = owner[j] /\ aged'[j] = aged[j]
        BY Zenon, <1>0, <2>1 DEF Claim
    <2>4. \A j \in Slots \ {at[t]} : conn'[j] = conn[j]
        BY Zenon, <1>0, <2>1
    <2>5. SlotOwn(t)
        BY Zenon, <2>1, <2>2, <2>3, <2>4 DEF SlotOwn
    <2>6. Others(t) /\ pc'[t] = "errorConnect" /\ at'[t] = at[t]
        BY Zenon, <1>0, <2>1, MoveGoes DEF Goto
    <2>7. Lands(t)
        <3>1. pc'[t] \notin Hands /\ pc'[t] \notin {"found", "using", "take"}
            BY Zenon, <2>6 DEF Hands
        <3> QED
            BY Zenon, <2>3, <2>6, <3>1 DEF Lands, Right
    <2>8. \A j \in Slots \ {at[t]} : conn[j] # None => sess'[conn[j]] = sess[conn[j]]
        BY Zenon, <1>0, <1>d, <2>1 DEF Destroy
    <2>9. (\A c \in Conns : sess'[c] # "bad") /\ streaming' \subseteq live'
        BY Zenon, <1>0, <2>1 DEF Destroy, Served
    <2>10. SessionsOwn(t)
        BY Zenon, <2>1, <2>2, <2>8, <2>9 DEF SessionsOwn
    <2> QED
        BY Zenon, <1>a, <2>1, <2>5, <2>6, <2>7, <2>10
<1>e. ASSUME NEW p \in Connecting, At(t, p)
      PROVE  pc[t] = p /\ pc[t] \in Owning /\ owner[at[t]] = t /\ aged[at[t]] = FALSE
    <2>1. pc[t] = p
        BY Zenon, <1>e, AtAlone
    <2>2. owner[at[t]] = t /\ aged[at[t]] = FALSE
        BY Zenon, <1>0, <1>e, <2>1 DEF Right
    <2> QED
        BY Zenon, <1>e, <2>1, <2>2 DEF Connecting, Owning
<1>13. ASSUME NEW c \in Conns, Connect(t, c) PROVE Fine
    <2>1. PICK p \in Connecting : At(t, p)
        BY Zenon, <1>13 DEF Connect
    <2>2. /\ c \notin live /\ live' = live \cup {c} /\ sess' = [sess EXCEPT ![c] = "ok"]
          /\ conn' = [conn EXCEPT ![at[t]] = c] /\ st' = [st EXCEPT ![at[t]] = "READY"]
          /\ Move(t, "found", at[t], c) /\ UNCHANGED <<owner, aged, streaming>>
        BY Zenon, <1>13 DEF Connect
    <2>3. pc[t] \in Owning /\ owner[at[t]] = t /\ aged[at[t]] = FALSE
        BY Zenon, <1>e, <2>1
    <2>4. /\ st'[at[t]] = "READY" /\ conn'[at[t]] = c
          /\ \A j \in Slots \ {at[t]} : st'[j] = st[j] /\ conn'[j] = conn[j]
        BY Zenon, <1>0, <2>2
    <2>5. SlotOwn(t)
        BY Zenon, <2>2, <2>3, <2>4 DEF SlotOwn
    <2>6. Others(t) /\ pc'[t] = "found" /\ at'[t] = at[t] /\ got'[t] = c
        BY Zenon, <1>0, <2>2, MoveGoes
    <2>7. c # None /\ c \notin streaming
        BY Zenon, <1>0, <2>2 DEF Served
    <2>8. Lands(t)
        BY Zenon, <2>2, <2>3, <2>4, <2>6, <2>7 DEF Lands, Right, Hands, Connecting
    <2>9. \A j \in Slots : conn[j] # None => conn[j] \in live
        BY Zenon, <1>0 DEF NoLeak
    <2>10. SessionsOwn(t)
        BY <1>0, <2>2, <2>4, <2>7, <2>9 DEF SessionsOwn, Served
    <2> QED
        BY Zenon, <1>a, <2>1, <2>5, <2>6, <2>8, <2>10
<1>14. ASSUME ConnectFails(t) PROVE Fine
    <2>1. PICK p \in Connecting : At(t, p)
        BY Zenon, <1>14 DEF ConnectFails
    <2>2. /\ conn' = [conn EXCEPT ![at[t]] = None] /\ owner' = [owner EXCEPT ![at[t]] = None]
          /\ st' = [st EXCEPT ![at[t]] = "FREE"] /\ aged' = aged /\ UNCHANGED connVars
        BY Zenon, <1>14 DEF ConnectFails
    <2>3. pc[t] \in Owning /\ pc[t] \in {"createConnect", "errorConnect", "growConnect"}
        <3>1. pc[t] = p /\ pc[t] \in Owning
            BY Zenon, <1>e, <2>1
        <3> QED
            BY Zenon, <3>1 DEF Connecting
    <2>4. /\ st'[at[t]] = "FREE"
          /\ \A j \in Slots \ {at[t]} : /\ st'[j] = st[j] /\ conn'[j] = conn[j]
                                        /\ owner'[j] = owner[j]
        BY Zenon, <1>0, <2>2
    <2>5. SlotOwn(t)
        BY Zenon, <2>2, <2>3, <2>4 DEF SlotOwn
    <2>6. SessionsOwn(t)
        BY Zenon, <1>0, <2>2, <2>4 DEF SessionsOwn, Served, connVars
    <2>7. Advance(t, "create") \/ Advance(t, "error") \/ Goto(t, "retry")
        BY Zenon, <1>14, <2>3 DEF ConnectFails
    <2> QED
        BY Zenon, <1>a, <1>c, <2>1, <2>5, <2>6, <2>7
<1>15. ASSUME CloseStore(t) PROVE Fine
    <2>1. /\ At(t, "close") /\ streaming' = streaming \ {got[t]}
          /\ owner' = [owner EXCEPT ![at[t]] = None] /\ st' = [st EXCEPT ![at[t]] = "FREE"]
          /\ Return(t) /\ UNCHANGED <<conn, aged, live, sess>>
        BY Zenon, <1>15 DEF CloseStore
    <2>2. pc[t] = "close"
        BY Zenon, <2>1, AtAlone
    <2>3. /\ st'[at[t]] = "FREE"
          /\ \A j \in Slots \ {at[t]} : st'[j] = st[j] /\ owner'[j] = owner[j]
        BY Zenon, <1>0, <2>1
    <2>4. SlotOwn(t)
        BY Zenon, <2>1, <2>2, <2>3 DEF SlotOwn
    <2>5. SessionsOwn(t)
        BY Zenon, <1>0, <2>1, <2>3 DEF SessionsOwn, Served
    <2> QED
        BY Zenon, <1>a, <1>c, <2>1, <2>4, <2>5
<1> QED
    BY Zenon, <1>1, <1>2, <1>3, <1>4, <1>6, <1>7, <1>10, <1>11, <1>12, <1>13, <1>14, <1>15

\* Time, streams, and the use of a connection in hand.
LEMMA EnvironmentIsFine ==
    ASSUME OwnInv, IInv', Windows = {}, "break" \notin Env
    PROVE  /\ \A t \in Threads : Touch(t) => Fine
           /\ \A t \in Threads : BeginStream(t) => Fine
           /\ \A c \in Conns : EndStream(c) => Fine
           /\ \A c \in Conns : Break(c) => Fine
           /\ \A i \in Slots : Age(i) => Fine
           /\ Tick => Fine
           /\ UNCHANGED vars => Fine
<1>0. /\ \A t \in Threads : Right(t) /\ at[t] \in Slots
      /\ TypeOK /\ Alone /\ Served /\ NoLeak /\ aged \in [Slots -> BOOLEAN]
    BY Zenon DEF OwnInv, IInv, TypeOK, PositionsOK, SlotsOK
<1>a. ASSUME UNCHANGED <<st, conn, owner, live, sess, pc, at, got>>, streaming' \subseteq live,
             \A t \in Threads : Right(t)'
      PROVE  Fine
    <2>1. Alone' /\ Served'
        BY Zenon, <1>0, <1>a DEF Alone, Served
    <2> QED
        BY Zenon, <1>a, <2>1 DEF Fine, OwnInv
<1>b. ASSUME UNCHANGED <<st, conn, owner, aged, pc, at, got>>, streaming' \subseteq streaming
      PROVE  \A t \in Threads : Right(t)'
    BY Zenon, <1>0, <1>b DEF Right
<1>1. ASSUME NEW t \in Threads, Touch(t) PROVE Fine
    <2>1. UNCHANGED <<st, conn, owner, live, sess, streaming, pc, at, got>>
        BY Zenon, <1>1 DEF Touch, connVars
    <2>2. At(t, "using") /\ \E k : aged' = [aged EXCEPT ![k] = FALSE]
        BY Zenon, <1>1 DEF Touch
    <2>3. \A u \in Threads : pc[u] # "zombieCas"
        BY Zenon, <2>2, AtAlone DEF Narrow
    <2>4. \A j \in Slots : aged[j] = FALSE => aged'[j] = FALSE
        BY Zenon, <1>0, <2>2
    <2>5. ASSUME NEW u \in Threads PROVE Right(u)'
        BY Zenon, <1>0, <2>1, <2>3, <2>4 DEF Right
    <2>6. streaming' \subseteq live
        BY Zenon, <1>0, <2>1 DEF Served
    <2> QED
        BY Zenon, <1>a, <2>1, <2>5, <2>6
<1>2. ASSUME NEW t \in Threads, BeginStream(t) PROVE Fine
    <2>1. /\ UNCHANGED <<st, conn, owner, aged, live, sess, pc, at, got>>
          /\ At(t, "using") /\ streaming' = streaming \cup {got[t]}
        BY Zenon, <1>2 DEF BeginStream, slotVars
    <2>2. pc[t] = "using" /\ \A u \in Threads : pc[u] # "take"
        BY <2>1, AtAlone DEF Narrow
    <2>3. ASSUME NEW u \in Threads PROVE Right(u)'
        BY Zenon, <1>0, <2>1, <2>2 DEF Right
    <2>4. got[t] # None /\ conn[at[t]] = got[t]
        BY Zenon, <1>0, <2>2 DEF Right, Hands
    <2>5. got[t] \in live
        BY Zenon, <1>0, <2>4 DEF NoLeak, TypeOK, SlotsOK
    <2>6. streaming' \subseteq live
        BY Zenon, <1>0, <2>1, <2>5 DEF Served
    <2> QED
        BY Zenon, <1>a, <2>1, <2>3, <2>6
<1>3. ASSUME NEW c \in Conns, EndStream(c) PROVE Fine
    <2>1. /\ UNCHANGED <<st, conn, owner, aged, live, sess, pc, at, got>>
          /\ streaming' \subseteq streaming
        BY Zenon, <1>3 DEF EndStream, slotVars
    <2>2. streaming' \subseteq live
        BY Zenon, <1>0, <2>1 DEF Served
    <2> QED
        BY Zenon, <1>a, <1>b, <2>1, <2>2
<1>4. ASSUME NEW c \in Conns, Break(c) PROVE Fine
    BY Zenon, <1>4 DEF Break
<1>5. ASSUME NEW i \in Slots, Age(i) PROVE Fine
    <2>1. /\ UNCHANGED <<st, conn, owner, live, sess, streaming, pc, at, got>>
          /\ aged' = [aged EXCEPT ![i] = TRUE]
        BY Zenon, <1>5 DEF Age, connVars
    <2>2. \A t \in Threads : pc[t] # "idle" => at[t] # i
        BY Zenon, <1>5 DEF Age
    <2>3. ASSUME NEW t \in Threads, pc[t] # "idle" PROVE Right(t)'
        <3>1. aged'[at[t]] = aged[at[t]]
            BY Zenon, <1>0, <2>1, <2>2, <2>3
        <3> QED
            BY Zenon, <1>0, <2>1, <3>1 DEF Right
    <2>4. ASSUME NEW t \in Threads, pc[t] = "idle" PROVE Right(t)'
        BY Zenon, <2>1, <2>4 DEF Right, Hands, Connecting
    <2>5. streaming' \subseteq live
        BY Zenon, <1>0, <2>1 DEF Served
    <2> QED
        BY Zenon, <1>a, <2>1, <2>3, <2>4, <2>5
<1>6. ASSUME Tick \/ UNCHANGED vars PROVE Fine
    <2>1. UNCHANGED <<st, conn, owner, aged, live, sess, streaming, pc, at, got>>
        BY Zenon, <1>6 DEF Tick, vars, slotVars, connVars
    <2>2. streaming' \subseteq live
        BY Zenon, <1>0, <2>1 DEF Served
    <2> QED
        BY Zenon, <1>a, <1>b, <2>1, <2>2
<1> QED
    BY Zenon, <1>1, <1>2, <1>3, <1>4, <1>5, <1>6

\* Where nobody has anything yet, everybody is right.
LEMMA InitIsOwn ==
    ASSUME Init
    PROVE  OwnInv
<1>1. IInv
    BY Zenon, InitIsSound
<1>2. \A t \in Threads : pc[t] = "idle"
    BY Zenon DEF Init
<1>3. ASSUME NEW t \in Threads PROVE Right(t)
    BY Zenon, <1>2 DEF Right, Hands, Connecting
<1>4. Alone
    BY Zenon, <1>2 DEF Alone, Narrow
<1>5. Served
    BY Zenon DEF Init, Served
<1> QED
    BY Zenon, <1>1, <1>3, <1>4, <1>5 DEF OwnInv

\* Every step keeps who has which connection, and gives idle ones.
LEMMA NextIsFine ==
    ASSUME OwnInv, Windows = {}, "break" \notin Env, [Next]_vars
    PROVE  Fine
<1>1. IInv'
    BY Zenon, NextIsSound DEF OwnInv
<1>2. ASSUME NEW t \in Threads, Step(t) PROVE Fine
    BY Zenon, <1>1, <1>2, LooksAreFine, SwapsAreFine, PassesAreFine, WorkIsFine DEF Step
<1>3. ASSUME NEW t \in Threads, NEW h \in Handles, Find(t, h) \/ Close(t, h) PROVE Fine
    BY Zenon, <1>1, <1>3, PassesAreFine
<1>4. ASSUME NEW t \in Threads, NEW x \in streaming \cup {None}, Get(t, x) PROVE Fine
    BY Zenon, <1>1, <1>4, PassesAreFine
<1>5. ASSUME NEW t \in Threads, HealthLook(t) \/ Done(t) PROVE Fine
    BY Zenon, <1>1, <1>5, PassesAreFine, LooksAreFine
<1>6. ASSUME NEW t \in Threads, Touch(t) \/ BeginStream(t) PROVE Fine
    BY Zenon, <1>1, <1>6, EnvironmentIsFine
<1>7. ASSUME NEW c \in Conns, EndStream(c) \/ Break(c) PROVE Fine
    BY Zenon, <1>1, <1>7, EnvironmentIsFine
<1>8. ASSUME NEW i \in Slots, Age(i) PROVE Fine
    BY Zenon, <1>1, <1>8, EnvironmentIsFine
<1>9. ASSUME Tick \/ UNCHANGED vars PROVE Fine
    BY Zenon, <1>1, <1>9, EnvironmentIsFine
<1> QED
    BY Zenon, <1>2, <1>3, <1>4, <1>5, <1>6, <1>7, <1>8, <1>9 DEF Next

\* A connection is in one slot, and a slot has one owner.
LEMMA OwnIsExclusive ==
    ASSUME OwnInv
    PROVE  Exclusive
<1>1. SUFFICES ASSUME NEW t \in Threads, NEW u \in Threads, t # u,
                      pc[t] \in InHand, pc[u] \in InHand, got[t] = got[u]
               PROVE  FALSE
    BY Zenon DEF Exclusive
<1>2. ASSUME NEW v \in Threads, pc[v] \in InHand
      PROVE  got[v] # None /\ conn[at[v]] = got[v] /\ owner[at[v]] = v /\ at[v] \in Slots
    <2>1. Right(v) /\ at[v] \in Slots
        BY Zenon DEF OwnInv, IInv, TypeOK, PositionsOK
    <2>2. pc[v] \in Hands
        BY Zenon, <1>2, <2>1 DEF InHand, Right, Hands
    <2> QED
        BY Zenon, <2>1, <2>2 DEF Right
<1>3. at[t] = at[u]
    BY <1>1, <1>2 DEF OwnInv, IInv, NoLeak
<1> QED
    BY Zenon, <1>1, <1>2, <1>3

(* For any number of threads, handles, connections and slots, no two        *)
(* threads ever have one connection in hand (txn.rs: "Pool slots are owned  *)
(* by one thread").  It rests on what the code cannot see for itself: that  *)
(* nothing comes between a look at a slot and the store that follows it     *)
(* (the windows of zombieCas, take and close), that no connection is        *)
(* repaired in place, which leaves the slot looking idle, and that no call  *)
(* outlasts the idle timeout of a slot.                                     *)
THEOREM OneThreadEach ==
    ASSUME Windows = {}, "break" \notin Env
    PROVE  Spec => []Exclusive
<1>1. Init => OwnInv
    BY Zenon, InitIsOwn
<1>2. OwnInv /\ [Next]_vars => OwnInv'
    BY Zenon, NextIsFine DEF Fine
<1>3. OwnInv => Exclusive
    BY Zenon, OwnIsExclusive
<1> QED
    BY <1>1, <1>2, <1>3, PTL DEF Spec

(* Under the same assumptions, a connection with rows still to come is      *)
(* never what a thread is given for its next statement: the pool's phases   *)
(* skip it, or its session is reset before it is handed on                  *)
(* (streaming_active, phases 1 and 2).                                      *)
THEOREM GivenIsIdle ==
    ASSUME Windows = {}, "break" \notin Env
    PROVE  Spec => GivenIdle
<1>1. Init => OwnInv
    BY Zenon, InitIsOwn
<1>2. OwnInv /\ [Next]_vars => OwnInv'
    BY Zenon, NextIsFine DEF Fine
<1>3. OwnInv /\ [Next]_vars =>
          [\A t \in Threads : pc[t] # "found" /\ pc'[t] = "found"
                => got'[t] \notin streaming']_vars
    BY Zenon, NextIsFine DEF Fine
<1> QED
    BY <1>1, <1>2, <1>3, PTL DEF Spec, GivenIdle
==============================================================================
