---------------------------- MODULE EngineProofs ----------------------------
(***************************************************************************)
(* Theorems about Engine for any number of databases, callers, calls and   *)
(* commits: type correctness, mutual exclusion, the safety of unwrap, the  *)
(* two promises about the connection, and the implementation of            *)
(* QueryService.                                                           *)
(***************************************************************************)
EXTENDS Engine, FiniteSetTheorems, TLAPS

\* Between lock() and the drop of the guard the caller owns the mutex.
HolderOwnsLock == \A c \in Callers : Holding(c) => lock = c

\* init_early only stores a connection that duckdb_connect made.
StoredIsOpen == \A d \in Databases : load[d] = "storing" => fresh[d] # 0

\* The inductive invariant.
IInv == TypeOK /\ HolderOwnsLock /\ StoredIsOpen /\ UnwrapSucceeds

---------------------------------------------------------------------------
(* Type correctness *)

LEMMA InitTypeOK == ASSUME Init PROVE TypeOK
  BY BoundAssumption DEF Init, TypeOK, Handles, Locations, QS!Answers, QS!Silent

\* The steps of init_early keep every variable in its type.
LEMMA LoadTypeOK ==
  ASSUME TypeOK, NEW d \in Databases, LoadStep(d)
  PROVE  TypeOK'
<1>1. CASE StoreDatabase(d)
  BY <1>1 DEF StoreDatabase, TypeOK, Handles
<1>2. CASE EarlyConnect(d)
  <2>1. opened' \in Seq(Databases) /\ Len(opened') = Len(opened) + 1
    BY <1>2 DEF EarlyConnect, TypeOK
  <2>. QED
    BY <1>2, <2>1 DEF EarlyConnect, TypeOK, Handles
<1>3. CASE EarlyConnectFails(d)
  BY <1>3 DEF EarlyConnectFails, TypeOK, Handles
<1>4. CASE StoreConnection(d)
  BY <1>4 DEF StoreConnection, TypeOK, Handles
<1>5. CASE StoreNull(d)
  BY <1>5 DEF StoreNull, TypeOK, Handles
<1>. QED
  BY <1>1, <1>2, <1>3, <1>4, <1>5 DEF LoadStep

\* The connection a caller queries through is open to some database.
LEMMA ConnectedDatabase ==
  ASSUME TypeOK, UnwrapSucceeds, NEW c \in Callers, pc[c] = "connected"
  PROVE  opened[conn] \in Databases
  BY DEF TypeOK, UnwrapSucceeds, Handles

LEMMA RunningTypeOK ==
  ASSUME IInv, NEW c \in Callers, Running(c)
  PROVE  TypeOK'
<1>. USE DEF IInv
<1>1. CASE Acquire(c)
  BY <1>1 DEF Acquire, Goto, TypeOK, Handles, Locations, loadVars
<1>2. CASE Reuse(c)
  BY <1>2 DEF Reuse, Goto, TypeOK, Handles, Locations, loadVars
<1>3. CASE Connect(c)
  <2>1. dbStore \in Databases
    BY <1>3 DEF Connect, TypeOK
  <2>2. opened' \in Seq(Databases) /\ Len(opened') = Len(opened) + 1
    BY <1>3, <2>1 DEF Connect, TypeOK
  <2>. QED
    BY <1>3, <2>2 DEF Connect, Goto, TypeOK, Handles, Locations, loadVars
<1>4. CASE ConnectFails(c)
  BY <1>4 DEF ConnectFails, Goto, Reply, TypeOK, Handles, Locations, loadVars,
              QS!Answers, QS!Error
<1>5. CASE Query(c)
  <2>1. opened[conn] \in Databases
    BY <1>5, ConnectedDatabase DEF Query
  <2>2. QS!Reading(opened[conn], version[opened[conn]]) \in QS!Answers
    BY <2>1 DEF TypeOK, QS!Answers, QS!Reading
  <2>. QED
    BY <1>5, <2>2 DEF Query, Goto, Reply, TypeOK, Handles, Locations, loadVars
<1>6. CASE Exec(c)
  <2>. DEFINE d == opened[conn]
  <2>1. d \in Databases
    BY <1>6, ConnectedDatabase DEF Exec
  <2>2. version[d] + 1 \in 0..MaxVersion
    BY <1>6, <2>1, BoundAssumption DEF Exec, TypeOK
  <2>3. QS!Reading(d, version[d] + 1) \in QS!Answers
    BY <2>1, <2>2 DEF QS!Answers, QS!Reading
  <2>4. version' \in [Databases -> 0..MaxVersion]
    BY <1>6, <2>1, <2>2 DEF Exec, TypeOK
  <2>5. answer' \in [Callers -> QS!Answers]
    BY <1>6, <2>3 DEF Exec, Reply, TypeOK
  <2>. QED
    BY <1>6, <2>4, <2>5 DEF Exec, Goto, TypeOK, Handles, Locations, loadVars
<1>7. CASE QueryFails(c)
  BY <1>7 DEF QueryFails, Goto, Reply, TypeOK, Handles, Locations, loadVars,
              QS!Answers, QS!Error
<1>8. CASE Reenter(c)
  BY <1>8 DEF Reenter, Goto, TypeOK, Handles, Locations, loadVars
<1>9. CASE Unlock(c)
  BY <1>9 DEF Unlock, Goto, TypeOK, Handles, Locations, loadVars
<1>. QED
  BY <1>1, <1>2, <1>3, <1>4, <1>5, <1>6, <1>7, <1>8, <1>9 DEF Running

LEMMA StepTypeOK == ASSUME IInv, [Next]_vars PROVE TypeOK'
<1>1. CASE \E d \in Databases : LoadStep(d)
  BY <1>1, LoadTypeOK DEF IInv
<1>2. ASSUME NEW d \in Databases, Commit(d) PROVE TypeOK'
  BY <1>2, BoundAssumption DEF Commit, TypeOK, IInv, Handles, loadVars
<1>3. ASSUME NEW c \in Callers, Call(c) PROVE TypeOK'
  BY <1>3, BoundAssumption
     DEF Call, Goto, Reply, TypeOK, IInv, Handles, Locations, loadVars,
         QS!Answers, QS!Silent
<1>4. CASE \E c \in Callers : Running(c)
  BY <1>4, RunningTypeOK
<1>5. CASE UNCHANGED vars
  BY <1>5 DEF vars, loadVars, TypeOK, IInv, Handles
<1>. QED
  BY <1>1, <1>2, <1>3, <1>4, <1>5 DEF Next
---------------------------------------------------------------------------
(* The inductive invariant *)

LEMMA InitIInv == ASSUME Init PROVE IInv
  BY InitTypeOK DEF IInv, Init, HolderOwnsLock, StoredIsOpen, UnwrapSucceeds, Holding

\* Only the owner of the mutex, or a caller that finds it free, moves between
\* the places where the mutex is held.
LEMMA StepHolderOwnsLock ==
  ASSUME IInv, [Next]_vars PROVE HolderOwnsLock'
<1>. USE DEF IInv, TypeOK, HolderOwnsLock, Holding
<1>1. ASSUME NEW d \in Databases, LoadStep(d) \/ Commit(d)
      PROVE  HolderOwnsLock'
  BY <1>1 DEF LoadStep, StoreDatabase, StoreNull, EarlyConnect, EarlyConnectFails,
              StoreConnection, Commit
<1>2. ASSUME NEW c \in Callers, Call(c) PROVE HolderOwnsLock'
  BY <1>2 DEF Call, Goto
<1>3. ASSUME NEW c \in Callers, Acquire(c) PROVE HolderOwnsLock'
  BY <1>3, NoneAssumption DEF Acquire, Goto
<1>4. ASSUME NEW c \in Callers, Unlock(c) PROVE HolderOwnsLock'
  BY <1>4 DEF Unlock, Goto
<1>5. ASSUME NEW c \in Callers,
             Reuse(c) \/ Connect(c) \/ ConnectFails(c) \/ Query(c)
               \/ Exec(c) \/ QueryFails(c) \/ Reenter(c)
      PROVE  HolderOwnsLock'
  BY <1>5 DEF Reuse, Connect, ConnectFails, Query, Exec, QueryFails, Reenter, Goto
<1>6. CASE UNCHANGED vars
  BY <1>6 DEF vars
<1>. QED
  BY <1>1, <1>2, <1>3, <1>4, <1>5, <1>6 DEF Next, Running

LEMMA StepStoredIsOpen ==
  ASSUME IInv, [Next]_vars PROVE StoredIsOpen'
<1>. USE DEF IInv, TypeOK, StoredIsOpen, Handles
<1>1. ASSUME NEW d \in Databases, LoadStep(d) PROVE StoredIsOpen'
  BY <1>1 DEF LoadStep, StoreDatabase, StoreNull, EarlyConnect, EarlyConnectFails,
              StoreConnection
<1>2. ASSUME NEW d \in Databases, Commit(d) PROVE StoredIsOpen'
  BY <1>2 DEF Commit, loadVars
<1>3. ASSUME NEW c \in Callers, Call(c) \/ Running(c) PROVE StoredIsOpen'
  BY <1>3 DEF Call, Running, Acquire, Reuse, Connect, ConnectFails, Query,
              Exec, QueryFails, Reenter, Unlock, loadVars
<1>4. CASE UNCHANGED vars
  BY <1>4 DEF vars, loadVars
<1>. QED
  BY <1>1, <1>2, <1>3, <1>4 DEF Next

\* No step takes the connection away, so unwrap stays safe for a caller that
\* is already past the test of is_none.
LEMMA StepKeepsConnected ==
  ASSUME IInv, [Next]_vars, conn # 0 PROVE conn' # 0
<1>. USE DEF IInv, TypeOK, StoredIsOpen, Handles
<1>1. ASSUME NEW d \in Databases, LoadStep(d) \/ Commit(d) PROVE conn' # 0
  BY <1>1 DEF LoadStep, StoreDatabase, StoreNull, EarlyConnect, EarlyConnectFails,
              StoreConnection, Commit
<1>2. ASSUME NEW c \in Callers, Call(c) \/ Running(c) PROVE conn' # 0
  BY <1>2 DEF Call, Running, Acquire, Reuse, Connect, ConnectFails, Query,
              Exec, QueryFails, Reenter, Unlock
<1>3. CASE UNCHANGED vars
  BY <1>3 DEF vars
<1>. QED
  BY <1>1, <1>2, <1>3 DEF Next

LEMMA StepUnwrapSucceeds ==
  ASSUME IInv, [Next]_vars PROVE UnwrapSucceeds'
<1>. USE DEF IInv, TypeOK, UnwrapSucceeds, Handles
<1>1. CASE conn # 0
  BY <1>1, StepKeepsConnected
<1>2. ASSUME conn = 0, NEW c \in Callers, Connect(c) PROVE UnwrapSucceeds'
  <2>1. dbStore \in Databases
    BY <1>2 DEF Connect
  <2>2. conn' = Len(opened) + 1
    BY <1>2, <2>1 DEF Connect
  <2>. QED
    BY <2>2
<1>3. ASSUME conn = 0, NEW c \in Callers, Call(c) \/ Running(c), ~ Connect(c)
      PROVE  UnwrapSucceeds'
  BY <1>3 DEF Call, Running, Acquire, Reuse, ConnectFails, Query, Exec,
              QueryFails, Reenter, Unlock, Goto
<1>4. ASSUME conn = 0, NEW d \in Databases, LoadStep(d) \/ Commit(d)
      PROVE  UnwrapSucceeds'
  BY <1>4 DEF LoadStep, StoreDatabase, StoreNull, EarlyConnect, EarlyConnectFails,
              StoreConnection, Commit
<1>5. CASE UNCHANGED vars
  BY <1>5 DEF vars
<1>. QED
  BY <1>1, <1>2, <1>3, <1>4, <1>5 DEF Next

LEMMA StepIInv == ASSUME IInv, [Next]_vars PROVE IInv'
  BY StepTypeOK, StepHolderOwnsLock, StepStoredIsOpen, StepUnwrapSucceeds DEF IInv

\* The invariant the other theorems rest on, for all values of the constants.
THEOREM Invariance == Spec => []IInv
<1>1. Init => IInv
  BY InitIInv
<1>2. IInv /\ [Next]_vars => IInv'
  BY StepIInv
<1>. QED
  BY <1>1, <1>2, PTL DEF Spec

---------------------------------------------------------------------------
(* The properties *)

\* Every variable of engine.rs keeps its type, for all values of the constants.
THEOREM TypeCorrect == Spec => []TypeOK
  BY Invariance, PTL DEF IInv

\* The mutex of CONN admits one caller at a time to the connection.
THEOREM Exclusion == Spec => []MutualExclusion
<1>1. IInv => MutualExclusion
  BY DEF IInv, HolderOwnsLock, MutualExclusion
<1>. QED
  BY <1>1, Invariance, PTL

\* with_conn never unwraps a missing connection.
THEOREM Unwrap == Spec => []UnwrapSucceeds
  BY Invariance, PTL DEF IInv

\* Neither a later LOAD nor a failed connect takes the connection away.
THEOREM ConnectionStays == Spec => NeverDisconnected
<1>1. IInv /\ [Next]_vars => [conn # 0 => conn' # 0]_conn
  BY StepKeepsConnected
<1>. QED
  BY <1>1, Invariance, PTL DEF Spec, NeverDisconnected

\* Once the last LOAD is over the connection is the same for all later queries.
THEOREM ConnectionSettles == Spec => SettledConnection
<1>. DEFINE Settled == conn # 0 /\ \A d \in Databases : Loaded(d)
<1>1. ASSUME Settled, [Next]_vars PROVE conn' = conn
  <2>1. ASSUME NEW d \in Databases, LoadStep(d) \/ Commit(d) PROVE conn' = conn
    BY <1>1, <2>1 DEF Loaded, LoadStep, StoreDatabase, StoreNull, EarlyConnect,
                      EarlyConnectFails, StoreConnection, Commit
  <2>2. ASSUME NEW c \in Callers, Call(c) \/ Running(c) PROVE conn' = conn
    BY <1>1, <2>2 DEF Call, Running, Acquire, Reuse, Connect, ConnectFails,
                      Query, Exec, QueryFails, Reenter, Unlock
  <2>. QED
    BY <1>1, <2>1, <2>2 DEF Next, vars
<1>2. [Next]_vars => [Settled => conn' = conn]_conn
  BY <1>1
<1>. QED
  BY <1>2, PTL DEF Spec, SettledConnection
---------------------------------------------------------------------------
(* How many connections are opened *)

\* The databases whose init_early has connected, and those for which it failed.
Connected == {d \in Databases : fresh[d] # 0}
Unconnected == {d \in Databases : load[d] = "registered" /\ fresh[d] = 0}

\* Each connection belongs to a LOAD of its own; one may be with_conn's, which
\* then is the last that was missing.
Counting ==
  /\ \A d \in Databases : fresh[d] # 0 => load[d] \in {"storing", "registered"}
  /\ \A d \in Databases : load[d] = "registered" /\ fresh[d] # 0 => conn # 0
  /\ \A c \in Callers : pc[c] # "ready" => Loaded(Home[c])
  /\ \/ Len(opened) = Cardinality(Connected)
     \/ /\ Len(opened) = Cardinality(Connected) + 1
        /\ conn # 0 /\ Unconnected # {}

LEMMA ConnectedIsFinite == IsFiniteSet(Connected) /\ Cardinality(Connected) \in Nat
<1>1. Connected \subseteq Databases
  BY DEF Connected
<1>. QED
  BY <1>1, FiniteAssumption, FS_Subset, FS_CardinalityType

LEMMA CountingBounds == ASSUME IInv, Counting PROVE HandlesBounded
<1>1. Connected \subseteq Databases /\ Unconnected \subseteq Databases
      /\ Connected \cap Unconnected = {}
  BY DEF Connected, Unconnected
<1>2. CASE Len(opened) = Cardinality(Connected)
  BY <1>1, <1>2, FiniteAssumption, FS_Subset DEF HandlesBounded
<1>3. CASE Len(opened) = Cardinality(Connected) + 1 /\ Unconnected # {}
  <2>1. PICK d \in Unconnected : TRUE
    BY <1>3
  <2>2. d \notin Connected /\ Connected \cup {d} \subseteq Databases
    BY <1>1
  <2>3. Cardinality(Connected \cup {d}) = Cardinality(Connected) + 1
    BY <2>2, ConnectedIsFinite, FS_AddElement
  <2>4. Cardinality(Connected \cup {d}) <= Cardinality(Databases)
    BY <2>2, FiniteAssumption, FS_Subset
  <2>. QED
    BY <1>3, <2>3, <2>4 DEF HandlesBounded
<1>. QED
  BY <1>2, <1>3 DEF Counting

LEMMA InitCounting == ASSUME Init PROVE Counting
<1>1. Connected = {}
  BY DEF Init, Connected
<1>2. Len(opened) = Cardinality(Connected)
  BY <1>1, FS_EmptySet DEF Init
<1>. QED
  BY <1>2 DEF Init, Counting

\* Steps that open no connection: what is counted stays, or a LOAD fails.
LEMMA NoneOpened ==
  ASSUME Counting, UNCHANGED <<opened, fresh>>, conn # 0 => conn' # 0,
         \A d \in Databases : load[d] = "registered" => load'[d] = "registered"
  PROVE  \/ Len(opened') = Cardinality(Connected')
         \/ /\ Len(opened') = Cardinality(Connected') + 1
            /\ conn' # 0 /\ Unconnected' # {}
<1>1. Connected' = Connected
  BY DEF Connected
<1>2. Unconnected \subseteq Unconnected'
  BY DEF Unconnected
<1>. QED
  BY <1>1, <1>2 DEF Counting

LEMMA StepCounting == ASSUME IInv, Counting, [Next]_vars PROVE Counting'
<1>. USE DEF TypeOK, Loaded
<1>0. TypeOK /\ StoredIsOpen /\ Len(opened) \in Nat /\ (conn # 0 => conn' # 0)
  BY StepKeepsConnected DEF IInv
<1>1. ASSUME NEW d \in Databases, EarlyConnect(d) PROVE Counting'
  <2>1. fresh[d] = 0 /\ Len(opened') = Len(opened) + 1 /\ fresh' = [fresh EXCEPT ![d] = Len(opened) + 1]
        /\ load' = [load EXCEPT ![d] = "storing"] /\ conn' = conn /\ pc' = pc
        /\ load[d] = "connecting"
    BY <1>0, <1>1 DEF EarlyConnect, Counting
  <2>2. Connected' = Connected \cup {d} /\ d \notin Connected
    BY <1>0, <2>1 DEF Connected
  <2>3. Cardinality(Connected') = Cardinality(Connected) + 1
    BY <2>2, ConnectedIsFinite, FS_AddElement
  <2>4. Unconnected \subseteq Unconnected'
    BY <1>0, <2>1 DEF Unconnected
  <2>5. \/ Len(opened') = Cardinality(Connected')
        \/ /\ Len(opened') = Cardinality(Connected') + 1
           /\ conn' # 0 /\ Unconnected' # {}
    BY <1>0, <2>1, <2>3, <2>4, ConnectedIsFinite DEF Counting
  <2>6. \A e \in Databases : fresh'[e] # 0 => load'[e] \in {"storing", "registered"}
    BY <1>0, <2>1 DEF Counting
  <2>7. /\ \A e \in Databases : load'[e] = "registered" /\ fresh'[e] # 0 => conn' # 0
        /\ \A c \in Callers : pc'[c] # "ready" => load'[Home[c]] = "registered"
    BY <1>0, <2>1, HomeAssumption DEF Counting
  <2>. QED
    BY <2>5, <2>6, <2>7 DEF Counting
<1>2. ASSUME NEW d \in Databases,
             StoreDatabase(d) \/ StoreNull(d) \/ EarlyConnectFails(d) \/ StoreConnection(d)
      PROVE  Counting'
  <2>1. /\ opened' = opened /\ fresh' = fresh /\ pc' = pc
        /\ \A e \in Databases : load[e] = "registered" => load'[e] = "registered"
    BY <1>0, <1>2 DEF StoreDatabase, StoreNull, EarlyConnectFails, StoreConnection
  <2>2. \A e \in Databases : fresh'[e] # 0 => load'[e] \in {"storing", "registered"}
    BY <1>0, <1>2 DEF StoreDatabase, StoreNull, EarlyConnectFails, StoreConnection, Counting
  <2>3. \A e \in Databases : load'[e] = "registered" /\ fresh'[e] # 0 => conn' # 0
    BY <1>0, <1>2 DEF StoreDatabase, StoreNull, EarlyConnectFails, StoreConnection,
                      StoredIsOpen, Counting
  <2>4. \A c \in Callers : pc'[c] # "ready" => load'[Home[c]] = "registered"
    BY <2>1, HomeAssumption DEF Counting
  <2>. QED
    BY <1>0, <2>1, <2>2, <2>3, <2>4, NoneOpened DEF Counting
<1>3. ASSUME NEW c \in Callers, Connect(c) PROVE Counting'
  <2>1. /\ conn = 0 /\ Len(opened') = Len(opened) + 1 /\ conn' = Len(opened) + 1
        /\ pc[c] = "locked" /\ pc' = [pc EXCEPT ![c] = "connected"]
        /\ load' = load /\ fresh' = fresh
    BY <1>0, <1>3 DEF Connect, Goto, loadVars
  <2>2. Home[c] \in Unconnected
    BY <1>0, <2>1, HomeAssumption DEF Counting, Unconnected
  <2>3. Connected' = Connected /\ Unconnected' = Unconnected
    BY <2>1 DEF Connected, Unconnected
  <2>4. conn' # 0
    BY <1>0, <2>1
  <2>5. Len(opened') = Cardinality(Connected') + 1 /\ Unconnected' # {}
    BY <2>1, <2>2, <2>3 DEF Counting
  <2>. QED
    BY <1>0, <2>1, <2>4, <2>5 DEF Counting
<1>4. ASSUME NEW c \in Callers,
             Call(c) \/ Acquire(c) \/ Reuse(c) \/ ConnectFails(c) \/ Query(c) \/ Exec(c)
               \/ QueryFails(c) \/ Reenter(c) \/ Unlock(c)
      PROVE  Counting'
  <2>1. opened' = opened /\ fresh' = fresh /\ load' = load /\ conn' = conn
    BY <1>4 DEF Call, Acquire, Reuse, ConnectFails, Query, Exec, QueryFails, Reenter, Unlock,
                loadVars
  <2>2. \A b \in Callers : pc'[b] # "ready" => load[Home[b]] = "registered"
    BY <1>0, <1>4 DEF Call, Acquire, Reuse, ConnectFails, Query, Exec, QueryFails, Reenter,
                      Unlock, Goto, Counting
  <2>. QED
    BY <2>1, <2>2, NoneOpened DEF Counting
<1>5. ASSUME (\E d \in Databases : Commit(d)) \/ UNCHANGED vars PROVE Counting'
  <2>1. opened' = opened /\ fresh' = fresh /\ load' = load /\ conn' = conn /\ pc' = pc
    BY <1>5 DEF Commit, vars, loadVars
  <2>. QED
    BY <2>1, NoneOpened DEF Counting
<1>. QED
  BY <1>1, <1>2, <1>3, <1>4, <1>5 DEF Next, LoadStep, Running

\* However many databases LOAD the extension and however their connects fail,
\* no more connections are opened than there are LOADs.
THEOREM HandlesStayBounded == Spec => []HandlesBounded
<1>1. Init => Counting
  BY InitCounting
<1>2. IInv /\ Counting /\ [Next]_vars => Counting'
  BY StepCounting
<1>3. IInv /\ Counting => HandlesBounded
  BY CountingBounds
<1>. QED
  BY <1>1, <1>2, <1>3, Invariance, PTL DEF Spec

---------------------------------------------------------------------------
(* A thread that waits for itself *)

\* The owner of the mutex is inside with_conn, and one that waits has called
\* back into it from its own statement.
OwnerInside ==
  \A c \in Callers :
    lock = c => Holding(c) \/ (pc[c] = "locking" /\ c \in Reentrant)

LEMMA InitOwnerInside == ASSUME Init PROVE OwnerInside
  BY NoneAssumption DEF Init, OwnerInside

LEMMA StepOwnerInside ==
  ASSUME IInv, OwnerInside, [Next]_vars PROVE OwnerInside'
<1>. USE DEF IInv, TypeOK, OwnerInside, Holding
<1>1. ASSUME NEW d \in Databases, LoadStep(d) \/ Commit(d) PROVE OwnerInside'
  BY <1>1 DEF LoadStep, StoreDatabase, StoreNull, EarlyConnect, EarlyConnectFails,
              StoreConnection, Commit
<1>2. ASSUME NEW c \in Callers, Call(c) \/ Acquire(c) PROVE OwnerInside'
  BY <1>2 DEF Call, Acquire, Goto
<1>3. ASSUME NEW c \in Callers, Unlock(c) PROVE OwnerInside'
  BY <1>3, NoneAssumption DEF Unlock, Goto
<1>4. ASSUME NEW c \in Callers,
             Reuse(c) \/ Connect(c) \/ ConnectFails(c) \/ Query(c)
               \/ Exec(c) \/ QueryFails(c) \/ Reenter(c)
      PROVE  OwnerInside'
  BY <1>4 DEF Reuse, Connect, ConnectFails, Query, Exec, QueryFails, Reenter, Goto
<1>5. CASE UNCHANGED vars
  BY <1>5 DEF vars
<1>. QED
  BY <1>1, <1>2, <1>3, <1>4, <1>5 DEF Next, Running

\* No step releases a mutex whose owner waits for it.
LEMMA SelfBlockedStays ==
  ASSUME IInv, [Next]_vars, NEW c \in Callers, SelfBlocked(c)
  PROVE  SelfBlocked(c)'
<1>. USE DEF IInv, TypeOK, HolderOwnsLock, Holding, SelfBlocked
<1>1. ASSUME NEW d \in Databases, LoadStep(d) \/ Commit(d) PROVE SelfBlocked(c)'
  BY <1>1 DEF LoadStep, StoreDatabase, StoreNull, EarlyConnect, EarlyConnectFails,
              StoreConnection, Commit
<1>2. ASSUME NEW b \in Callers, Call(b) PROVE SelfBlocked(c)'
  BY <1>2 DEF Call, Goto
<1>3. ASSUME NEW b \in Callers, Running(b) PROVE SelfBlocked(c)'
  <2>1. ~ Acquire(b)
    BY NoneAssumption DEF Acquire
  <2>2. ~ Unlock(b)
    BY DEF Unlock
  <2>3. lock' = lock /\ pc[b] \in {"locked", "connected"} /\ \E there : Goto(b, there)
    BY <1>3, <2>1, <2>2 DEF Running, Reuse, Connect, ConnectFails, Query, Exec,
                            QueryFails, Reenter
  <2>. QED
    BY <2>3 DEF Goto
<1>4. CASE UNCHANGED vars
  BY <1>4 DEF vars
<1>. QED
  BY <1>1, <1>2, <1>3, <1>4 DEF Next

\* Only a reentrant caller can wait for itself, and then nobody else gets the
\* connection again, however many loads, commits and calls follow.
THEOREM SelfBlockingIsFinal == Spec => SelfBlockedIsFinal
<1>. DEFINE Final == \A c \in Callers : SelfBlocked(c) =>
                       /\ c \in Reentrant
                       /\ SelfBlocked(c)'
                       /\ \A b \in Callers \ {c} : ~ Holding(b)'
<1>1. Init => OwnerInside
  BY InitOwnerInside
<1>2. IInv /\ OwnerInside /\ [Next]_vars => OwnerInside'
  BY StepOwnerInside
<1>3. ASSUME IInv, OwnerInside, [Next]_vars PROVE Final
  <2>. SUFFICES ASSUME NEW c \in Callers, SelfBlocked(c)
                PROVE  /\ c \in Reentrant
                       /\ SelfBlocked(c)'
                       /\ \A b \in Callers \ {c} : ~ Holding(b)'
    OBVIOUS
  <2>1. c \in Reentrant
    BY <1>3 DEF OwnerInside, SelfBlocked, Holding
  <2>2. SelfBlocked(c)'
    BY <1>3, SelfBlockedStays
  <2>3. lock' = c /\ HolderOwnsLock'
    BY <1>3, <2>2, StepIInv DEF SelfBlocked, IInv
  <2>. QED
    BY <2>1, <2>2, <2>3 DEF HolderOwnsLock
<1>4. IInv /\ OwnerInside /\ [Next]_vars => [Final]_vars
  BY <1>3
<1>. QED
  BY <1>1, <1>2, <1>4, Invariance, PTL DEF Spec, SelfBlockedIsFinal

---------------------------------------------------------------------------
(* Engine implements QueryService *)

\* The request of c, as QueryService sees it.
Request == [c \in Callers |-> CASE pc[c] = "ready" -> "idle"
                                [] pc[c] = "unlocking" -> "served"
                                [] OTHER -> "pending"]

LEMMA InitRefines == ASSUME Init PROVE QS!Init
  BY DEF Init, QS!Init

\* A step of the thread that leaves `pending' untouched is invisible.
LEMMA HiddenStep ==
  ASSUME TypeOK, NEW c \in Callers, NEW there \in {"locking", "locked", "connected"},
         pc[c] \in {"locking", "locked", "connected"}, Goto(c, there),
         UNCHANGED <<version, answer>>
  PROVE  UNCHANGED QS!svars
<1>1. Request' = Request
  BY DEF Goto, TypeOK, Request
<1>. QED
  BY <1>1 DEF Request, QS!svars

\* The step that fixes the answer of c serves its request.
LEMMA ServingStep ==
  ASSUME TypeOK, NEW c \in Callers, NEW a, pc[c] \in {"locked", "connected"},
         Goto(c, "unlocking"), Reply(c, a)
  PROVE  QS!Serve(c, a)
<1>1. Request[c] = "pending"
  BY DEF TypeOK, Request
<1>2. Request' = [Request EXCEPT ![c] = "served"]
  BY DEF Goto, TypeOK, Request
<1>. QED
  BY <1>1, <1>2 DEF Request, QS!Serve, Reply

LEMMA RunningRefines ==
  ASSUME IInv, NEW c \in Callers, Running(c)
  PROVE  [QS!Next]_QS!svars
<1>. USE DEF IInv
<1>1. CASE Acquire(c) \/ Reuse(c) \/ Connect(c) \/ Reenter(c)
  BY <1>1, HiddenStep DEF Acquire, Reuse, Connect, Reenter
<1>2. CASE ConnectFails(c) \/ QueryFails(c)
  <2>1. QS!Serve(c, QS!Error)
    BY <1>2, ServingStep DEF ConnectFails, QueryFails
  <2>2. QS!Refuse(c)
    BY <1>2, <2>1 DEF QS!Refuse, ConnectFails, QueryFails
  <2>. QED
    BY <2>2 DEF QS!Next
<1>3. CASE Query(c)
  <2>. DEFINE d == opened[conn]
  <2>1. d \in Databases
    BY <1>3, ConnectedDatabase DEF Query
  <2>2. Goto(c, "unlocking") /\ Reply(c, QS!Reading(d, version[d]))
    BY <1>3 DEF Query
  <2>3. PICK a : a = QS!Reading(d, version[d])
    OBVIOUS
  <2>4. QS!Serve(c, a)
    BY <1>3, <2>2, <2>3, ServingStep DEF Query
  <2>5. QS!Read(c, d)
    BY <1>3, <2>3, <2>4 DEF QS!Read, QS!Serve, Query
  <2>. QED
    BY <2>1, <2>5 DEF QS!Next
<1>4. CASE Exec(c)
  <2>. DEFINE d == opened[conn]
  <2>1. d \in Databases
    BY <1>4, ConnectedDatabase DEF Exec
  <2>2. Goto(c, "unlocking") /\ Reply(c, QS!Reading(d, version[d] + 1))
    BY <1>4 DEF Exec
  <2>3. PICK a : a = QS!Reading(d, version[d] + 1)
    OBVIOUS
  <2>4. QS!Serve(c, a)
    BY <1>4, <2>2, <2>3, ServingStep DEF Exec
  <2>5. QS!Write(c, d)
    BY <1>4, <2>3, <2>4 DEF QS!Write, QS!Serve, Exec
  <2>. QED
    BY <2>1, <2>5 DEF QS!Next
<1>5. CASE Unlock(c)
  <2>1. Request[c] = "served"
    BY <1>5 DEF Unlock, Request
  <2>2. Request' = [Request EXCEPT ![c] = "idle"]
    BY <1>5 DEF Unlock, Goto, TypeOK, Request
  <2>3. QS!Return(c)
    BY <1>5, <2>1, <2>2 DEF QS!Return, Unlock, Request
  <2>. QED
    BY <2>3 DEF QS!Next
<1>. QED
  BY <1>1, <1>2, <1>3, <1>4, <1>5 DEF Running

LEMMA StepRefines ==
  ASSUME IInv, [Next]_vars PROVE [QS!Next]_QS!svars
<1>1. ASSUME NEW d \in Databases, LoadStep(d) PROVE UNCHANGED QS!svars
  BY <1>1 DEF LoadStep, StoreDatabase, StoreNull, EarlyConnect, EarlyConnectFails,
              StoreConnection, QS!svars
<1>2. ASSUME NEW d \in Databases, Commit(d) PROVE QS!Next
  <2>1. QS!Commit(d)
    BY <1>2 DEF Commit, QS!Commit
  <2>. QED
    BY <2>1 DEF QS!Next
<1>3. ASSUME NEW c \in Callers, Call(c) PROVE QS!Next
  <2>1. Request[c] = "idle"
    BY <1>3 DEF Call, Request
  <2>2. Request' = [Request EXCEPT ![c] = "pending"]
    BY <1>3 DEF Call, Goto, IInv, TypeOK, Request
  <2>3. QS!Ask(c)
    BY <1>3, <2>1, <2>2 DEF QS!Ask, Call, Reply, Request
  <2>. QED
    BY <2>3 DEF QS!Next
<1>4. CASE \E c \in Callers : Running(c)
  BY <1>4, RunningRefines
<1>5. CASE UNCHANGED vars
  BY <1>5 DEF vars, QS!svars
<1>. QED
  BY <1>1, <1>2, <1>3, <1>4, <1>5 DEF Next

\* Locks, lazy connects and loads add no behaviour to the abstract service:
\* each query is answered from one committed version during its call.
THEOREM Implementation == Spec => ServiceSpec
<1>1. Init => QS!Init
  BY InitRefines
<1>2. IInv /\ [Next]_vars => [QS!Next]_QS!svars
  BY StepRefines
<1>. QED
  BY <1>1, <1>2, Invariance, PTL DEF Spec, ServiceSpec, QS!Spec
=============================================================================
