------------------------------- MODULE Engine -------------------------------
(***************************************************************************)
(* engine.rs: the persistent secondary connection.  Two process-wide       *)
(* statics, DB_STORE (the database handle) and CONN (a mutex around an     *)
(* optional connection), are shared by every database that loads the       *)
(* extension and every thread that evaluates a dq function.  init_early    *)
(* runs once per LOAD, before the functions of that database are           *)
(* registered; with_conn, under run_query_rows and run_exec, holds the     *)
(* mutex for the whole of one statement and connects lazily when the       *)
(* connect of init_early failed.                                           *)
(*                                                                         *)
(* A connection is its position in `opened', the databases connected to    *)
(* so far; position 0 is Option::None.  The contents of a database are a   *)
(* version number, raised by each commit.                                  *)
(***************************************************************************)
EXTENDS Naturals, Sequences, FiniteSets

CONSTANTS Databases,    \* database instances in the process; each LOADs dq once
          Callers,      \* threads that evaluate dq functions
          Home,         \* Home[c]: the database whose session c serves
          Reentrant,    \* callers whose checked relation itself calls a dq function
          MaxCalls,     \* bound: calls made by one caller
          MaxVersion,   \* bound: commits of one database
          None          \* the null handle, and the owner of a free mutex

ASSUME FiniteAssumption == IsFiniteSet(Databases)
ASSUME HomeAssumption == Home \in [Callers -> Databases]
ASSUME ReentrantAssumption == Reentrant \subseteq Callers
ASSUME BoundAssumption == MaxCalls \in Nat /\ MaxVersion \in Nat
ASSUME NoneAssumption == None \notin Databases /\ None \notin Callers

VARIABLES dbStore,      \* DB_STORE: a database, or None for null
          conn,         \* CONN: position in opened, 0 for Option::None
          opened,       \* duckdb_connect successes: the database of each connection
          lock,         \* owner of the mutex of CONN, or None
          load,         \* load[d]: progress of init_early for d
          fresh,        \* fresh[d]: init_early's local early_con (0: none)
          pc,           \* pc[c]: where c stands in with_conn
          calls,        \* calls[c]: calls c has made
          version,      \* version[d]: committed contents of d
          answer        \* answer[c]: result of the latest query of c

vars == <<dbStore, conn, opened, lock, load, fresh, pc, calls, version, answer>>
loadVars == <<load, fresh>>

QS == INSTANCE QueryService
        WITH request <- [c \in Callers |->
                           CASE pc[c] = "ready" -> "idle"
                             [] pc[c] = "unlocking" -> "served"
                             [] OTHER -> "pending"]

Handles == 0..Len(opened)
Locations == {"ready", "locking", "locked", "connected", "unlocking"}
Holding(c) == pc[c] \in {"locked", "connected", "unlocking"}
Loaded(d) == load[d] = "registered"

TypeOK ==
  /\ dbStore \in Databases \cup {None}
  /\ opened \in Seq(Databases)
  /\ conn \in Handles
  /\ lock \in Callers \cup {None}
  /\ load \in [Databases -> {"unloaded", "connecting", "storing", "registered"}]
  /\ fresh \in [Databases -> Handles]
  /\ pc \in [Callers -> Locations]
  /\ calls \in [Callers -> 0..MaxCalls]
  /\ version \in [Databases -> 0..MaxVersion]
  /\ answer \in [Callers -> QS!Answers]

Init ==
  /\ dbStore = None
  /\ conn = 0
  /\ opened = <<>>
  /\ lock = None
  /\ load = [d \in Databases |-> "unloaded"]
  /\ fresh = [d \in Databases |-> 0]
  /\ pc = [c \in Callers |-> "ready"]
  /\ calls = [c \in Callers |-> 0]
  /\ version = [d \in Databases |-> 0]
  /\ answer = [c \in Callers |-> QS!Silent]

---------------------------------------------------------------------------
(* init_early *)

\* DB_STORE.store(db).
StoreDatabase(d) ==
  /\ load[d] = "unloaded"
  /\ dbStore' = d
  /\ load' = [load EXCEPT ![d] = "connecting"]
  /\ UNCHANGED <<conn, opened, lock, fresh, pc, calls, version, answer>>

\* The host passed a null handle: duckdb_connect refuses it, registration goes on.
StoreNull(d) ==
  /\ load[d] = "unloaded"
  /\ dbStore' = None
  /\ load' = [load EXCEPT ![d] = "registered"]
  /\ UNCHANGED <<conn, opened, lock, fresh, pc, calls, version, answer>>

\* duckdb_connect succeeds, outside the mutex.
EarlyConnect(d) ==
  /\ load[d] = "connecting"
  /\ opened' = Append(opened, d)
  /\ fresh' = [fresh EXCEPT ![d] = Len(opened) + 1]
  /\ load' = [load EXCEPT ![d] = "storing"]
  /\ UNCHANGED <<dbStore, conn, lock, pc, calls, version, answer>>

\* Faulty variant: the null handle of a failed connect is stored.
EarlyConnectFailsStored(d) ==
  /\ load[d] = "connecting"
  /\ load' = [load EXCEPT ![d] = "storing"]
  /\ UNCHANGED <<dbStore, conn, opened, lock, fresh, pc, calls, version, answer>>

\* duckdb_connect fails: init_early returns silently and registration goes on.
EarlyConnectFails(d) ==
  /\ load[d] = "connecting"
  /\ load' = [load EXCEPT ![d] = "registered"]
  /\ UNCHANGED <<dbStore, conn, opened, lock, fresh, pc, calls, version, answer>>

\* *CONN.lock() = Some(early_con), whatever CONN held; the guard drops at once.
StoreConnection(d) ==
  /\ load[d] = "storing"
  /\ lock = None
  /\ conn' = fresh[d]
  /\ load' = [load EXCEPT ![d] = "registered"]
  /\ UNCHANGED <<dbStore, opened, lock, fresh, pc, calls, version, answer>>

---------------------------------------------------------------------------
(* with_conn *)

Goto(c, there) == pc' = [pc EXCEPT ![c] = there]
Reply(c, a) == answer' = [answer EXCEPT ![c] = a]

\* Faulty variant: the functions are registered before init_early has run.
CallUnregistered(c) ==
  /\ pc[c] = "ready"
  /\ calls[c] < MaxCalls
  /\ calls' = [calls EXCEPT ![c] = @ + 1]
  /\ Goto(c, "locking")
  /\ Reply(c, QS!Silent)
  /\ UNCHANGED <<dbStore, conn, opened, lock, loadVars, version>>

\* A function of Home[c] can be called once it is registered.
Call(c) ==
  /\ pc[c] = "ready"
  /\ Loaded(Home[c])
  /\ calls[c] < MaxCalls
  /\ calls' = [calls EXCEPT ![c] = @ + 1]
  /\ Goto(c, "locking")
  /\ Reply(c, QS!Silent)
  /\ UNCHANGED <<dbStore, conn, opened, lock, loadVars, version>>

\* Faulty variant: a caller does not wait for the mutex.
AcquireUnguarded(c) ==
  /\ pc[c] = "locking"
  /\ lock' = c
  /\ Goto(c, "locked")
  /\ UNCHANGED <<dbStore, conn, opened, loadVars, calls, version, answer>>

\* CONN.lock(): std::sync::Mutex is not reentrant.
Acquire(c) ==
  /\ pc[c] = "locking"
  /\ lock = None
  /\ lock' = c
  /\ Goto(c, "locked")
  /\ UNCHANGED <<dbStore, conn, opened, loadVars, calls, version, answer>>

\* Faulty variant: the test of is_none is missing.
ReuseUntested(c) ==
  /\ pc[c] = "locked"
  /\ Goto(c, "connected")
  /\ UNCHANGED <<dbStore, conn, opened, lock, loadVars, calls, version, answer>>

Reuse(c) ==
  /\ pc[c] = "locked"
  /\ conn # 0
  /\ Goto(c, "connected")
  /\ UNCHANGED <<dbStore, conn, opened, lock, loadVars, calls, version, answer>>

\* Faulty variant: a new connection for every call.
ConnectAlways(c) ==
  /\ pc[c] = "locked"
  /\ dbStore # None
  /\ opened' = Append(opened, dbStore)
  /\ conn' = Len(opened')
  /\ Goto(c, "connected")
  /\ UNCHANGED <<dbStore, lock, loadVars, calls, version, answer>>

\* Faulty variant: the return code of duckdb_connect is ignored.
ConnectUntested(c) ==
  /\ pc[c] = "locked"
  /\ conn = 0
  /\ dbStore # None
  /\ conn' = Len(opened) + 1
  /\ Goto(c, "connected")
  /\ UNCHANGED <<dbStore, opened, lock, loadVars, calls, version, answer>>

\* guard.is_none(): connect to DB_STORE and keep the connection.
Connect(c) ==
  /\ pc[c] = "locked"
  /\ conn = 0
  /\ dbStore # None
  /\ opened' = Append(opened, dbStore)
  /\ conn' = Len(opened')
  /\ Goto(c, "connected")
  /\ UNCHANGED <<dbStore, lock, loadVars, calls, version, answer>>

\* "db handle not set", or "duckdb_connect failed".
ConnectFails(c) ==
  /\ pc[c] = "locked"
  /\ conn = 0
  /\ Reply(c, QS!Error)
  /\ Goto(c, "unlocking")
  /\ UNCHANGED <<dbStore, conn, opened, lock, loadVars, calls, version>>

\* Faulty variant: the rows of the first query are kept and served again.
QueryCached(c) ==
  /\ pc[c] = "connected"
  /\ c \notin Reentrant
  /\ Reply(c, QS!Reading(opened[conn], 0))
  /\ Goto(c, "unlocking")
  /\ UNCHANGED <<dbStore, conn, opened, lock, loadVars, calls, version>>

\* duckdb_query of run_query_rows: one committed snapshot of the database of CONN.
Query(c) ==
  /\ pc[c] = "connected"
  /\ c \notin Reentrant
  /\ Reply(c, QS!Reading(opened[conn], version[opened[conn]]))
  /\ Goto(c, "unlocking")
  /\ UNCHANGED <<dbStore, conn, opened, lock, loadVars, calls, version>>

\* duckdb_query of run_exec: the statement commits by itself.
Exec(c) ==
  LET d == opened[conn] IN
  /\ pc[c] = "connected"
  /\ c \notin Reentrant
  /\ version[d] < MaxVersion
  /\ version' = [version EXCEPT ![d] = @ + 1]
  /\ Reply(c, QS!Reading(d, version[d] + 1))
  /\ Goto(c, "unlocking")
  /\ UNCHANGED <<dbStore, conn, opened, lock, loadVars, calls>>

\* Faulty variant: the error path returns without dropping the guard.
QueryFailsLocked(c) ==
  /\ pc[c] = "connected"
  /\ c \notin Reentrant
  /\ Reply(c, QS!Error)
  /\ Goto(c, "ready")
  /\ UNCHANGED <<dbStore, conn, opened, lock, loadVars, calls, version>>

QueryFails(c) ==
  /\ pc[c] = "connected"
  /\ c \notin Reentrant
  /\ Reply(c, QS!Error)
  /\ Goto(c, "unlocking")
  /\ UNCHANGED <<dbStore, conn, opened, lock, loadVars, calls, version>>

\* Binding the statement calls a dq function, which calls with_conn under the
\* guard this thread already holds.
Reenter(c) ==
  /\ pc[c] = "connected"
  /\ c \in Reentrant
  /\ Goto(c, "locking")
  /\ UNCHANGED <<dbStore, conn, opened, lock, loadVars, calls, version, answer>>

\* The rows are copied, the result destroyed and the guard dropped.
Unlock(c) ==
  /\ pc[c] = "unlocking"
  /\ lock' = None
  /\ Goto(c, "ready")
  /\ UNCHANGED <<dbStore, conn, opened, loadVars, calls, version, answer>>

\* A session of d commits through a connection of its own (external).
Commit(d) ==
  /\ version[d] < MaxVersion
  /\ version' = [version EXCEPT ![d] = @ + 1]
  /\ UNCHANGED <<dbStore, conn, opened, lock, loadVars, pc, calls, answer>>

LoadStep(d) == \/ StoreDatabase(d) \/ StoreNull(d) \/ EarlyConnect(d)
               \/ EarlyConnectFails(d) \/ StoreConnection(d)

\* What a thread inside with_conn does next.
Running(c) == \/ Acquire(c) \/ Reuse(c) \/ Connect(c) \/ ConnectFails(c)
              \/ Query(c) \/ Exec(c) \/ QueryFails(c) \/ Reenter(c) \/ Unlock(c)

Next == \/ \E d \in Databases : LoadStep(d) \/ Commit(d)
        \/ \E c \in Callers : Call(c) \/ Running(c)

Spec == Init /\ [][Next]_vars

\* Threads are scheduled and DuckDB answers every statement; no session is
\* obliged to call, to load or to commit.
Fairness == /\ \A c \in Callers : WF_vars(Running(c))
            /\ \A d \in Databases : WF_vars(LoadStep(d) /\ load[d] # "unloaded")
FairSpec == Spec /\ Fairness

---------------------------------------------------------------------------
(* Properties *)

\* engine.rs "SAFETY: the connection is used exclusively through a Mutex":
\* no two callers are between lock() and the drop of the guard.
MutualExclusion ==
  \A b, c \in Callers : Holding(b) /\ Holding(c) => b = c

\* guard.as_mut().unwrap() in with_conn never meets None, whatever loads and
\* failed connects happen around it.
UnwrapSucceeds ==
  \A c \in Callers : pc[c] = "connected" => conn # 0

\* At most one connection per LOAD is ever opened in the process: the lazy
\* connect of with_conn can only stand in for an init_early that failed.
HandlesBounded == Len(opened) <= Cardinality(Databases)

\* "Never disconnect": once there is a connection there always is one.
NeverDisconnected == [][conn # 0 => conn' # 0]_conn

\* Once every LOAD is over, all callers query through the same connection
\* for the rest of the process.
SettledConnection ==
  [][(conn # 0 /\ \A d \in Databases : Loaded(d)) => conn' = conn]_conn

\* README "keeps ONE connection created in the init callback and reuses it for
\* every assertion query": a connection, once made, is never replaced.
KeepsOneConnection == [][conn # 0 => conn' = conn]_conn

SelfBlocked(c) == pc[c] = "locking" /\ lock = c

\* A call into the engine returns, unless some thread has called back into
\* with_conn from its own statement: then nothing else is promised.
CallsReturn ==
  \A c \in Callers :
    (pc[c] # "ready") ~> (pc[c] = "ready" \/ \E b \in Reentrant : SelfBlocked(b))

\* Only a thread whose statement calls a dq function can wait for itself, and
\* a thread that waits for itself keeps every other caller out for good.
SelfBlockedIsFinal ==
  [][\A c \in Callers : SelfBlocked(c) =>
       /\ c \in Reentrant
       /\ SelfBlocked(c)'
       /\ \A b \in Callers \ {c} : ~ Holding(b)']_vars

\* Every behaviour of the engine is a behaviour of the abstract service.
ServiceSpec == QS!Spec
=============================================================================
