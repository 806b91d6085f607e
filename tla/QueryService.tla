---------------------------- MODULE QueryService ----------------------------
(***************************************************************************)
(* What the engine promises the assertion functions: a caller asks one     *)
(* question at a time, and each question is answered from the committed    *)
(* contents of one database at one instant between the question and the    *)
(* return of the call.  Nothing is said of locks or connections; Engine    *)
(* implements this module.                                                 *)
(***************************************************************************)
EXTENDS Naturals

CONSTANTS Databases,    \* the databases of the process
          Callers,      \* the threads that evaluate dq functions
          MaxVersion    \* bound on the commits of one database

VARIABLES version,      \* version[d]: the committed contents of d, by number
          request,      \* request[c]: where the call of c stands
          answer        \* answer[c]: what the last call of c was answered

svars == <<version, request, answer>>

Error == <<"error">>
Silent == <<"silent">>
Reading(d, v) == <<"read", d, v>>
Answers == {"read"} \X Databases \X (0..MaxVersion) \cup {Error, Silent}

Init == /\ version = [d \in Databases |-> 0]
        /\ request = [c \in Callers |-> "idle"]
        /\ answer = [c \in Callers |-> Silent]

\* Another session commits to d.
Commit(d) == /\ version[d] < MaxVersion
             /\ version' = [version EXCEPT ![d] = @ + 1]
             /\ UNCHANGED <<request, answer>>

Ask(c) == /\ request[c] = "idle"
          /\ request' = [request EXCEPT ![c] = "pending"]
          /\ answer' = [answer EXCEPT ![c] = Silent]
          /\ UNCHANGED version

Serve(c, a) == /\ request[c] = "pending"
               /\ request' = [request EXCEPT ![c] = "served"]
               /\ answer' = [answer EXCEPT ![c] = a]

\* The answer to a question is what some database holds at this instant.
Read(c, d) == /\ Serve(c, Reading(d, version[d]))
              /\ UNCHANGED version

\* A statement that writes commits its effect as it is answered.
Write(c, d) == /\ version[d] < MaxVersion
               /\ version' = [version EXCEPT ![d] = @ + 1]
               /\ Serve(c, Reading(d, version[d] + 1))

Refuse(c) == Serve(c, Error) /\ UNCHANGED version

Return(c) == /\ request[c] = "served"
             /\ request' = [request EXCEPT ![c] = "idle"]
             /\ UNCHANGED <<version, answer>>

Next == \/ \E d \in Databases : Commit(d)
        \/ \E c \in Callers :
             \/ Ask(c) \/ Refuse(c) \/ Return(c)
             \/ \E d \in Databases : Read(c, d) \/ Write(c, d)

Spec == Init /\ [][Next]_svars
=============================================================================
