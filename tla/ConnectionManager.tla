------------------------- MODULE ConnectionManager -------------------------
(***************************************************************************)
(* ZeroMQConnectionManager, src/core/messaging/ZeroMQConnectionManager.cpp *)
(* and .hpp: what it keeps of the connections it makes.                    *)
(*                                                                         *)
(* createPublisher and createSubscriber enter the socket and its health    *)
(* record together, under socketMutex_, so `health` stands for both maps:  *)
(* a name is in both or in neither.  A socket that cannot be made throws   *)
(* before anything is entered.  The monitor thread runs an empty function. *)
(* The manager has no steps of its own: PubSub composes these operations   *)
(* with its client and with other clients.                                 *)
(***************************************************************************)
EXTENDS Integers

CONSTANTS Names,     \* of connections
          None

VARIABLES
  health,            \* sockets_ and healthStatus_, None for a name in neither
  monitorRunning,    \* monitorRunning_
  monitorThread      \* monitorThread_ owns a thread

managerVars == <<health, monitorRunning, monitorThread>>

Counters == {"sent", "received", "errors"}

ConnectionHealth == [Counters -> Nat]

ManagerTypeOK ==
  /\ health \in [Names -> ConnectionHealth \cup {None}]
  /\ monitorRunning \in BOOLEAN /\ monitorThread \in BOOLEAN

ManagerInit ==
  /\ health = [n \in Names |-> None]
  /\ monitorRunning = FALSE /\ monitorThread = FALSE

\* createPublisher or createSubscriber: also for a name in use, whose record,
\* to which others hold references, starts again from nothing.
CreateConnection(name) ==
  /\ health' = [health EXCEPT ![name] = [c \in Counters |-> 0]]
  /\ UNCHANGED <<monitorRunning, monitorThread>>

\* startHealthMonitoring.
StartHealthMonitoring ==
  /\ monitorRunning' = TRUE
  /\ monitorThread' = (monitorThread \/ ~monitorRunning)
  /\ UNCHANGED health

\* The same when no thread can be started: it throws, with the flag left set.
StartHealthMonitoringFails ==
  /\ ~monitorRunning
  /\ monitorRunning' = TRUE
  /\ UNCHANGED <<health, monitorThread>>

\* getConnectionNames; getConnectionHealth throws for any other name.
ConnectionNames == {n \in Names : health[n] # None}

\* A client's increment, through the reference it got from getConnectionHealth.
Count(name, counter) ==
  /\ health' = [health EXCEPT ![name][counter] = @ + 1]
  /\ UNCHANGED <<monitorRunning, monitorThread>>

\* The destructor.
DestroyManager ==
  /\ health' = [n \in Names |-> None]
  /\ monitorRunning' = FALSE /\ monitorThread' = FALSE
=============================================================================
