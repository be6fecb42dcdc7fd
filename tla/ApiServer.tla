----------------------------- MODULE ApiServer -----------------------------
(***************************************************************************)
(* The API process around AttributeOrder: start, serving, the stop on a    *)
(* signal or a failed listener, the bounded drain, the closing of the      *)
(* connection pool, and a crash at any moment. Requests for the attribute  *)
(* order, and the catalog writes that compete with them, stand for what    *)
(* the handlers do while the process lives; clients outlive it.            *)
(***************************************************************************)
EXTENDS AttributeOrder

VARIABLE
  server   \* "down", "serving", "draining", "closing"

vars == <<orderAllVars, server>>

Init == OrderInit /\ server = "down"

InFlight == Changing \/ \E r \in Requests : at[r] # "idle"

\* What the handlers and the database do goes on while the process lives.
Alive == server \in {"serving", "draining", "closing"}

\* A step of the process itself.
Quiet == answered' = None /\ UNCHANGED <<catalogVars, orderVars, requestVars>>

-----------------------------------------------------------------------------
\* main: configuration, Open with its timeout, which connects and loads the
\* catalog, and the listener. A failure (a timeout, a signal, a busy address)
\* ends a process that served nothing and changes nothing.
Open ==
  server = "down" /\ server' = "serving" /\ Quiet

\* A new connection is accepted only while serving.
Receive(r) ==
  server = "serving" /\ Request(r) /\ UNCHANGED server

ReceiveChange ==
  /\ server = "serving"
  /\ (\E c \in Changes : ChangeBinding(c)) \/ ChangePresentation
  /\ UNCHANGED server

Handle(r) ==
  server \in {"serving", "draining"} /\ Serve(r) /\ UNCHANGED server

HandleChange ==
  server \in {"serving", "draining"} /\ CatalogStep /\ UNCHANGED server

\* The client disconnects, or Close cancelled the context of the request: its
\* statement fails, or its commit had been sent already.
CancelRequest(r) ==
  /\ Alive
  /\ AbandonOrder(r) \/ (server = "closing" /\ CommitUnanswered(r))
  /\ UNCHANGED server

CancelChange == Alive /\ AbandonChange /\ UNCHANGED server

ResolveDeadlock(r) == Alive /\ DeadlockVictim(r) /\ UNCHANGED server

\* A signal, or Serve returning an error: Shutdown closes the listener and
\* waits for the requests in flight.
Stop ==
  server = "serving" /\ server' = "draining" /\ Quiet

\* Mutant: the drain has no timeout.
DrainForever ==
  /\ server = "draining" /\ ~InFlight
  /\ server' = "closing" /\ Quiet

\* drainServer: requests end in time, or after lifecycleTimeout Close drops
\* the connections, which cancels the contexts of their requests.
drainServer ==
  server = "draining" /\ server' = "closing" /\ Quiet

\* Mutant: Close does not wait for the connections in use.
CloseAtOnce ==
  server = "closing" /\ server' = "down" /\ Quiet

\* Application.Close: the pool waits for the connections handlers hold.
ClosePool ==
  /\ server = "closing" /\ ~InFlight
  /\ server' = "down" /\ Quiet

\* The process is killed: the database rolls back what it had open.
Crash ==
  /\ server # "down" /\ server' = "down"
  /\ at' = [r \in Requests |-> "idle"]
  /\ wanted' = [r \in Requests |-> <<>>] /\ plan' = [r \in Requests |-> <<>>]
  /\ EndChange /\ answered' = None
  /\ UNCHANGED <<bindings, used, positions, changes, orderVars, seen>>

Next ==
  \/ Open \/ Stop \/ drainServer \/ ClosePool \/ Crash
  \/ \E r \in Requests :
       Receive(r) \/ Handle(r) \/ CancelRequest(r) \/ ResolveDeadlock(r)
  \/ ReceiveChange \/ HandleChange \/ CancelChange

Spec == Init /\ [][Next]_vars

\* The drain is bounded by its timeout, a cancelled context ends the statement
\* it was given to, and Close returns once every connection is back. Nothing
\* is asked of handlers, clients or catalog writes: they may hang.
FairSpec ==
  /\ Spec
  /\ WF_vars(drainServer) /\ WF_vars(ClosePool)
  /\ \A r \in Requests : WF_vars(server = "closing" /\ CancelRequest(r))
  /\ WF_vars(server = "closing" /\ CancelChange)

-----------------------------------------------------------------------------
\* Every variable holds what its column or Go value can hold, and no
\* transaction outlives the process.
TypeOK ==
  /\ OrderTypeOK
  /\ server \in {"down", "serving", "draining", "closing"}
  /\ server = "down" => ~InFlight

\* A process asked to stop stops, whatever its handlers wait for: a lock, a
\* deadlock or a client that hangs (drainServer, Application.Close).
ShutdownEnds == server \in {"draining", "closing"} ~> server = "down"
============================================================================
