----------------------------- MODULE Connections -----------------------------
(***************************************************************************)
(* Two things that are connected, lost and connected again: the            *)
(* multiplexed connection and the pool of MCP servers.  A behaviour runs   *)
(* one and leaves the other at rest.                                       *)
(***************************************************************************)
EXTENDS Naturals, Sequences

CONSTANTS
  Socket, NoSocket, Limits, MaxPending, MaxSend, MaxCalls, MaxResets,
  Entry, NoEntry, Proc, NoProc, MaxRequests, MaxReconnects

ASSUME MultiplexerBounds ==
  /\ NoSocket \notin Socket
  /\ 0 \in Limits /\ Limits \subseteq Nat
  /\ MaxPending \in Nat /\ MaxSend \in Nat /\ MaxCalls \in Nat /\ MaxResets \in Nat

ASSUME ServersBounds ==
  /\ NoEntry \notin Entry /\ NoProc \notin Proc
  /\ MaxRequests \in Nat /\ MaxReconnects \in Nat

VARIABLES
  which,  \* the component that runs
  state, ws, pending, attempts, aborted, timer, resets, limit, imported, loading, socket,
  timeouts, heartbeat, leaked, attached, sent, wire, rest, early, calls,
  entry, made, connected, health, reconnects, sleeping, open, process, proc, transport,
  heard, lastId, request

Multiplexer == INSTANCE WsMultiplexer
Servers == INSTANCE McpConnections WITH attempts <- reconnects

muxVars == <<state, ws, pending, attempts, aborted, timer, resets, limit, imported, loading,
             socket, timeouts, heartbeat, leaked, attached, sent, wire, rest, early, calls>>
mcpVars == <<entry, made, connected, health, reconnects, sleeping, open, process, proc,
             transport, heard, lastId, request>>
vars == <<which, muxVars, mcpVars>>

Init ==
  /\ which \in {"multiplexer", "servers"}
  /\ Multiplexer!Init
  /\ which # "multiplexer" => limit = 0 /\ ~imported
  /\ Servers!Init

Next ==
  /\ UNCHANGED which
  /\ \/ which = "multiplexer" /\ Multiplexer!Next /\ UNCHANGED mcpVars
     \/ which = "servers" /\ Servers!Next /\ UNCHANGED muxVars

\* The fairness that each module states, for the component that runs.
Runs(component, action) == which = component /\ action

Fairness ==
  /\ WF_muxVars(Runs("multiplexer", Multiplexer!TimerFires))
  /\ WF_muxVars(Runs("multiplexer", Multiplexer!Imported))
  /\ WF_muxVars(Runs("multiplexer", Multiplexer!Resumes))
  /\ SF_muxVars(Runs("multiplexer", \E s \in Socket : Multiplexer!Opens(s)))
  /\ WF_muxVars(Runs("multiplexer",
                     \E s \in Socket : Multiplexer!Closes(s) /\ socket[s] = "closing"))
  /\ WF_mcpVars(Runs("servers", \E r \in Servers!Requests : Servers!RequestFails(r)))
  /\ \A e \in Entry :
       /\ WF_mcpVars(Runs("servers", Servers!HealthCheck(e)))
       /\ WF_mcpVars(Runs("servers", Servers!Reconnect(e)))

Spec == Init /\ [][Next]_vars /\ Fairness

-----------------------------------------------------------------------------
(* What the modules claim *)

TypeOK == Multiplexer!TypeOK /\ Servers!TypeOK

\* WsMultiplexer: a connection that says it is there is watched by its heartbeat.
ConnectionWatched == Multiplexer!ConnectedIsWatched

\* WsMultiplexer: messages leave in the order in which they were sent.
SentInOrder == Multiplexer!SentInOrder

\* WsMultiplexer: a connection that was lost is opened again.
Recovers == Multiplexer!Recovers

\* McpConnections: a request is answered by the process it was written to.
AnsweredByItsProcess == Servers!AnsweredByItsProcess

\* McpConnections: a server that is reported as connected is watched.
ServerWatched == Servers!ConnectedIsWatched

\* McpConnections: the report is corrected once the transport is closed.
ReportCorrected == Servers!ReportCorrected
=============================================================================
