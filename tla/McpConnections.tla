--------------------------- MODULE McpConnections ---------------------------
(***************************************************************************)
(* One name in the pool of MCP servers (packages/ai-engine/src/mcp/        *)
(* connection-manager.ts) and the stdio transports behind it               *)
(* (transport.ts): a server is a process that is spawned, killed and       *)
(* spawned again, and whose exit is reported some time after it was asked  *)
(* for.  The entry of a server that was replaced is still there for the    *)
(* calls that hold it.                                                     *)
(*                                                                         *)
(* A call of connect is known by its tools/list request: spawning is       *)
(* synchronous.  The health check interval is longer than the delay before *)
(* a reconnect.                                                            *)
(***************************************************************************)
EXTENDS Naturals, FiniteSets

CONSTANTS
  Entry,         \* bound: entries made for the name
  NoEntry,
  Proc,          \* bound: processes spawned
  NoProc,
  MaxRequests,   \* bound: requests sent
  MaxReconnects  \* maxReconnectAttempts

VARIABLES
  entry,       \* servers.get(name)
  made,        \* entries made so far
  connected,   \* entry.connected
  health,      \* entry.healthTimer runs
  attempts,    \* entry.reconnectAttempts
  sleeping,    \* attemptReconnect() waits for its delay
  open,        \* transport.connected
  process,     \* transport.process, whose lines transport.rl reads
  proc,        \* what became of each process
  transport,   \* the entry whose transport spawned it
  heard,       \* processes whose lines are read
  lastId,      \* transport.requestId
  request      \* the requests sent

pool == <<entry, made>>
status == <<connected, health, attempts, sleeping>>
stdio == <<open, process, proc, transport, heard>>
vars == <<pool, status, stdio, lastId, request>>

Requests == 1..MaxRequests
Waiting(e) == {r \in Requests : request[r].status = "waiting" /\ request[r].entry = e}
Sent == {r \in Requests : request[r].status # "none"}

-----------------------------------------------------------------------------
(* The transport *)

Killed(e) == IF process[e] = NoProc THEN proc ELSE [proc EXCEPT ![process[e]] = "killed"]

\* disconnect(): what waits is rejected when the process exits.
Disconnected(e) ==
  /\ open' = [open EXCEPT ![e] = FALSE]
  /\ heard' = heard \ {process[e]}
  /\ proc' = Killed(e)
  /\ process' = [process EXCEPT ![e] = NoProc]
  /\ UNCHANGED transport

\* Mutant of NextId: every process counts its own requests.
IdOfProcess(e, p) == 1 + Cardinality({r \in Sent : request[r].proc = p})

\* ++this.requestId, which a new process does not reset.
NextId(e, p) == lastId[e] + 1

\* send() writes the request to the process.
Sends(e, p, kind) ==
  /\ Cardinality(Sent) < MaxRequests
  /\ request' = [request EXCEPT ![Cardinality(Sent) + 1] =
       [kind |-> kind, entry |-> e, id |-> NextId(e, p), proc |-> p, by |-> NoProc, status |-> "waiting"]]
  /\ lastId' = [lastId EXCEPT ![e] = @ + 1]

-----------------------------------------------------------------------------
(* The pool *)

\* addServer(), which removes the server that is there.
AddServer(e) ==
  /\ e \notin made
  /\ made' = made \cup {e}
  /\ entry' = e
  /\ IF entry = NoEntry THEN UNCHANGED <<health, stdio>>
     ELSE health' = [health EXCEPT ![entry] = FALSE] /\ Disconnected(entry)
  /\ UNCHANGED <<connected, attempts, sleeping, lastId, request>>

RemoveServer ==
  /\ entry # NoEntry
  /\ entry' = NoEntry
  /\ health' = [health EXCEPT ![entry] = FALSE]
  /\ Disconnected(entry)
  /\ UNCHANGED <<made, connected, attempts, sleeping, lastId, request>>

\* connect() as far as its tools/list request.  A process that runs is left alone.
Connects ==
  \E p \in Proc :
    /\ entry # NoEntry
    /\ proc[p] = "none"
    /\ proc' = [proc EXCEPT ![p] = "running"]
    /\ transport' = [transport EXCEPT ![p] = entry]
    /\ process' = [process EXCEPT ![entry] = p]
    /\ heard' = heard \cup {p}
    /\ open' = [open EXCEPT ![entry] = TRUE]
    /\ connected' = [connected EXCEPT ![entry] = TRUE]
    /\ attempts' = [attempts EXCEPT ![entry] = 0]
    /\ Sends(entry, p, "list")

Connect ==
  /\ Connects
  /\ UNCHANGED <<pool, health, sleeping>>

Disconnect ==
  /\ entry # NoEntry
  /\ health' = [health EXCEPT ![entry] = FALSE]
  /\ Disconnected(entry)
  /\ connected' = [connected EXCEPT ![entry] = FALSE]
  /\ UNCHANGED <<pool, attempts, sleeping, lastId, request>>

\* callTool(), when it does not throw at once.
CallTool ==
  /\ entry # NoEntry
  /\ connected[entry]
  /\ open[entry]
  /\ Sends(entry, process[entry], "call")
  /\ UNCHANGED <<pool, status, stdio>>

-----------------------------------------------------------------------------
(* What becomes of a request; connect() goes on with it *)

\* Mutant of Answered: the health check is not started.
AnsweredUnwatched(r, p) ==
  /\ request' = [request EXCEPT ![r].status = "answered", ![r].by = p]
  /\ UNCHANGED health

Answered(r, p) ==
  /\ request' = [request EXCEPT ![r].status = "answered", ![r].by = p]
  /\ IF request[r].kind = "list"
     THEN health' = [health EXCEPT ![request[r].entry] = TRUE]
     ELSE UNCHANGED health

Failed(rs) ==
  /\ request' = [r \in Requests |-> IF r \in rs THEN [request[r] EXCEPT !.status = "failed"]
                                    ELSE request[r]]
  /\ connected' = [e \in Entry |->
       connected[e] /\ ~ \E r \in rs : request[r].kind = "list" /\ request[r].entry = e]

\* A line of a process that is read: its id decides whom it answers.
Line(p, asked) ==
  /\ p \in heard
  /\ asked \in Sent
  /\ request[asked].proc = p
  /\ \E r \in Waiting(transport[p]) :
       /\ request[r].id = request[asked].id
       /\ \/ Answered(r, p) /\ UNCHANGED connected
          \/ Failed({r}) /\ UNCHANGED health
  /\ UNCHANGED <<pool, attempts, sleeping, stdio, lastId>>

\* MCP_REQUEST_TIMEOUT_MS, or the line cannot be written.
RequestFails(r) ==
  /\ request[r].status = "waiting"
  /\ Failed({r})
  /\ UNCHANGED <<pool, health, attempts, sleeping, stdio, lastId>>

\* 'exit' (or 'error') of a process, the current one or one before it, closes the
\* transport as it is by now and rejects whatever waits.
Exits(p) ==
  LET e == transport[p]
  IN /\ proc[p] \in {"running", "killed"}
     /\ open' = [open EXCEPT ![e] = FALSE]
     /\ heard' = heard \ {p, process[e]}
     /\ proc' = [Killed(e) EXCEPT ![p] = "gone"]
     /\ process' = [process EXCEPT ![e] = NoProc]
     /\ Failed(Waiting(e))
     /\ UNCHANGED <<pool, health, attempts, sleeping, transport, lastId>>

-----------------------------------------------------------------------------
(* The health check *)

\* Mutant of HealthCheck: the flag is left to the reconnect.
HealthCheckKeeps(e) ==
  /\ health[e]
  /\ ~open[e]
  /\ ~sleeping[e]
  /\ UNCHANGED connected
  /\ IF entry = NoEntry \/ attempts[entry] >= MaxReconnects
     THEN UNCHANGED <<attempts, sleeping, stdio>>
     ELSE /\ attempts' = [attempts EXCEPT ![entry] = @ + 1]
          /\ sleeping' = [sleeping EXCEPT ![entry] = TRUE]
          /\ Disconnected(entry)
  /\ UNCHANGED <<pool, health, lastId, request>>

\* The interval finds the transport closed; attemptReconnect() takes the entry
\* of the name.
HealthCheck(e) ==
  /\ health[e]
  /\ ~open[e]
  /\ ~sleeping[e]
  /\ connected' = [connected EXCEPT ![e] = FALSE]
  /\ IF entry = NoEntry \/ attempts[entry] >= MaxReconnects
     THEN UNCHANGED <<attempts, sleeping, stdio>>
     ELSE /\ attempts' = [attempts EXCEPT ![entry] = @ + 1]
          /\ sleeping' = [sleeping EXCEPT ![entry] = TRUE]
          /\ Disconnected(entry)
  /\ UNCHANGED <<pool, health, lastId, request>>

\* bound: nothing more can be spawned or sent.
NoneLeft == Cardinality(Sent) = MaxRequests \/ \A p \in Proc : proc[p] # "none"

\* After reconnectDelayMs: connect(name), of whatever entry has the name now.
Reconnect(e) ==
  /\ sleeping[e]
  /\ sleeping' = [sleeping EXCEPT ![e] = FALSE]
  /\ IF entry = NoEntry \/ NoneLeft THEN UNCHANGED <<connected, attempts, stdio, lastId, request>>
     ELSE Connects
  /\ UNCHANGED <<pool, health>>

-----------------------------------------------------------------------------
Init ==
  /\ entry = NoEntry
  /\ made = {}
  /\ connected = [e \in Entry |-> FALSE]
  /\ health = [e \in Entry |-> FALSE]
  /\ attempts = [e \in Entry |-> 0]
  /\ sleeping = [e \in Entry |-> FALSE]
  /\ open = [e \in Entry |-> FALSE]
  /\ process = [e \in Entry |-> NoProc]
  /\ proc = [p \in Proc |-> "none"]
  /\ transport = [p \in Proc |-> NoEntry]
  /\ heard = {}
  /\ lastId = [e \in Entry |-> 0]
  /\ request = [r \in Requests |-> [kind |-> "call", entry |-> NoEntry, id |-> 0,
                                    proc |-> NoProc, by |-> NoProc, status |-> "none"]]

Next ==
  \/ \E e \in Entry : AddServer(e) \/ HealthCheck(e) \/ Reconnect(e)
  \/ RemoveServer \/ Connect \/ Disconnect \/ CallTool
  \/ \E p \in Proc : Exits(p) \/ \E r \in Requests : Line(p, r)
  \/ \E r \in Requests : RequestFails(r)

Spec == Init /\ [][Next]_vars

\* Timers fire; a process need not answer, nor exit.
FairSpec ==
  /\ Spec
  /\ WF_vars(\E r \in Requests : RequestFails(r))
  /\ \A e \in Entry : WF_vars(HealthCheck(e)) /\ WF_vars(Reconnect(e))

-----------------------------------------------------------------------------
TypeOK ==
  /\ entry \in made \cup {NoEntry} /\ made \subseteq Entry
  /\ connected \in [Entry -> BOOLEAN] /\ health \in [Entry -> BOOLEAN]
  /\ sleeping \in [Entry -> BOOLEAN] /\ open \in [Entry -> BOOLEAN]
  /\ attempts \in [Entry -> 0..MaxReconnects]
  /\ process \in [Entry -> Proc \cup {NoProc}]
  /\ proc \in [Proc -> {"none", "running", "killed", "gone"}]
  /\ transport \in [Proc -> Entry \cup {NoEntry}]
  /\ heard \subseteq {p \in Proc : proc[p] = "running"}
  /\ lastId \in [Entry -> 0..MaxRequests]
  /\ request \in [Requests -> [kind : {"list", "call"}, entry : Entry \cup {NoEntry},
                               id : 0..MaxRequests, proc : Proc \cup {NoProc},
                               by : Proc \cup {NoProc},
                               status : {"none", "waiting", "answered", "failed"}]]

\* A request is answered by the process it was written to, although two processes
\* of one transport can be read at the same time (transport.ts:65-89, 111-142).
AnsweredByItsProcess ==
  \A r \in Sent : request[r].status = "answered" => request[r].by = request[r].proc

\* A server that is reported as connected is watched by its health check, or
\* connect() still waits for its tools and takes the report back when it fails
\* (connection-manager.ts:101-113, 218-224).
ConnectedIsWatched ==
  entry # NoEntry /\ connected[entry] =>
    health[entry] \/ \E r \in Waiting(entry) : request[r].kind = "list"

\* A server is not reported as connected for ever once its transport is closed
\* (connection-manager.ts:218-224).
ReportCorrected ==
  \A e \in Entry :
    entry = e /\ connected[e] /\ ~open[e] ~> ~(entry = e /\ connected[e] /\ ~open[e])

=============================================================================
