---------------------------- MODULE WsMultiplexer ----------------------------
(***************************************************************************)
(* One multiplexed connection (packages/communication/src/ws/              *)
(* multiplexer.ts with reconnect.ts): it is opened on request and again    *)
(* after a failure, messages sent meanwhile wait, a heartbeat closes a     *)
(* dead peer.  Every socket keeps its event handlers for ever, so a socket *)
(* that was given up still speaks for the connection.                      *)
(*                                                                         *)
(* An event handler that tells its listeners is two steps, before and      *)
(* after: a listener may connect, disconnect and send.  Nothing else       *)
(* happens meanwhile, nor before a socket was made for every attempt that  *)
(* a listener or its caller began.                                         *)
(*                                                                         *)
(* Sockets, timers and the peer are external: a socket opens, fails or     *)
(* closes when the network says so, and a timer fires at any time.         *)
(***************************************************************************)
EXTENDS Naturals, Sequences, FiniteSets

CONSTANTS
  Socket,       \* bound: sockets alive at a time
  NoSocket,
  Limits,       \* values of maxAttempts, 0 for no limit
  MaxPending,   \* length of the buffer for messages sent while offline
  MaxSend,      \* bound: messages sent
  MaxCalls,     \* bound: calls of connect and disconnect
  MaxResets     \* bound: resetAfter timers that run

VARIABLES
  state, ws, pending,                 \* _state, ws, _pendingMessages
  attempts, aborted, timer, resets,   \* ReconnectStrategy, its timers
  limit,                              \* maxAttempts
  imported,                           \* the module "ws" has been loaded
  loading,                            \* attempts that wait for it
  socket,                             \* what each socket does
  timeouts,                           \* sockets whose connection timeout runs
  heartbeat, leaked,                  \* heartbeatTimer runs, and one that it forgot
  attached,                           \* the user's channel is in channels
  sent, wire,                         \* messages sent, and handed to a socket
  rest,                               \* handlers whose listeners run, innermost first
  early,                              \* history: messages that listeners of 'connected' sent
  calls

reconnect == <<attempts, aborted, timer, resets, limit>>
network == <<imported, loading, socket, timeouts>>
hearts == <<heartbeat, leaked>>
traffic == <<pending, sent, wire, early>>
vars == <<state, ws, reconnect, network, hearts, attached, traffic, rest, calls>>

\* Nothing that runs has still to go on: the next event may be handled.
Quiet == rest = <<>> /\ (imported => loading = <<>>)

\* The innermost handler, which goes on when its listeners have returned.
Returns(handler) == rest # <<>> /\ Head(rest) = handler /\ rest' = Tail(rest)

\* A socket that is gone, and of which no timer is left, can stand for a new one.
Free(s) == socket[s] = "gone" /\ s \notin timeouts

Closing(s) == [socket EXCEPT ![s] = IF @ \in {"opening", "open"} THEN "closing" ELSE @]

-----------------------------------------------------------------------------
(* Connecting *)

\* The socket is made when the import, of a module that may be there, is done.
Connecting ==
  \E s \in Socket :
    /\ Free(s)
    /\ state' = "connecting"
    /\ timeouts' = timeouts \cup {s}
    /\ socket' = [socket EXCEPT ![s] = "loading"]
    /\ loading' = Append(loading, s)
    /\ UNCHANGED <<ws, imported>>

\* connect(), when it does not return at once.
Connect ==
  /\ calls < MaxCalls
  /\ calls' = calls + 1
  /\ state \notin {"connected", "connecting"}
  /\ Connecting
  /\ UNCHANGED <<reconnect, hearts, attached, traffic, rest>>

\* One constructor after the other: ws is the last of the sockets made.
Imported ==
  /\ rest = <<>>
  /\ loading # <<>>
  /\ imported' = TRUE
  /\ socket' = [s \in Socket |-> IF socket[s] = "loading" THEN "opening" ELSE socket[s]]
  /\ ws' = loading[Len(loading)]
  /\ loading' = <<>>
  /\ UNCHANGED <<state, timeouts, reconnect, hearts, attached, traffic, rest, calls>>

\* startHeartbeat() overwrites the handle of an interval that runs.
Beating == heartbeat' = TRUE /\ leaked' = (leaked \/ heartbeat)

\* 'open': the listeners are told before anything is sent.
Opens(s) ==
  /\ Quiet
  /\ socket[s] = "opening"
  /\ socket' = [socket EXCEPT ![s] = "open"]
  /\ timeouts' = timeouts \ {s}
  /\ ws' = s
  /\ state' = "connected"
  /\ attempts' = 0
  /\ aborted' = FALSE
  /\ resets' = IF resets < MaxResets THEN resets + 1 ELSE resets
  /\ rest' = <<"open">>
  /\ UNCHANGED <<timer, limit, imported, loading, hearts, attached, traffic, calls>>

Offline == ws = NoSocket \/ state # "connected"

\* Mutant of Opened: the messages that wait are not flushed.
OpenedUnflushed ==
  /\ Returns("open")
  /\ Beating
  /\ UNCHANGED <<state, ws, reconnect, network, attached, traffic, calls>>

\* Then the heartbeat starts and the messages that wait are flushed, unless a
\* listener has disconnected: then they wait again.
Opened ==
  /\ Returns("open")
  /\ Beating
  /\ IF Offline THEN UNCHANGED <<pending, wire>>
     ELSE /\ wire' = IF socket[ws] = "open" THEN wire \o pending ELSE wire
          /\ pending' = <<>>
  /\ UNCHANGED <<state, ws, reconnect, network, attached, sent, early, calls>>

\* The timeout of an attempt closes whatever ws is by then.
ConnectTimeout(s) ==
  /\ Quiet
  /\ s \in timeouts
  /\ timeouts' = timeouts \ {s}
  /\ state' = "disconnected"
  /\ ws' = NoSocket
  /\ socket' = IF ws = NoSocket THEN socket ELSE Closing(ws)
  /\ UNCHANGED <<reconnect, imported, loading, hearts, attached, traffic, rest, calls>>

-----------------------------------------------------------------------------
(* Losing the connection *)

StopHeartbeat == heartbeat' = FALSE /\ UNCHANGED leaked

\* scheduleReconnect(): beyond the last attempt nothing is scheduled.
ScheduleReconnect ==
  /\ state' = "reconnecting"
  /\ IF limit > 0 /\ attempts >= limit
     THEN timer' = FALSE /\ UNCHANGED attempts
     ELSE timer' = TRUE /\ attempts' = IF limit > 0 THEN attempts + 1 ELSE attempts

\* Mutant of Closes: the heartbeat is stopped, the state is kept.
ClosesSilently(s) ==
  /\ Quiet
  /\ socket[s] \in {"opening", "open", "closing"}
  /\ socket' = [socket EXCEPT ![s] = "gone"]
  /\ timeouts' = timeouts \ {s}
  /\ StopHeartbeat
  /\ rest' = <<"close">>
  /\ UNCHANGED <<state, ws, reconnect, imported, loading, attached, traffic, calls>>

\* 'close', after an 'error' if there is one, of any socket; ws is kept.
Closes(s) ==
  /\ Quiet
  /\ socket[s] \in {"opening", "open", "closing"}
  /\ socket' = [socket EXCEPT ![s] = "gone"]
  /\ timeouts' = timeouts \ {s}
  /\ StopHeartbeat
  /\ state' = "disconnected"
  /\ rest' = <<"close">>
  /\ UNCHANGED <<ws, reconnect, imported, loading, attached, traffic, calls>>

\* Mutant of Closed: a connection that was lost is not opened again.
ClosedForGood ==
  /\ Returns("close")
  /\ state' = IF aborted THEN state ELSE "reconnecting"
  /\ UNCHANGED <<ws, reconnect, network, hearts, attached, traffic, calls>>

\* When the listeners have returned, whatever they called.
Closed ==
  /\ Returns("close")
  /\ IF aborted THEN UNCHANGED <<state, timer, attempts>> ELSE ScheduleReconnect
  /\ UNCHANGED <<ws, aborted, resets, limit, network, hearts, attached, traffic, calls>>

\* The reconnect timer calls connect().
TimerFires ==
  /\ Quiet
  /\ timer
  /\ timer' = FALSE
  /\ IF state \in {"connected", "connecting"} THEN UNCHANGED <<state, ws, network>>
     ELSE Connecting
  /\ UNCHANGED <<attempts, aborted, resets, limit, hearts, attached, traffic, rest, calls>>

\* resetAfter: the timer of any connection that was ever open.
ResetFires ==
  /\ Quiet
  /\ resets > 0
  /\ resets' = resets - 1
  /\ attempts' = 0
  /\ aborted' = FALSE
  /\ UNCHANGED <<state, ws, timer, limit, network, hearts, attached, traffic, rest, calls>>

\* After a beat no pong comes before heartbeatTimeout; with a pong nothing changes.
HeartbeatFails ==
  /\ Quiet
  /\ heartbeat \/ leaked
  /\ ws # NoSocket
  /\ socket' = Closing(ws)
  /\ UNCHANGED <<state, ws, reconnect, imported, loading, timeouts, hearts, attached,
                 traffic, rest, calls>>

\* disconnect(); messages that wait stay where they are.
Disconnect ==
  /\ calls < MaxCalls
  /\ calls' = calls + 1
  /\ aborted' = TRUE
  /\ timer' = FALSE
  /\ StopHeartbeat
  /\ socket' = IF ws = NoSocket THEN socket ELSE Closing(ws)
  /\ ws' = NoSocket
  /\ state' = "closed"
  /\ rest' = <<"disconnect">> \o rest
  /\ UNCHANGED <<attempts, resets, limit, imported, loading, timeouts, attached, traffic>>

\* The channels are closed when the listeners have returned.
Disconnected ==
  /\ Returns("disconnect")
  /\ attached' = FALSE
  /\ UNCHANGED <<state, ws, reconnect, network, hearts, traffic, calls>>

-----------------------------------------------------------------------------
(* Messages *)

Channel ==
  /\ ~attached
  /\ attached' = TRUE
  /\ UNCHANGED <<state, ws, reconnect, network, hearts, traffic, rest, calls>>

\* Mutant of SendRaw: the buffer has no end.
SendRawUnbounded ==
  /\ sent < MaxSend
  /\ sent' = sent + 1
  /\ IF Offline
     THEN pending' = Append(pending, sent + 1) /\ UNCHANGED <<wire, early>>
     ELSE /\ wire' = IF socket[ws] = "open" THEN Append(wire, sent + 1) ELSE wire
          /\ early' = IF rest = <<>> THEN early ELSE early \cup {sent + 1}
          /\ UNCHANGED pending

\* sendRaw(); a socket that is closing drops what it is given.
SendRaw ==
  /\ sent < MaxSend
  /\ sent' = sent + 1
  /\ IF Offline
     THEN /\ pending' = IF Len(pending) < MaxPending THEN Append(pending, sent + 1) ELSE pending
          /\ UNCHANGED <<wire, early>>
     ELSE /\ wire' = IF socket[ws] = "open" THEN Append(wire, sent + 1) ELSE wire
          /\ early' = IF rest = <<>> THEN early ELSE early \cup {sent + 1}
          /\ UNCHANGED pending

Send ==
  /\ attached
  /\ SendRaw
  /\ UNCHANGED <<state, ws, reconnect, network, hearts, attached, rest, calls>>

\* A message arrives at a socket that is open, and its channel acknowledges it.
Receive(s) ==
  /\ Quiet
  /\ socket[s] = "open"
  /\ attached
  /\ SendRaw
  /\ UNCHANGED <<state, ws, reconnect, network, hearts, attached, rest, calls>>

-----------------------------------------------------------------------------
Init ==
  /\ state = "disconnected"
  /\ ws = NoSocket
  /\ pending = <<>>
  /\ attempts = 0 /\ aborted = FALSE /\ timer = FALSE /\ resets = 0
  /\ limit \in Limits
  /\ imported \in BOOLEAN
  /\ loading = <<>>
  /\ socket = [s \in Socket |-> "gone"]
  /\ timeouts = {}
  /\ heartbeat = FALSE /\ leaked = FALSE
  /\ attached = FALSE
  /\ sent = 0 /\ wire = <<>>
  /\ rest = <<>> /\ early = {}
  /\ calls = 0

\* A handler whose listeners have returned goes on.
Resumes == Opened \/ Closed \/ Disconnected

Next ==
  \/ Resumes
  \/ Connect \/ Disconnect \/ Imported \/ TimerFires \/ ResetFires \/ HeartbeatFails
  \/ Channel \/ Send
  \/ \E s \in Socket : Opens(s) \/ Closes(s) \/ ConnectTimeout(s) \/ Receive(s)

Spec == Init /\ [][Next]_vars

\* Timers and the import go on, listeners return, sockets that are asked to close do, and
\* the peer is not out of reach for ever: some socket of those that try opens.
FairSpec ==
  /\ Spec
  /\ WF_vars(TimerFires) /\ WF_vars(Imported) /\ WF_vars(Resumes)
  /\ SF_vars(\E s \in Socket : Opens(s))
  /\ WF_vars(\E s \in Socket : Closes(s) /\ socket[s] = "closing")

-----------------------------------------------------------------------------
TypeOK ==
  /\ state \in {"disconnected", "connecting", "connected", "reconnecting", "closed"}
  /\ ws \in Socket \cup {NoSocket}
  /\ pending \in Seq(1..MaxSend) /\ Len(pending) <= MaxPending
  /\ attempts \in Nat /\ limit \in Limits
  /\ aborted \in BOOLEAN /\ timer \in BOOLEAN /\ imported \in BOOLEAN /\ attached \in BOOLEAN
  /\ resets \in 0..MaxResets /\ timeouts \subseteq Socket
  /\ heartbeat \in BOOLEAN /\ leaked \in BOOLEAN
  /\ loading \in Seq(Socket)
  /\ socket \in [Socket -> {"gone", "loading", "opening", "open", "closing"}]
  /\ sent \in 0..MaxSend /\ wire \in Seq(1..MaxSend)
  /\ rest \in Seq({"open", "close", "disconnect"}) /\ early \subseteq 1..MaxSend
  /\ calls \in 0..MaxCalls

\* While the connection says it is connected it has a socket that was opened and,
\* when its listeners have returned, a heartbeat that watches it, although any socket
\* that was given up and any timer of an earlier attempt can still change its state
\* (multiplexer.ts:76-89, 208-246).
ConnectedIsWatched ==
  state = "connected" =>
    /\ ws # NoSocket /\ socket[ws] \in {"open", "closing"}
    /\ rest = <<>> => heartbeat

\* Messages leave in the order in which they were sent, over all connections, except
\* those that a listener of 'connected' sends before the flush: they overtake what
\* waited.  Nothing waits once the listeners have returned (multiplexer.ts:214-217,
\* 333-363).
SentInOrder ==
  /\ state = "connected" /\ rest = <<>> => pending = <<>>
  /\ LET all == wire \o pending
     IN \A i, j \in DOMAIN all : i < j /\ all[i] \notin early => all[i] < all[j]

\* With no limit of attempts, a connection that was lost is opened again unless
\* the user ends it (multiplexer.ts:225-237, 474-489).
Recovers ==
  state = "reconnecting" /\ limit = 0 ~> state \in {"connected", "closed"}
=============================================================================
