------------------------ MODULE CommunicationServer ------------------------
(***************************************************************************)
(* The server that mobile devices connect to                               *)
(* (packages/communication/src/server.ts) with its pairing code            *)
(* (pairing.ts): devices are paired by the code that the desktop shows,    *)
(* come back with the token they were given, over a socket of their own or *)
(* a new one, and approve the commands that the desktop wants to run.      *)
(*                                                                         *)
(* A socket is used once and belongs to the device that opened it, whose   *)
(* app has one installation id and keeps one token.                        *)
(***************************************************************************)
EXTENDS Naturals

CONSTANTS
  Device,
  NoDevice,
  MaxSockets, \* bound: sockets in a behaviour
  Command,    \* commands that ask for approval
  MaxPairs,   \* bound: secrets in a behaviour
  MaxMisses   \* maxFailedAttempts, 10 in the code

\* Sockets are numbered in the order in which they are opened.
Socket == 1..MaxSockets

VARIABLES
  listening,  \* io # null
  closing,    \* stop() waits for the HTTP server to close
  code,       \* of the pairing code: is it over, are attempts locked out, how many failed
  refresh,    \* the timer of the pairing code: "idle", "running" or "disposed"
  opened,     \* sockets opened so far
  owner,      \* the device at the other end of a socket, while it is open
  room,       \* the sockets in 'paired-devices'
  devices,    \* connectedDevices
  paired,     \* the secrets in the file of the paired devices, 0 for none
  secrets,    \* secrets made so far
  token,      \* external: the token that the app of a device keeps, 0 for none
  approving,  \* approveCommandHandler is set
  listed,     \* the keys of pendingApprovals
  approval    \* what became of each command: "none", "waiting", "approved" or "rejected"

server == <<listening, closing>>
pairing == <<code, refresh>>
sockets == <<opened, owner, room>>
registry == <<devices, paired, secrets, token>>
approvals == <<approving, listed, approval>>
vars == <<listening, closing, code, refresh, opened, owner, room, devices, paired, secrets,
          token, approving, listed, approval>>

-----------------------------------------------------------------------------
Unknown == [socket |-> 0, connected |-> FALSE, secret |-> 0]
Known(d) == devices[d].secret # 0

Open == {s \in Socket : owner[s] # NoDevice}

\* findDeviceBySocket().
DevicesOf(s) == {d \in Device : Known(d) /\ devices[d].socket = s}

Fresh == [over |-> FALSE, locked |-> code.locked, misses |-> code.misses]

\* The handler of 'disconnect', of each of S.
Disconnected(S) ==
  [d \in Device |-> IF devices[d].socket \in S THEN [devices[d] EXCEPT !.connected = FALSE]
                                               ELSE devices[d]]

Close(S) ==
  /\ owner' = [s \in Socket |-> IF s \in S THEN NoDevice ELSE owner[s]]
  /\ UNCHANGED opened

-----------------------------------------------------------------------------
(* The life of the server *)

\* start(): the paired devices are read; a pairing manager that was disposed is
\* not refreshed again.
Start ==
  /\ ~listening
  /\ listening' = TRUE
  /\ devices' = [d \in Device |->
                   IF paired[d] # 0 THEN [Unknown EXCEPT !.secret = paired[d]] ELSE devices[d]]
  /\ refresh' = IF refresh = "disposed" THEN "disposed" ELSE "running"
  /\ UNCHANGED <<closing, code, sockets, paired, secrets, token, approvals>>

\* disableGlobalCommandApproval(): the resolvers are dropped, not called.
Disabled == approving' = FALSE /\ listed' = {} /\ UNCHANGED approval

\* stop(), up to its await: every socket is disconnected.
Stop ==
  /\ listening
  /\ listening' = FALSE
  /\ closing' = TRUE
  /\ refresh' = "disposed"
  /\ Disabled
  /\ Close(Open)
  /\ room' = {}
  /\ devices' = Disconnected(Open)
  /\ UNCHANGED <<code, paired, secrets, token>>

\* stop(), after its await: the map is cleared, even if the server was started again.
Stopped ==
  /\ closing
  /\ closing' = FALSE
  /\ devices' = [d \in Device |-> Unknown]
  /\ UNCHANGED <<listening, pairing, sockets, paired, secrets, token, approvals>>

-----------------------------------------------------------------------------
(* Sockets *)

\* Mutant of Confirmed: a device that comes back is not put into the room.
ConfirmedUnheard(d, s) ==
  /\ devices' = [devices EXCEPT ![d].socket = s]
  /\ UNCHANGED room

\* A token in the handshake that is known: the socket becomes that of its device,
\* and `connected' stays as it is.
Confirmed(d, s) ==
  /\ devices' = [devices EXCEPT ![d].socket = s]
  /\ room' = room \cup {s}

\* 'connection'.
Connect(d, s) ==
  /\ listening
  /\ s = opened + 1
  /\ opened' = s
  /\ owner' = [owner EXCEPT ![s] = d]
  /\ IF token[d] # 0 /\ devices[d].secret = token[d]
     THEN Confirmed(d, s)
     ELSE UNCHANGED <<devices, room>>
  /\ UNCHANGED <<server, pairing, paired, secrets, token, approvals>>

\* A socket is lost, or closed by its device.
Disconnect(s) ==
  /\ s \in Open
  /\ Close({s})
  /\ room' = room \ {s}
  /\ devices' = Disconnected({s})
  /\ UNCHANGED <<server, pairing, paired, secrets, token, approvals>>

-----------------------------------------------------------------------------
(* Pairing *)

\* validate(), of a code that is not the current one; beyond maxFailedAttempts
\* no code is taken for some time.
WrongCode(s) ==
  /\ s \in Open
  /\ ~code.locked
  /\ ~code.over
  /\ code' = IF code.misses + 1 >= MaxMisses
             THEN [code EXCEPT !.locked = TRUE, !.misses = 0]
             ELSE [code EXCEPT !.misses = @ + 1]
  /\ UNCHANGED <<server, refresh, sockets, registry, approvals>>

\* handlePairing() with the current code: a new secret, which the file may fail to
\* take and the device may fail to receive, and a new code.
PairByCode(s) ==
  LET d == owner[s]
      secret == secrets + 1
  IN /\ s \in Open
     /\ ~code.locked
     /\ ~code.over
     /\ secrets < MaxPairs
     /\ secrets' = secret
     /\ devices' = [devices EXCEPT ![d] =
                      [socket |-> s, connected |-> TRUE, secret |-> secret]]
     /\ paired' \in {paired, [e \in Device |-> devices'[e].secret]}
     /\ token' \in {token, [token EXCEPT ![d] = secret]}
     /\ room' = room \cup {s}
     /\ code' = [code EXCEPT !.misses = 0]
     /\ UNCHANGED <<server, refresh, opened, owner, approvals>>

\* handlePairing() with a token: the older socket of the device is disconnected
\* before the device gets the new one.
Resume(s) ==
  LET d == owner[s]
      older == {devices[d].socket} \cap (Open \ {s})
  IN /\ s \in Open
     /\ token[d] # 0
     /\ devices[d].secret = token[d]
     /\ Close(older)
     /\ room' = (room \ older) \cup {s}
     /\ devices' = [devices EXCEPT ![d].socket = s, ![d].connected = TRUE]
     /\ UNCHANGED <<server, pairing, paired, secrets, token, approvals>>

\* handlePairing() with a token that is not known: the device forgets it.
ResumeRefused(s) ==
  LET d == owner[s]
  IN /\ s \in Open
     /\ token[d] # 0
     /\ devices[d].secret # token[d]
     /\ token' = [token EXCEPT ![d] = 0]
     /\ UNCHANGED <<server, pairing, sockets, devices, paired, secrets, approvals>>

CodeOver ==
  /\ ~code.over
  /\ code' = [code EXCEPT !.over = TRUE]
  /\ UNCHANGED <<server, refresh, sockets, registry, approvals>>

\* The timer regenerates a code that is over; getCode() does when it is asked for.
Regenerate ==
  /\ code.over
  /\ refresh = "running" \/ listening
  /\ code' = Fresh
  /\ UNCHANGED <<server, refresh, sockets, registry, approvals>>

LockoutOver ==
  /\ code.locked
  /\ code' = [code EXCEPT !.locked = FALSE]
  /\ UNCHANGED <<server, refresh, sockets, registry, approvals>>

-----------------------------------------------------------------------------
(* Approvals *)

sessions == <<server, pairing, sockets, registry>>

Enable ==
  /\ ~approving
  /\ approving' = TRUE
  /\ UNCHANGED <<sessions, listed, approval>>

Disable ==
  /\ Disabled
  /\ UNCHANGED sessions

\* approveCommandHandler().
Ask(c) ==
  /\ approving
  /\ approval[c] = "none"
  /\ approval' = [approval EXCEPT ![c] = "waiting"]
  /\ listed' = listed \cup {c}
  /\ UNCHANGED <<sessions, approving>>

Settle(c, answer) ==
  /\ c \in listed
  /\ listed' = listed \ {c}
  /\ approval' = [approval EXCEPT ![c] = answer]
  /\ UNCHANGED <<sessions, approving>>

\* approve_command and reject_command, from the socket of a device.
Answer(s, c, answer) ==
  /\ s \in Open
  /\ DevicesOf(s) # {}
  /\ Settle(c, answer)

\* After five minutes; for what is no longer listed the timer does nothing.
ApprovalTimesOut(c) == Settle(c, "rejected")

-----------------------------------------------------------------------------
Init ==
  /\ listening = FALSE
  /\ closing = FALSE
  /\ code = [over |-> FALSE, locked |-> FALSE, misses |-> 0]
  /\ refresh = "idle"
  /\ opened = 0
  /\ owner = [s \in Socket |-> NoDevice]
  /\ room = {}
  /\ devices = [d \in Device |-> Unknown]
  /\ paired = [d \in Device |-> 0]
  /\ secrets = 0
  /\ token = [d \in Device |-> 0]
  /\ approving = FALSE
  /\ listed = {}
  /\ approval = [c \in Command |-> "none"]

Next ==
  \/ Start \/ Stop \/ Stopped
  \/ \E s \in Socket :
       \/ \E d \in Device : Connect(d, s)
       \/ Disconnect(s)
       \/ WrongCode(s) \/ PairByCode(s)
       \/ Resume(s) \/ ResumeRefused(s)
       \/ \E c \in Command, answer \in {"approved", "rejected"} : Answer(s, c, answer)
  \/ CodeOver \/ Regenerate \/ LockoutOver
  \/ Enable \/ Disable
  \/ \E c \in Command : Ask(c) \/ ApprovalTimesOut(c)

Spec == Init /\ [][Next]_vars

\* Timers fire.
FairSpec == Spec /\ \A c \in Command : WF_vars(ApprovalTimesOut(c))

-----------------------------------------------------------------------------
TypeOK ==
  /\ listening \in BOOLEAN
  /\ closing \in BOOLEAN
  /\ code \in [over : BOOLEAN, locked : BOOLEAN, misses : 0..(MaxMisses - 1)]
  /\ refresh \in {"idle", "running", "disposed"}
  /\ opened \in 0..MaxSockets
  /\ owner \in [Socket -> Device \cup {NoDevice}]
  /\ room \subseteq Open
  /\ devices \in [Device -> [socket : 0..opened, connected : BOOLEAN,
                             secret : 0..secrets]]
  /\ paired \in [Device -> 0..secrets]
  /\ secrets \in 0..MaxPairs
  /\ token \in [Device -> 0..secrets]
  /\ approving \in BOOLEAN
  /\ listed \subseteq {c \in Command : approval[c] = "waiting"}
  /\ approval \in [Command -> {"none", "waiting", "approved", "rejected"}]

\* A device that is shown as connected hears every broadcast: its socket is open
\* and in the room, whichever of its sockets opened, resumed or was lost last, and
\* also after the server was stopped and started (server.ts:612-633, 818-826,
\* 876-905).
ConnectedCanHear ==
  \A d \in Device : devices[d].connected => devices[d].socket \in room \cap Open

\* Every command that asks for approval is answered or rejected in the end.
ApprovalsSettle == \A c \in Command : approval[c] = "waiting" ~> approval[c] # "waiting"
=============================================================================
