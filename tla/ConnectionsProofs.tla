-------------------------- MODULE ConnectionsProofs --------------------------
(***************************************************************************)
(* Proofs about Connections: what the multiplexed connection and the pool  *)
(* of MCP servers claim holds however connections are lost and made again, *)
(* for every value of the constants.                                       *)
(***************************************************************************)
EXTENDS Connections, FiniteSets, FiniteSetTheorems, TLAPS

LEMMA StepOfEach ==
  ASSUME [Next]_vars
  PROVE  [Multiplexer!Next]_muxVars /\ [Servers!Next]_mcpVars
<1>1. CASE Next
  BY <1>1 DEF Next
<1>2. CASE UNCHANGED vars
  BY <1>2 DEF vars
<1>3. QED
  BY <1>1, <1>2

-----------------------------------------------------------------------------
(* WsMultiplexer *)

\* No socket is made before the module "ws" is there, and none waits for it while
\* the connection is open.
LoadInv ==
  /\ ~imported => state # "connected" /\ \A s \in Socket : socket[s] \in {"gone", "loading"}
  /\ imported /\ state = "connected" => loading = <<>>

\* Of the listeners only those of 'connected' find the connection open.
RestInv == state = "connected" /\ rest # <<>> => rest = <<"open">>

\* Only what E contains comes before something smaller.
Ordered(s, E) == \A i, j \in DOMAIN s : i < j /\ s[i] \notin E => s[i] < s[j]

\* The messages that left and those that wait are some of those sent, in their order
\* but for those that overtook.
OrderInv ==
  /\ state = "connected" /\ rest = <<>> => pending = <<>>
  /\ Ordered(wire \o pending, early)
  /\ \A i \in DOMAIN (wire \o pending) : (wire \o pending)[i] <= sent

MuxInv ==
  /\ Multiplexer!TypeOK /\ Multiplexer!ConnectedIsWatched
  /\ LoadInv /\ RestInv /\ OrderInv

\* A number that is larger than all may follow.
LEMMA LargerFollows ==
  ASSUME NEW n \in Nat, NEW s \in Seq(1..n), NEW last \in Nat, last < n, NEW E, Ordered(s, E),
         \A i \in DOMAIN s : s[i] <= last
  PROVE  /\ Append(s, last + 1) \in Seq(1..n)
         /\ Ordered(Append(s, last + 1), E)
         /\ \A i \in DOMAIN Append(s, last + 1) : Append(s, last + 1)[i] <= last + 1
<1> DEFINE t == Append(s, last + 1)
<1>1. /\ t \in Seq(1..n) /\ Len(t) = Len(s) + 1 /\ Len(s) \in Nat
      /\ DOMAIN t = 1..(Len(s) + 1) /\ DOMAIN s = 1..Len(s)
      /\ \A i \in 1..Len(s) : t[i] = s[i] /\ s[i] \in Nat
      /\ t[Len(s) + 1] = last + 1
  <2>1. last + 1 \in 1..n /\ \A x \in 1..n : x \in Nat
    OBVIOUS
  <2>2. \A i \in 1..Len(s) : s[i] \in 1..n
    OBVIOUS
  <2>3. QED
    BY <2>1, <2>2
<1> HIDE DEF t
<1>2. \A i \in 1..(Len(s) + 1) : i \in 1..Len(s) \/ i = Len(s) + 1
  BY <1>1
<1>3. ASSUME NEW i \in DOMAIN t PROVE t[i] <= last + 1
  <2>1. CASE i \in 1..Len(s)
    BY <1>1, <2>1
  <2>2. CASE i = Len(s) + 1
    BY <1>1, <2>2
  <2>3. QED
    BY <1>1, <1>2, <2>1, <2>2
<1>4. ASSUME NEW i \in DOMAIN t, NEW j \in DOMAIN t, i < j, t[i] \notin E PROVE t[i] < t[j]
  <2>1. i \in 1..Len(s)
    BY <1>1, <1>2, <1>4
  <2>2. CASE j \in 1..Len(s)
    BY <1>1, <1>4, <2>1, <2>2 DEF Ordered
  <2>3. CASE j = Len(s) + 1
    BY <1>1, <2>1, <2>3
  <2>4. QED
    BY <1>1, <1>2, <2>2, <2>3
<1>5. QED
  BY <1>1, <1>3, <1>4 DEF Ordered, t

\* One that E contains may be put anywhere after smaller ones.
LEMMA LargerOvertakes ==
  ASSUME NEW n \in Nat, NEW s \in Seq(1..n), NEW t \in Seq(1..n), NEW last \in Nat, last < n,
         NEW E, Ordered(s \o t, E), \A i \in DOMAIN (s \o t) : (s \o t)[i] <= last
  PROVE  LET new == Append(s, last + 1) \o t
         IN /\ Append(s, last + 1) \in Seq(1..n)
            /\ Ordered(new, E \cup {last + 1})
            /\ \A i \in DOMAIN new : new[i] <= last + 1
<1> DEFINE old == s \o t
           new == Append(s, last + 1) \o t
           k == Len(s) + 1
           From(i) == IF i < k THEN i ELSE i - 1
<1>1. /\ Len(s) \in Nat /\ Len(t) \in Nat /\ Append(s, last + 1) \in Seq(1..n)
      /\ Len(Append(s, last + 1)) = k
  <2>1. last + 1 \in 1..n
    OBVIOUS
  <2>2. QED
    BY <2>1
<1>2. DOMAIN old = 1..(Len(s) + Len(t)) /\ DOMAIN new = 1..(k + Len(t))
  BY <1>1
<1>3. new[k] = last + 1
  BY <1>1
<1>4. ASSUME NEW i \in DOMAIN new, i # k
      PROVE  From(i) \in DOMAIN old /\ new[i] = old[From(i)] /\ old[From(i)] \in Nat
  <2>1. From(i) \in DOMAIN old
    BY <1>1, <1>2, <1>4
  <2>2. CASE i < k
    <3>1. i \in 1..Len(s) /\ new[i] = s[i] /\ old[i] = s[i] /\ s[i] \in 1..n
      BY <1>1, <1>2, <1>4, <2>2, SMTT(30)
    <3>2. QED
      BY <2>1, <2>2, <3>1
  <2>3. CASE ~ (i < k)
    <3>1. i \in k + 1..(k + Len(t)) /\ i - k \in 1..Len(t)
      BY <1>1, <1>2, <1>4, <2>3
    <3>2. new[i] = t[i - k] /\ t[i - k] \in 1..n
      BY <1>1, <3>1, SMTT(30)
    <3>3. i - 1 \in Len(s) + 1..(Len(s) + Len(t)) /\ i - 1 - Len(s) = i - k
      BY <1>1, <3>1
    <3>4. old[i - 1] = t[i - 1 - Len(s)]
      BY <1>1, <3>3, SMTT(30)
    <3>5. QED
      BY <2>1, <2>3, <3>2, <3>3, <3>4
  <2>4. QED
    BY <2>2, <2>3, <1>1, <1>2, <1>4
<1>5. k \in Nat /\ \A i \in DOMAIN new : i \in Nat
  BY <1>1, <1>2
<1>6. \A i \in DOMAIN old : old[i] <= last
  OBVIOUS
<1> HIDE DEF old, new, k
<1>7. ASSUME NEW i \in DOMAIN new PROVE new[i] <= last + 1
  <2>1. CASE i = k
    BY <1>3, <2>1
  <2>2. CASE i # k
    BY <1>4, <1>6, <2>2
  <2>3. QED
    BY <2>1, <2>2
<1>8. ASSUME NEW i \in DOMAIN new, NEW j \in DOMAIN new, i < j, new[i] \notin E \cup {last + 1}
      PROVE  new[i] < new[j]
  <2>1. i # k
    BY <1>3, <1>8
  <2>2. CASE j = k
    <3>1. new[i] = old[From(i)] /\ old[From(i)] \in Nat /\ old[From(i)] <= last
      BY <1>4, <1>6, <2>1
    <3>2. new[j] = last + 1
      BY <1>3, <2>2
    <3> HIDE DEF From
    <3>3. QED
      BY <3>1, <3>2
  <2>3. CASE j # k
    <3>1. From(i) < From(j)
      BY <1>5, <1>8, <2>1, <2>3
    <3>2. old[From(i)] < old[From(j)]
      BY <1>4, <1>8, <2>1, <2>3, <3>1 DEF Ordered, old
    <3>3. QED
      BY <1>4, <2>1, <2>3, <3>2
  <2>4. QED
    BY <2>2, <2>3
<1>9. QED
  BY <1>1, <1>7, <1>8 DEF Ordered, new

\* What is ordered is so up to any place, and with more exceptions.
LEMMA OrderedPart ==
  ASSUME NEW n \in Nat, NEW s \in Seq(1..n), NEW t \in Seq(1..n), NEW E, Ordered(s \o t, E)
  PROVE  Ordered(s, E) /\ \A i \in DOMAIN s : i \in DOMAIN (s \o t) /\ (s \o t)[i] = s[i]
<1>1. \A i \in DOMAIN s : i \in DOMAIN (s \o t) /\ (s \o t)[i] = s[i]
  BY SMTT(30)
<1>2. QED
  BY <1>1 DEF Ordered

LEMMA JoinedProperties ==
  ASSUME NEW S, NEW s \in Seq(S), NEW t \in Seq(S)
  PROVE  /\ s \o t \in Seq(S) /\ s \o <<>> = s
         /\ \A x \in S : s \o Append(t, x) = Append(s \o t, x)
  OBVIOUS

LEMMA MuxInitially == Init => MuxInv
<1> SUFFICES ASSUME Init PROVE MuxInv
  OBVIOUS
<1> USE MultiplexerBounds
<1>1. Multiplexer!Init /\ limit \in Nat
  BY DEF Init, Multiplexer!Init
<1>2. Multiplexer!TypeOK
  <2>1. 0 \in 0..MaxResets /\ 0 \in 0..MaxSend /\ 0 \in 0..MaxCalls
    OBVIOUS
  <2>2. \A S : <<>> \in Seq(S)
    OBVIOUS
  <2>3. pending = <<>> /\ Len(pending) <= MaxPending
    BY <1>1 DEF Multiplexer!Init
  <2>4. limit \in Limits
    BY DEF Init, Multiplexer!Init
  <2>5. socket \in [Socket -> {"gone", "loading", "opening", "open", "closing"}]
    BY <1>1 DEF Multiplexer!Init
  <2>6. QED
    BY <1>1, <2>1, <2>2, <2>3, <2>4, <2>5 DEF Multiplexer!Init, Multiplexer!TypeOK
<1>3. wire \o pending = <<>>
  BY <1>1 DEF Multiplexer!Init
<1>4. OrderInv
  BY <1>1, <1>3 DEF Multiplexer!Init, OrderInv, Ordered
<1>5. LoadInv /\ RestInv /\ Multiplexer!ConnectedIsWatched
  BY <1>1 DEF Multiplexer!Init, LoadInv, RestInv, Multiplexer!ConnectedIsWatched
<1>6. QED
  BY <1>2, <1>4, <1>5 DEF MuxInv

LEMMA ClosingProperties ==
  ASSUME MuxInv, NEW t \in Socket
  PROVE  /\ Multiplexer!Closing(t) \in [Socket -> {"gone", "loading", "opening", "open", "closing"}]
         /\ \A s \in Socket :
              /\ socket[s] \in {"open", "closing"} => Multiplexer!Closing(t)[s] \in {"open", "closing"}
              /\ socket[s] \in {"gone", "loading"} => Multiplexer!Closing(t)[s] = socket[s]
BY DEF MuxInv, Multiplexer!TypeOK, Multiplexer!Closing

\* A new attempt to connect.
LEMMA ConnectingStep ==
  ASSUME MuxInv, state # "connected", Multiplexer!Connecting
  PROVE  /\ state' = "connecting" /\ imported' = imported /\ ws' = ws
         /\ timeouts' \subseteq Socket /\ loading' \in Seq(Socket)
         /\ socket' \in [Socket -> {"gone", "loading", "opening", "open", "closing"}]
         /\ LoadInv'
<1>1. PICK s \in Socket :
        /\ state' = "connecting" /\ imported' = imported /\ ws' = ws
        /\ timeouts' = timeouts \cup {s}
        /\ socket' = [socket EXCEPT ![s] = "loading"]
        /\ loading' = Append(loading, s)
  BY DEF Multiplexer!Connecting
<1>2. /\ loading \in Seq(Socket) /\ timeouts \subseteq Socket
      /\ socket \in [Socket -> {"gone", "loading", "opening", "open", "closing"}]
  BY DEF MuxInv, Multiplexer!TypeOK
<1>3. Append(loading, s) \in Seq(Socket)
  BY <1>2
<1>4. socket' \in [Socket -> {"gone", "loading", "opening", "open", "closing"}]
  BY <1>1, <1>2
<1>5. LoadInv'
  BY <1>1, <1>2 DEF MuxInv, LoadInv
<1>6. QED
  BY <1>1, <1>2, <1>3, <1>4, <1>5

\* A message is sent: it waits or leaves.
LEMMA SendRawStep ==
  ASSUME MuxInv, Multiplexer!SendRaw, state' = state, rest' = rest
  PROVE  /\ sent' \in 0..MaxSend /\ pending' \in Seq(1..MaxSend) /\ Len(pending') <= MaxPending
         /\ wire' \in Seq(1..MaxSend) /\ early' \subseteq 1..MaxSend
         /\ OrderInv'
<1> USE MultiplexerBounds
<1> DEFINE all == wire \o pending
<1>1. /\ pending \in Seq(1..MaxSend) /\ Len(pending) <= MaxPending /\ wire \in Seq(1..MaxSend)
      /\ sent \in 0..MaxSend /\ early \subseteq 1..MaxSend /\ OrderInv
  BY DEF MuxInv, Multiplexer!TypeOK
<1>2. sent < MaxSend /\ sent' = sent + 1
  BY DEF Multiplexer!SendRaw
<1>3. sent \in Nat /\ sent + 1 \in 1..MaxSend /\ sent + 1 \in 0..MaxSend
  BY <1>1, <1>2
<1>4. all \in Seq(1..MaxSend) /\ wire \o <<>> = wire
      /\ wire \o Append(pending, sent + 1) = Append(all, sent + 1)
  BY SMTT(30), <1>1, <1>3, JoinedProperties
<1>5. Ordered(all, early) /\ \A i \in DOMAIN all : all[i] <= sent
  BY <1>1 DEF OrderInv
<1> HIDE DEF all
<1>6. /\ Ordered(Append(all, sent + 1), early)
      /\ \A i \in DOMAIN Append(all, sent + 1) : Append(all, sent + 1)[i] <= sent + 1
  BY <1>2, <1>3, <1>4, <1>5, LargerFollows
<1>7. \A i \in DOMAIN all : all[i] \in Nat /\ all[i] <= sent + 1
  <2>1. \A i \in DOMAIN all : all[i] \in 1..MaxSend
    BY SMTT(30), <1>4
  <2>2. QED
    BY <1>3, <1>5, <2>1
<1>8. CASE /\ Multiplexer!Offline
           /\ pending' = (IF Len(pending) < MaxPending THEN Append(pending, sent + 1) ELSE pending)
           /\ wire' = wire /\ early' = early
  <2>1. state # "connected"
    BY <1>8 DEF MuxInv, Multiplexer!ConnectedIsWatched, Multiplexer!Offline
  <2>2. CASE pending' = pending
    <3>1. (wire \o pending)' = all
      BY <1>8, <2>2 DEF all
    <3>2. QED
      BY <1>1, <1>2, <1>3, <1>5, <1>7, <1>8, <2>1, <2>2, <3>1 DEF OrderInv
  <2>3. CASE Len(pending) < MaxPending /\ pending' = Append(pending, sent + 1)
    <3>1. (wire \o pending)' = Append(all, sent + 1)
      BY <1>4, <1>8, <2>3
    <3>2. pending' \in Seq(1..MaxSend) /\ Len(pending') = Len(pending) + 1
          /\ Len(pending) \in Nat
      BY <1>1, <1>3, <2>3
    <3>3. Len(pending') <= MaxPending
      BY <2>3, <3>2
    <3>4. QED
      BY <1>1, <1>2, <1>3, <1>6, <1>8, <2>1, <3>1, <3>2, <3>3 DEF OrderInv
  <2>4. QED
    BY <1>8, <2>2, <2>3
<1>9. CASE /\ ~Multiplexer!Offline
           /\ wire' = (IF socket[ws] = "open" THEN Append(wire, sent + 1) ELSE wire)
           /\ early' = (IF rest = <<>> THEN early ELSE early \cup {sent + 1})
           /\ pending' = pending
  <2>1. state = "connected" /\ early' \subseteq 1..MaxSend
    BY <1>1, <1>3, <1>9 DEF Multiplexer!Offline
  <2>2. CASE wire' = wire
    <3>1. (wire \o pending)' = all
      BY <1>9, <2>2 DEF all
    <3>2. Ordered(all, early')
      BY <1>5, <1>9 DEF Ordered
    <3>3. (rest = <<>> => pending = <<>>) /\ rest' = rest /\ state' = state
      BY <1>1, <2>1 DEF OrderInv
    <3>4. QED
      BY <1>1, <1>2, <1>3, <1>7, <1>9, <2>1, <2>2, <3>1, <3>2, <3>3 DEF OrderInv
  <2>3. CASE wire' = Append(wire, sent + 1) /\ rest = <<>>
    <3>1. pending = <<>>
      BY <1>1, <2>1, <2>3 DEF OrderInv
    <3>2. all = wire
      BY <1>4, <3>1 DEF all
    <3>3. wire' \in Seq(1..MaxSend)
      BY <1>1, <1>3, <2>3
    <3>4. (wire \o pending)' = Append(all, sent + 1)
      BY <1>9, <2>3, <3>1, <3>2, <3>3, JoinedProperties
    <3>5. QED
      BY <1>1, <1>2, <1>3, <1>6, <1>9, <2>1, <2>3, <3>1, <3>3, <3>4 DEF OrderInv
  <2>4. CASE wire' = Append(wire, sent + 1) /\ rest # <<>>
    <3>1. early' = early \cup {sent + 1}
      BY <1>9, <2>4
    <3>2. (wire \o pending)' = Append(wire, sent + 1) \o pending
      BY <1>9, <2>4
    <3>3. /\ Append(wire, sent + 1) \in Seq(1..MaxSend)
          /\ Ordered(Append(wire, sent + 1) \o pending, early \cup {sent + 1})
          /\ \A i \in DOMAIN (Append(wire, sent + 1) \o pending) :
               (Append(wire, sent + 1) \o pending)[i] <= sent + 1
      BY <1>1, <1>2, <1>3, <1>5, LargerOvertakes DEF all
    <3>4. QED
      BY <1>1, <1>2, <1>3, <1>9, <2>1, <2>4, <3>1, <3>2, <3>3 DEF OrderInv
  <2>5. QED
    BY <1>9, <2>2, <2>3, <2>4
<1>10. QED
  BY <1>8, <1>9 DEF Multiplexer!SendRaw

\* What waits may wait while nothing is sent, unless a handler ends.
LEMMA OrderKept ==
  ASSUME MuxInv, UNCHANGED <<pending, sent, wire, early>>,
         state' = "connected" => state = "connected" /\ rest' = rest
  PROVE  OrderInv'
BY DEF MuxInv, OrderInv

LEMMA MuxStep == MuxInv /\ [Multiplexer!Next]_muxVars => MuxInv'
<1> SUFFICES ASSUME MuxInv, [Multiplexer!Next]_muxVars PROVE MuxInv'
  OBVIOUS
<1> USE MultiplexerBounds
<1> USE DEF Multiplexer!reconnect, Multiplexer!network, Multiplexer!hearts, Multiplexer!traffic
<1>1. Multiplexer!TypeOK /\ Multiplexer!ConnectedIsWatched
      /\ LoadInv /\ RestInv /\ OrderInv
  BY DEF MuxInv
<1>2. /\ pending \in Seq(1..MaxSend) /\ Len(pending) <= MaxPending /\ wire \in Seq(1..MaxSend)
      /\ sent \in 0..MaxSend /\ loading \in Seq(Socket)
      /\ ws \in Socket \cup {NoSocket} /\ timeouts \subseteq Socket /\ imported \in BOOLEAN
      /\ socket \in [Socket -> {"gone", "loading", "opening", "open", "closing"}]
      /\ resets \in 0..MaxResets /\ calls \in 0..MaxCalls
      /\ rest \in Seq({"open", "close", "disconnect"}) /\ early \subseteq 1..MaxSend
  BY <1>1 DEF Multiplexer!TypeOK
<1>3. /\ calls < MaxCalls => calls + 1 \in 0..MaxCalls
      /\ resets < MaxResets => resets + 1 \in 0..MaxResets
      /\ resets > 0 => resets - 1 \in 0..MaxResets
  BY <1>2
<1>4. CASE Multiplexer!Connect
  <2>1. /\ state # "connected" /\ Multiplexer!Connecting /\ calls' \in 0..MaxCalls
        /\ UNCHANGED <<attempts, aborted, timer, resets, limit, heartbeat, leaked, attached>>
        /\ UNCHANGED <<pending, sent, wire, early, rest>>
    BY <1>3, <1>4 DEF Multiplexer!Connect
  <2>2. /\ state' = "connecting" /\ imported' = imported /\ ws' = ws
        /\ timeouts' \subseteq Socket /\ loading' \in Seq(Socket)
        /\ socket' \in [Socket -> {"gone", "loading", "opening", "open", "closing"}]
        /\ LoadInv'
    BY <2>1, ConnectingStep
  <2>3. Multiplexer!TypeOK'
    BY <1>1, <2>1, <2>2 DEF Multiplexer!TypeOK
  <2>4. OrderInv'
    BY <2>1, <2>2, OrderKept
  <2>5. QED
    BY <2>2, <2>3, <2>4 DEF MuxInv, RestInv, Multiplexer!ConnectedIsWatched
<1>5. CASE Multiplexer!Disconnect
  <2>1. /\ calls' \in 0..MaxCalls /\ aborted' = TRUE /\ timer' = FALSE /\ heartbeat' = FALSE
        /\ leaked' = leaked /\ ws' = NoSocket /\ state' = "closed" /\ rest' = <<"disconnect">> \o rest
        /\ socket' = (IF ws = NoSocket THEN socket ELSE Multiplexer!Closing(ws))
        /\ UNCHANGED <<attempts, resets, limit, imported, loading, timeouts, attached>>
        /\ UNCHANGED <<pending, sent, wire, early>>
    BY <1>3, <1>5 DEF Multiplexer!Disconnect, Multiplexer!StopHeartbeat
  <2>2. /\ socket' \in [Socket -> {"gone", "loading", "opening", "open", "closing"}]
        /\ \A s \in Socket : socket[s] \in {"gone", "loading"} => socket'[s] = socket[s]
    BY <1>2, <2>1, ClosingProperties
  <2>3. Multiplexer!TypeOK'
    <3>1. rest' \in Seq({"open", "close", "disconnect"})
      BY <1>2, <2>1
    <3>2. QED
      BY <1>1, <2>1, <2>2, <3>1 DEF Multiplexer!TypeOK
  <2>4. LoadInv'
    BY <1>1, <2>1, <2>2 DEF LoadInv
  <2>5. OrderInv'
    BY <2>1, OrderKept
  <2>6. QED
    BY <2>1, <2>3, <2>4, <2>5 DEF MuxInv, RestInv, Multiplexer!ConnectedIsWatched
<1>6. CASE Multiplexer!Imported
  <2>1. /\ loading # <<>> /\ imported' = TRUE /\ loading' = <<>>
        /\ socket' = [s \in Socket |-> IF socket[s] = "loading" THEN "opening" ELSE socket[s]]
        /\ ws' = loading[Len(loading)] /\ state' = state
        /\ UNCHANGED <<timeouts, attempts, aborted, timer, resets, limit, heartbeat, leaked,
                       attached, calls>>
        /\ UNCHANGED <<pending, sent, wire, early, rest>>
    BY <1>6 DEF Multiplexer!Imported
  <2>2. state # "connected"
    BY <1>1, <1>2, <2>1 DEF LoadInv
  <2>3. ws' \in Socket
    BY <1>2, <2>1
  <2>4. socket' \in [Socket -> {"gone", "loading", "opening", "open", "closing"}]
    BY <1>2, <2>1
  <2>5. loading' \in Seq(Socket)
    BY <2>1
  <2>6. Multiplexer!TypeOK'
    BY <1>1, <2>1, <2>3, <2>4, <2>5 DEF Multiplexer!TypeOK
  <2>7. OrderInv'
    BY <2>1, OrderKept
  <2>8. QED
    BY <2>1, <2>2, <2>6, <2>7 DEF MuxInv, RestInv, Multiplexer!ConnectedIsWatched, LoadInv
<1>7. CASE Multiplexer!TimerFires
  <2>1. /\ timer' = FALSE
        /\ UNCHANGED <<attempts, aborted, resets, limit, heartbeat, leaked, attached, calls>>
        /\ UNCHANGED <<pending, sent, wire, early, rest>>
        /\ \/ UNCHANGED <<state, ws, imported, loading, socket, timeouts>>
           \/ state # "connected" /\ Multiplexer!Connecting
    BY <1>7 DEF Multiplexer!TimerFires
  <2>2. CASE UNCHANGED <<state, ws, imported, loading, socket, timeouts>>
    <3>1. Multiplexer!TypeOK'
      BY <1>1, <2>1, <2>2 DEF Multiplexer!TypeOK
    <3>2. OrderInv'
      BY <2>1, <2>2, OrderKept
    <3>3. QED
      BY <1>1, <2>1, <2>2, <3>1, <3>2 DEF MuxInv, RestInv, Multiplexer!ConnectedIsWatched, LoadInv
  <2>3. CASE state # "connected" /\ Multiplexer!Connecting
    <3>1. /\ state' = "connecting" /\ imported' = imported /\ ws' = ws
          /\ timeouts' \subseteq Socket /\ loading' \in Seq(Socket)
          /\ socket' \in [Socket -> {"gone", "loading", "opening", "open", "closing"}]
          /\ LoadInv'
      BY <2>3, ConnectingStep
    <3>2. Multiplexer!TypeOK'
      BY <1>1, <2>1, <3>1 DEF Multiplexer!TypeOK
    <3>3. OrderInv'
      BY <2>1, <3>1, OrderKept
    <3>4. QED
      BY <3>1, <3>2, <3>3 DEF MuxInv, RestInv, Multiplexer!ConnectedIsWatched
  <2>4. QED
    BY <2>1, <2>2, <2>3
<1>8. CASE Multiplexer!ResetFires
  <2>1. /\ resets' \in 0..MaxResets /\ attempts' = 0 /\ aborted' = FALSE
        /\ UNCHANGED <<state, ws, timer, limit, imported, loading, socket, timeouts,
                       heartbeat, leaked, attached, calls>>
        /\ UNCHANGED <<pending, sent, wire, early, rest>>
    BY <1>3, <1>8 DEF Multiplexer!ResetFires
  <2>2. Multiplexer!TypeOK'
    BY <1>1, <2>1 DEF Multiplexer!TypeOK
  <2>3. OrderInv'
    BY <2>1, OrderKept
  <2>4. QED
    BY <1>1, <2>1, <2>2, <2>3 DEF MuxInv, RestInv, Multiplexer!ConnectedIsWatched, LoadInv
<1>9. CASE Multiplexer!HeartbeatFails
  <2>1. /\ ws # NoSocket /\ socket' = Multiplexer!Closing(ws)
        /\ UNCHANGED <<state, ws, attempts, aborted, timer, resets, limit, imported, loading,
                       timeouts, heartbeat, leaked, attached, calls>>
        /\ UNCHANGED <<pending, sent, wire, early, rest>>
    BY <1>9 DEF Multiplexer!HeartbeatFails
  <2>2. /\ socket' \in [Socket -> {"gone", "loading", "opening", "open", "closing"}]
        /\ \A s \in Socket :
             /\ socket[s] \in {"open", "closing"} => socket'[s] \in {"open", "closing"}
             /\ socket[s] \in {"gone", "loading"} => socket'[s] = socket[s]
    BY <1>2, <2>1, ClosingProperties
  <2>3. Multiplexer!TypeOK'
    BY <1>1, <2>1, <2>2 DEF Multiplexer!TypeOK
  <2>4. OrderInv'
    BY <2>1, OrderKept
  <2>5. Multiplexer!ConnectedIsWatched'
    BY <1>1, <1>2, <2>1, <2>2 DEF Multiplexer!ConnectedIsWatched
  <2>6. LoadInv'
    BY <1>1, <2>1, <2>2 DEF LoadInv
  <2>7. QED
    BY <1>1, <2>1, <2>3, <2>4, <2>5, <2>6 DEF MuxInv, RestInv
<1>10. CASE Multiplexer!Channel \/ UNCHANGED muxVars
  <2>1. /\ UNCHANGED <<state, ws, attempts, aborted, timer, resets, limit, imported, loading,
                       socket, timeouts, heartbeat, leaked, calls>>
        /\ UNCHANGED <<pending, sent, wire, early, rest>>
        /\ attached' \in BOOLEAN
    BY <1>1, <1>10 DEF Multiplexer!Channel, muxVars, Multiplexer!TypeOK
  <2>2. Multiplexer!TypeOK'
    BY <1>1, <2>1 DEF Multiplexer!TypeOK
  <2>3. OrderInv'
    BY <2>1, OrderKept
  <2>4. QED
    BY <1>1, <2>1, <2>2, <2>3 DEF MuxInv, RestInv, Multiplexer!ConnectedIsWatched, LoadInv
<1>11. CASE Multiplexer!Send \/ \E s \in Socket : Multiplexer!Receive(s)
  <2>1. /\ Multiplexer!SendRaw
        /\ UNCHANGED <<state, ws, attempts, aborted, timer, resets, limit, imported, loading,
                       socket, timeouts, heartbeat, leaked, attached, rest, calls>>
    BY <1>11 DEF Multiplexer!Send, Multiplexer!Receive
  <2>2. /\ sent' \in 0..MaxSend /\ pending' \in Seq(1..MaxSend) /\ Len(pending') <= MaxPending
        /\ wire' \in Seq(1..MaxSend) /\ early' \subseteq 1..MaxSend /\ OrderInv'
    BY <2>1, SendRawStep
  <2>3. Multiplexer!TypeOK'
    BY <1>1, <2>1, <2>2 DEF Multiplexer!TypeOK
  <2>4. QED
    BY <1>1, <2>1, <2>2, <2>3 DEF MuxInv, RestInv, Multiplexer!ConnectedIsWatched, LoadInv
<1>12. ASSUME NEW s \in Socket, Multiplexer!Opens(s) PROVE MuxInv'
  <2>1. /\ Multiplexer!Quiet /\ socket[s] = "opening" /\ socket' = [socket EXCEPT ![s] = "open"]
        /\ timeouts' = timeouts \ {s} /\ ws' = s /\ state' = "connected" /\ attempts' = 0
        /\ aborted' = FALSE /\ resets' \in 0..MaxResets /\ rest' = <<"open">>
        /\ UNCHANGED <<timer, limit, imported, loading, heartbeat, leaked, attached, calls>>
        /\ UNCHANGED <<pending, sent, wire, early>>
    BY <1>2, <1>3, <1>12 DEF Multiplexer!Opens
  <2>2. imported /\ loading = <<>>
    BY <1>1, <2>1 DEF LoadInv, Multiplexer!Quiet
  <2>3. socket' \in [Socket -> {"gone", "loading", "opening", "open", "closing"}]
        /\ socket'[s] = "open"
    BY <1>2, <2>1
  <2>4. rest' \in Seq({"open", "close", "disconnect"}) /\ rest' # <<>>
    BY <2>1
  <2>5. Multiplexer!TypeOK'
    BY <1>1, <2>1, <2>3, <2>4 DEF Multiplexer!TypeOK
  <2>6. OrderInv'
    BY <1>1, <2>1, <2>4 DEF OrderInv
  <2>7. LoadInv' /\ RestInv' /\ Multiplexer!ConnectedIsWatched'
    BY <1>1, <2>1, <2>2, <2>3, <2>4 DEF LoadInv, RestInv, Multiplexer!ConnectedIsWatched
  <2>8. QED
    BY <2>5, <2>6, <2>7 DEF MuxInv
<1>13. ASSUME NEW s \in Socket, Multiplexer!Closes(s) PROVE MuxInv'
  <2>1. /\ socket' = [socket EXCEPT ![s] = "gone"] /\ timeouts' = timeouts \ {s}
        /\ heartbeat' = FALSE /\ leaked' = leaked
        /\ state' = "disconnected" /\ rest' = <<"close">>
        /\ UNCHANGED <<ws, attempts, aborted, timer, resets, limit, imported, loading, attached,
                       calls>>
        /\ UNCHANGED <<pending, sent, wire, early>>
    BY <1>13 DEF Multiplexer!Closes, Multiplexer!StopHeartbeat
  <2>2. /\ socket' \in [Socket -> {"gone", "loading", "opening", "open", "closing"}]
        /\ rest' \in Seq({"open", "close", "disconnect"})
    BY <1>2, <2>1
  <2>3. Multiplexer!TypeOK'
    BY <1>1, <2>1, <2>2 DEF Multiplexer!TypeOK
  <2>4. OrderInv'
    BY <2>1, OrderKept
  <2>5. LoadInv'
    BY <1>1, <1>2, <2>1 DEF LoadInv
  <2>6. QED
    BY <2>1, <2>3, <2>4, <2>5 DEF MuxInv, RestInv, Multiplexer!ConnectedIsWatched
<1>14. ASSUME NEW s \in Socket, Multiplexer!ConnectTimeout(s) PROVE MuxInv'
  <2>1. /\ timeouts' = timeouts \ {s} /\ state' = "disconnected" /\ ws' = NoSocket
        /\ socket' = (IF ws = NoSocket THEN socket ELSE Multiplexer!Closing(ws))
        /\ UNCHANGED <<attempts, aborted, timer, resets, limit, imported, loading, heartbeat,
                       leaked, attached, calls>>
        /\ UNCHANGED <<pending, sent, wire, early, rest>>
    BY <1>14 DEF Multiplexer!ConnectTimeout
  <2>2. /\ socket' \in [Socket -> {"gone", "loading", "opening", "open", "closing"}]
        /\ \A t \in Socket : socket[t] \in {"gone", "loading"} => socket'[t] = socket[t]
    BY <1>2, <2>1, ClosingProperties
  <2>3. Multiplexer!TypeOK'
    BY <1>1, <2>1, <2>2 DEF Multiplexer!TypeOK
  <2>4. OrderInv'
    BY <2>1, OrderKept
  <2>5. LoadInv'
    BY <1>1, <2>1, <2>2 DEF LoadInv
  <2>6. QED
    BY <2>1, <2>3, <2>4, <2>5 DEF MuxInv, RestInv, Multiplexer!ConnectedIsWatched
<1>15. ASSUME rest # <<>>
       PROVE  /\ Tail(rest) \in Seq({"open", "close", "disconnect"})
              /\ state = "connected" => Head(rest) = "open" /\ Tail(rest) = <<>>
  <2>1. Tail(rest) \in Seq({"open", "close", "disconnect"})
    BY <1>2, <1>15
  <2>2. Head(<<"open">>) = "open" /\ Tail(<<"open">>) = <<>>
    OBVIOUS
  <2>3. state = "connected" => rest = <<"open">>
    BY <1>1, <1>15 DEF RestInv
  <2>4. QED
    BY <2>1, <2>2, <2>3
<1>16. CASE Multiplexer!Opened
  <2>1. /\ rest # <<>> /\ rest' = Tail(rest) /\ heartbeat' = TRUE /\ leaked' \in BOOLEAN
        /\ UNCHANGED <<state, ws, attempts, aborted, timer, resets, limit, imported, loading,
                       socket, timeouts, attached, sent, early, calls>>
    BY <1>1, <1>16
       DEF Multiplexer!Opened, Multiplexer!Returns, Multiplexer!Beating, Multiplexer!TypeOK
  <2>2. CASE pending' = pending /\ wire' = wire /\ state # "connected"
    <3>1. Multiplexer!TypeOK'
      BY <1>1, <1>15, <2>1, <2>2 DEF Multiplexer!TypeOK
    <3>2. OrderInv'
      BY <2>1, <2>2, OrderKept
    <3>3. QED
      BY <1>1, <2>1, <2>2, <3>1, <3>2
         DEF MuxInv, RestInv, Multiplexer!ConnectedIsWatched, LoadInv
  <2>3. CASE pending' = <<>> /\ wire' \in {wire, wire \o pending} /\ state = "connected"
    <3>1. wire' \in Seq(1..MaxSend) /\ pending' \in Seq(1..MaxSend) /\ Len(pending') <= MaxPending
      <4>1. wire \o pending \in Seq(1..MaxSend)
        BY <1>2, JoinedProperties
      <4>2. pending' \in Seq(1..MaxSend) /\ Len(pending') <= MaxPending
        BY <2>3
      <4>3. QED
        BY <1>2, <2>3, <4>1, <4>2
    <3>2. Multiplexer!TypeOK'
      BY <1>1, <1>15, <2>1, <3>1 DEF Multiplexer!TypeOK
    <3>3. (wire \o pending)' = wire'
      BY <2>3, <3>1, JoinedProperties
    <3>4. Ordered(wire', early) /\ \A i \in DOMAIN wire' : wire'[i] <= sent
      <4>1. /\ Ordered(wire \o pending, early)
            /\ \A i \in DOMAIN (wire \o pending) : (wire \o pending)[i] <= sent
        BY <1>1 DEF OrderInv
      <4>2. CASE wire' = wire
        <5>1. /\ Ordered(wire, early)
              /\ \A i \in DOMAIN wire :
                   i \in DOMAIN (wire \o pending) /\ (wire \o pending)[i] = wire[i]
          BY <1>2, <4>1, OrderedPart
        <5>2. QED
          BY <4>1, <4>2, <5>1
      <4>3. CASE wire' = wire \o pending
        BY <4>1, <4>3
      <4>4. QED
        BY <2>3, <4>2, <4>3
    <3>5. OrderInv'
      BY <2>1, <2>3, <3>3, <3>4 DEF OrderInv
    <3>6. QED
      BY <1>1, <1>15, <2>1, <2>3, <3>2, <3>5
         DEF MuxInv, RestInv, Multiplexer!ConnectedIsWatched, LoadInv
  <2>4. QED
    BY <1>1, <1>16, <2>2, <2>3
       DEF Multiplexer!Opened, Multiplexer!Offline, Multiplexer!ConnectedIsWatched
<1>17. CASE Multiplexer!Closed \/ Multiplexer!Disconnected
  <2>1. /\ rest # <<>> /\ Head(rest) # "open" /\ rest' = Tail(rest)
        /\ state' \in {state, "reconnecting"}
        /\ timer' \in BOOLEAN /\ attempts' \in Nat /\ attached' \in BOOLEAN
        /\ UNCHANGED <<ws, aborted, resets, limit, imported, loading, socket, timeouts,
                       heartbeat, leaked, calls>>
        /\ UNCHANGED <<pending, sent, wire, early>>
    <3>1. attempts \in Nat /\ attempts + 1 \in Nat /\ timer \in BOOLEAN /\ attached \in BOOLEAN
      BY <1>1 DEF Multiplexer!TypeOK
    <3>2. CASE Multiplexer!Closed
      <4>1. state' \in {state, "reconnecting"} /\ timer' \in {timer, TRUE, FALSE}
            /\ attempts' \in {attempts, attempts + 1}
        BY <3>2 DEF Multiplexer!Closed, Multiplexer!ScheduleReconnect
      <4>2. QED
        BY <3>1, <3>2, <4>1 DEF Multiplexer!Closed, Multiplexer!Returns
    <3>3. CASE Multiplexer!Disconnected
      BY <3>1, <3>3 DEF Multiplexer!Disconnected, Multiplexer!Returns
    <3>4. QED
      BY <1>17, <3>2, <3>3
  <2>2. state # "connected" /\ state' # "connected"
    BY <1>15, <2>1
  <2>3. Multiplexer!TypeOK'
    BY <1>1, <1>15, <2>1 DEF Multiplexer!TypeOK
  <2>4. OrderInv'
    BY <2>1, <2>2, OrderKept
  <2>5. QED
    BY <1>1, <2>1, <2>2, <2>3, <2>4
       DEF MuxInv, RestInv, Multiplexer!ConnectedIsWatched, LoadInv
<1>18. QED
  BY <1>4, <1>5, <1>6, <1>7, <1>8, <1>9, <1>10, <1>11, <1>12, <1>13, <1>14, <1>16, <1>17
     DEF Multiplexer!Next, Multiplexer!Resumes

LEMMA MuxInvariance == Spec => []MuxInv
<1>1. MuxInv /\ [Next]_vars => MuxInv'
  BY StepOfEach, MuxStep
<1>2. QED
  BY <1>1, MuxInitially, PTL DEF Spec

\* ConnectionWatched: while the connection says that it is connected, it has the socket
\* that was opened last and, once the listeners of 'connected' have returned, a heartbeat,
\* whatever the sockets and timers of earlier attempts still do (multiplexer.ts:76-89,
\* 208-246).
THEOREM ConnectionIsWatched == Spec => []ConnectionWatched
<1>1. MuxInv => ConnectionWatched
  BY DEF MuxInv, ConnectionWatched
<1>2. QED
  BY <1>1, MuxInvariance, PTL

\* SentInOrder: over all connections the messages leave in the order in which they were
\* sent, except those that a listener of 'connected' sends before the flush; and none waits
\* on a connection whose listeners have returned (multiplexer.ts:214-217, 333-363).
THEOREM MessagesLeaveInOrder == Spec => []SentInOrder
<1>1. MuxInv => SentInOrder
  BY DEF MuxInv, OrderInv, Ordered, SentInOrder, Multiplexer!SentInOrder
<1>2. QED
  BY <1>1, MuxInvariance, PTL

-----------------------------------------------------------------------------
(* McpConnections *)

Status == {"none", "waiting", "answered", "failed"}
RequestRecord ==
  [kind : {"list", "call"}, entry : Entry \cup {NoEntry}, id : 0..MaxRequests,
   proc : Proc \cup {NoProc}, by : Proc \cup {NoProc}, status : Status]

\* What is reported as connected was added to the pool.
PoolInv ==
  /\ entry \in made \cup {NoEntry} /\ made \subseteq Entry
  /\ connected \in [Entry -> BOOLEAN] /\ health \in [Entry -> BOOLEAN]
  /\ sleeping \in [Entry -> BOOLEAN]
  /\ reconnects \in [Entry -> 0..MaxReconnects]
  /\ \A e \in Entry : connected[e] => e \in made

\* The process of a transport is one that it spawned, and every process that was spawned
\* has its transport.
StdioInv ==
  /\ open \in [Entry -> BOOLEAN]
  /\ process \in [Entry -> Proc \cup {NoProc}]
  /\ proc \in [Proc -> {"none", "running", "killed", "gone"}]
  /\ transport \in [Proc -> Entry \cup {NoEntry}]
  /\ heard \subseteq {p \in Proc : proc[p] = "running"}
  /\ \A e \in Entry :
       /\ process[e] # NoProc => transport[process[e]] = e /\ proc[process[e]] # "none"
       /\ open[e] => process[e] # NoProc
  /\ \A p \in Proc : proc[p] # "none" => transport[p] \in Entry

AmountSent == Servers!Cardinality(Servers!Sent)

\* Requests are sent one after the other, each to a process of its transport and with an
\* id that no other request of the transport has; the answer is that of the process.
RequestInv ==
  /\ lastId \in [Entry -> 0..AmountSent]
  /\ request \in [Servers!Requests -> RequestRecord]
  /\ AmountSent \in 0..MaxRequests /\ Servers!Sent = 1..AmountSent
  /\ \A r \in Servers!Sent :
       /\ request[r].entry \in Entry /\ request[r].proc \in Proc
       /\ transport[request[r].proc] = request[r].entry /\ proc[request[r].proc] # "none"
       /\ request[r].id <= lastId[request[r].entry]
       /\ request[r].status = "answered" => request[r].by = request[r].proc
  /\ \A r, s \in Servers!Sent :
       request[r].entry = request[s].entry /\ request[r].id = request[s].id => r = s

ServersInv == PoolInv /\ StdioInv /\ RequestInv /\ Servers!ConnectedIsWatched

LEMMA ServersCount ==
  ASSUME NEW n \in Nat, NEW S, S = 1..n
  PROVE  Servers!Cardinality(S) = n
<1>1. Cardinality(1..n) = n
  BY FS_Interval
<1>2. QED
  BY <1>1 DEF Servers!Cardinality, Cardinality

LEMMA ServersHold ==
  ServersInv => Servers!TypeOK /\ Servers!AnsweredByItsProcess
<1> SUFFICES ASSUME ServersInv PROVE Servers!TypeOK /\ Servers!AnsweredByItsProcess
  OBVIOUS
<1>1. lastId \in [Entry -> 0..MaxRequests]
  <2>1. \A n \in 0..AmountSent : n \in 0..MaxRequests
    BY ServersBounds DEF ServersInv, RequestInv
  <2>2. QED
    BY <2>1 DEF ServersInv, RequestInv
<1>2. Servers!TypeOK
  BY <1>1 DEF ServersInv, PoolInv, StdioInv, RequestInv, RequestRecord, Status, Servers!TypeOK
<1>3. QED
  BY <1>2 DEF ServersInv, RequestInv, Servers!AnsweredByItsProcess

\* A process that was spawned stays what it is to its transport.
SpawnedStay ==
  \A p \in Proc : proc[p] # "none" => proc'[p] # "none" /\ transport'[p] = transport[p]

LEMMA DisconnectedStep ==
  ASSUME StdioInv, NEW e \in Entry, Servers!Disconnected(e)
  PROVE  StdioInv' /\ SpawnedStay
<1>1. /\ open' = [open EXCEPT ![e] = FALSE] /\ heard' = heard \ {process[e]}
      /\ proc' = (IF process[e] = NoProc THEN proc ELSE [proc EXCEPT ![process[e]] = "killed"])
      /\ process' = [process EXCEPT ![e] = NoProc] /\ transport' = transport
  BY DEF Servers!Disconnected, Servers!Killed
<1>2. proc' \in [Proc -> {"none", "running", "killed", "gone"}]
      /\ \A p \in Proc : /\ p # process[e] => proc'[p] = proc[p]
                         /\ p = process[e] => proc'[p] = "killed" /\ proc[p] # "none"
  BY <1>1, ServersBounds DEF StdioInv
<1>3. \A p \in Proc : proc'[p] # "none" <=> proc[p] # "none"
  BY <1>2
<1>4. heard' \subseteq {p \in Proc : proc'[p] = "running"}
  BY <1>1, <1>2 DEF StdioInv
<1>5. process' \in [Entry -> Proc \cup {NoProc}] /\ process'[e] = NoProc
      /\ \A d \in Entry : d # e => process'[d] = process[d]
  BY <1>1 DEF StdioInv
<1>6. open' \in [Entry -> BOOLEAN] /\ ~open'[e] /\ \A d \in Entry : d # e => open'[d] = open[d]
  BY <1>1 DEF StdioInv
<1>7. \A d \in Entry : process'[d] # NoProc =>
        transport'[process'[d]] = d /\ proc'[process'[d]] # "none"
  BY <1>1, <1>3, <1>5 DEF StdioInv
<1>8. QED
  BY <1>1, <1>2, <1>3, <1>4, <1>5, <1>6, <1>7 DEF StdioInv, SpawnedStay

LEMMA RequestsKept ==
  ASSUME RequestInv, SpawnedStay, UNCHANGED <<request, lastId>>
  PROVE  RequestInv'
<1>1. Servers!Sent' = Servers!Sent
  BY DEF Servers!Sent, Servers!Requests
<1>2. AmountSent' = AmountSent
  BY <1>1 DEF AmountSent
<1>3. QED
  BY <1>1, <1>2 DEF RequestInv, SpawnedStay, Servers!Requests, RequestRecord, Status

\* Requests that wait are answered by the process they were written to, or fail.
LEMMA SettledStep ==
  ASSUME RequestInv, SpawnedStay, UNCHANGED lastId,
         request' \in [Servers!Requests -> RequestRecord],
         \A r \in Servers!Requests :
           \/ request'[r] = request[r]
           \/ /\ request[r].status = "waiting" /\ request'[r].status \in {"answered", "failed"}
              /\ request'[r].entry = request[r].entry /\ request'[r].proc = request[r].proc
              /\ request'[r].id = request[r].id
              /\ request'[r].status = "answered" => request'[r].by = request[r].proc
  PROVE  RequestInv'
<1>1. \A r \in Servers!Requests : request'[r].status = "none" <=> request[r].status = "none"
  OBVIOUS
<1>2. Servers!Sent' = Servers!Sent
  BY <1>1 DEF Servers!Sent, Servers!Requests
<1>3. AmountSent' = AmountSent
  BY <1>2 DEF AmountSent
<1>4. \A r \in Servers!Sent : r \in Servers!Requests
  BY DEF Servers!Sent
<1>5. \A r \in Servers!Sent :
        /\ request'[r].entry = request[r].entry /\ request'[r].proc = request[r].proc
        /\ request'[r].id = request[r].id
        /\ request'[r].status = "answered" => request'[r].by = request'[r].proc
  BY <1>4 DEF RequestInv
<1>6. \A r \in Servers!Sent :
        /\ request'[r].entry \in Entry /\ request'[r].proc \in Proc
        /\ transport'[request'[r].proc] = request'[r].entry /\ proc'[request'[r].proc] # "none"
        /\ request'[r].id <= lastId'[request'[r].entry]
  BY <1>5 DEF RequestInv, SpawnedStay
<1>7. QED
  BY <1>2, <1>3, <1>5, <1>6 DEF RequestInv, Servers!Requests, RequestRecord, Status

LEMMA FailedStep ==
  ASSUME PoolInv, RequestInv, SpawnedStay, UNCHANGED lastId, NEW rs \in SUBSET Servers!Requests,
         \A r \in rs : request[r].status = "waiting", Servers!Failed(rs)
  PROVE  /\ RequestInv' /\ connected' \in [Entry -> BOOLEAN]
         /\ \A e \in Entry : connected'[e] =>
              connected[e] /\ \A r \in rs : ~ (request[r].kind = "list" /\ request[r].entry = e)
         /\ \A r \in Servers!Requests : r \notin rs => request'[r] = request[r]
<1>1. /\ request' = [r \in Servers!Requests |->
             IF r \in rs THEN [request[r] EXCEPT !.status = "failed"] ELSE request[r]]
      /\ connected' = [e \in Entry |->
           connected[e] /\ ~ \E r \in rs : request[r].kind = "list" /\ request[r].entry = e]
  BY DEF Servers!Failed
<1>2. connected \in [Entry -> BOOLEAN]
  BY DEF PoolInv
<1>3. /\ connected' \in [Entry -> BOOLEAN]
      /\ \A e \in Entry : connected'[e] =>
           connected[e] /\ \A r \in rs : ~ (request[r].kind = "list" /\ request[r].entry = e)
  BY <1>1, <1>2, Zenon
<1>4. \A r \in Servers!Requests : request[r] \in RequestRecord
  BY DEF RequestInv
<1>5. \A x \in RequestRecord :
        /\ [x EXCEPT !.status = "failed"] \in RequestRecord
        /\ [x EXCEPT !.status = "failed"].status = "failed"
        /\ [x EXCEPT !.status = "failed"].entry = x.entry
        /\ [x EXCEPT !.status = "failed"].proc = x.proc
        /\ [x EXCEPT !.status = "failed"].id = x.id
  BY DEF RequestRecord, Status
<1>6. ASSUME NEW r \in Servers!Requests
      PROVE  /\ request'[r] = IF r \in rs THEN [request[r] EXCEPT !.status = "failed"]
                                          ELSE request[r]
             /\ request'[r] \in RequestRecord
  BY <1>1, <1>4, <1>5
<1>7. request' \in [Servers!Requests -> RequestRecord]
  BY <1>1, <1>6
<1>8. ASSUME NEW r \in Servers!Requests, r \in rs
      PROVE  /\ request[r].status = "waiting" /\ request'[r].status = "failed"
             /\ request'[r].entry = request[r].entry /\ request'[r].proc = request[r].proc
             /\ request'[r].id = request[r].id
  <2>1. request'[r] = [request[r] EXCEPT !.status = "failed"]
    BY <1>6, <1>8
  <2>2. request[r].status = "waiting"
    BY <1>8
  <2>3. /\ [request[r] EXCEPT !.status = "failed"].status = "failed"
        /\ [request[r] EXCEPT !.status = "failed"].entry = request[r].entry
        /\ [request[r] EXCEPT !.status = "failed"].proc = request[r].proc
        /\ [request[r] EXCEPT !.status = "failed"].id = request[r].id
    BY <1>4, <1>5
  <2>4. QED
    BY <2>1, <2>2, <2>3
<1>9. RequestInv'
  BY <1>6, <1>7, <1>8, SettledStep
<1>10. QED
  BY <1>3, <1>6, <1>9

\* A request is sent by the transport e to its process p.
LEMMA SendsStep ==
  ASSUME RequestInv, SpawnedStay, NEW e \in Entry, NEW p \in Proc, NEW kind \in {"list", "call"},
         Servers!Sends(e, p, kind), transport'[p] = e, proc'[p] # "none"
  PROVE  /\ RequestInv'
         /\ AmountSent + 1 \in Servers!Requests
         /\ request'[AmountSent + 1].kind = kind /\ request'[AmountSent + 1].entry = e
         /\ request'[AmountSent + 1].status = "waiting"
         /\ \A r \in Servers!Sent : request'[r] = request[r]
<1> USE ServersBounds
<1> DEFINE new == AmountSent + 1
           record == [kind |-> kind, entry |-> e, id |-> lastId[e] + 1, proc |-> p,
                      by |-> NoProc, status |-> "waiting"]
<1>1. /\ AmountSent < MaxRequests
      /\ request' = [request EXCEPT ![new] = record]
      /\ lastId' = [lastId EXCEPT ![e] = @ + 1]
  BY DEF Servers!Sends, Servers!NextId, AmountSent
<1>2. /\ AmountSent \in Nat /\ Servers!Sent = 1..AmountSent
      /\ lastId \in [Entry -> 0..AmountSent]
      /\ request \in [Servers!Requests -> RequestRecord]
  BY DEF RequestInv
<1>3. new \in Servers!Requests /\ new \in 0..MaxRequests /\ new \in Nat /\ new \notin 1..AmountSent
      /\ 1..new = (1..AmountSent) \cup {new}
      /\ \A n \in 0..AmountSent : n \in 0..new /\ n + 1 \in 0..new /\ n + 1 \in 0..MaxRequests
  BY <1>1, <1>2 DEF Servers!Requests
<1>4. \A d \in Entry : lastId[d] \in 0..AmountSent
  BY <1>2
<1> HIDE DEF new
<1>5. record \in RequestRecord
  BY <1>3, <1>4 DEF RequestRecord, Status
<1>6. record.kind = kind /\ record.entry = e /\ record.id = lastId[e] + 1 /\ record.proc = p
      /\ record.status = "waiting"
  OBVIOUS
<1> HIDE DEF record
<1>7. /\ request' \in [Servers!Requests -> RequestRecord] /\ request'[new] = record
      /\ \A r \in Servers!Requests : r # new => request'[r] = request[r]
  BY <1>1, <1>2, <1>3, <1>5
<1>8. \A r \in Servers!Sent : r \in Servers!Requests /\ r # new /\ request'[r] = request[r]
  BY <1>2, <1>3, <1>7 DEF Servers!Sent
<1>9. Servers!Sent' = Servers!Sent \cup {new}
  <2>1. Servers!Sent' = {r \in Servers!Requests : request'[r].status # "none"}
    BY DEF Servers!Sent, Servers!Requests
  <2>2. request'[new].status # "none"
    BY <1>6, <1>7
  <2>3. QED
    BY <1>3, <1>7, <1>8, <2>1, <2>2 DEF Servers!Sent
<1>10. Servers!Sent' = 1..new
  BY <1>2, <1>3, <1>9
<1>11. AmountSent' = new
  BY <1>3, <1>10, ServersCount DEF AmountSent
<1>12. /\ lastId'[e] = lastId[e] + 1
       /\ \A d \in Entry : d # e => lastId'[d] = lastId[d]
       /\ lastId' \in [Entry -> 0..new]
  <2>1. lastId[e] + 1 \in 0..new /\ \A d \in Entry : lastId[d] \in 0..new
    BY <1>3, <1>4
  <2>2. QED
    BY <1>1, <1>2, <2>1
<1>13. \A d \in Entry : lastId[d] \in Nat /\ lastId[d] <= lastId'[d]
  <2>1. \A d \in Entry : lastId[d] \in Nat
    BY <1>4, <1>2
  <2>2. QED
    BY <1>12, <2>1
<1>14. ASSUME NEW r \in Servers!Sent
       PROVE  /\ request[r].entry \in Entry /\ request[r].proc \in Proc
              /\ transport'[request[r].proc] = request[r].entry
              /\ proc'[request[r].proc] # "none"
              /\ request[r].id \in Nat /\ request[r].id <= lastId[request[r].entry]
              /\ request[r].id <= lastId'[request[r].entry]
              /\ request[r].status = "answered" => request[r].by = request[r].proc
  <2>1. /\ request[r].entry \in Entry /\ request[r].proc \in Proc
        /\ transport[request[r].proc] = request[r].entry /\ proc[request[r].proc] # "none"
        /\ request[r].id <= lastId[request[r].entry]
        /\ request[r].status = "answered" => request[r].by = request[r].proc
    BY DEF RequestInv
  <2>2. request[r].id \in Nat
    <3>1. request[r] \in RequestRecord
      BY <1>2, <1>8
    <3>2. QED
      BY <3>1 DEF RequestRecord
  <2>3. request[r].id <= lastId'[request[r].entry]
    <3>1. \A d \in Entry : lastId'[d] \in Nat
      BY <1>3, <1>12
    <3>2. QED
      BY <1>13, <2>1, <2>2, <3>1
  <2>4. QED
    BY <2>1, <2>2, <2>3 DEF SpawnedStay
<1>15. ASSUME NEW r \in Servers!Sent'
       PROVE  /\ request'[r].entry \in Entry /\ request'[r].proc \in Proc
              /\ transport'[request'[r].proc] = request'[r].entry
              /\ proc'[request'[r].proc] # "none"
              /\ request'[r].id <= lastId'[request'[r].entry]
              /\ request'[r].status = "answered" => request'[r].by = request'[r].proc
  <2>1. CASE r \in Servers!Sent
    BY <1>8, <1>14, <2>1
  <2>2. CASE r = new
    <3>1. lastId'[e] <= lastId'[e]
      BY <1>3, <1>12
    <3>2. QED
      BY <1>6, <1>7, <1>12, <2>2, <3>1
  <2>3. QED
    BY <1>9, <2>1, <2>2
<1>16. ASSUME NEW r \in Servers!Sent, request[r].entry = e PROVE request[r].id # lastId[e] + 1
  BY <1>13, <1>14, <1>16
<1>17. ASSUME NEW r \in Servers!Sent', NEW s \in Servers!Sent',
              request'[r].entry = request'[s].entry, request'[r].id = request'[s].id
       PROVE  r = s
  <2>1. CASE r \in Servers!Sent /\ s \in Servers!Sent
    BY <1>8, <1>17, <2>1 DEF RequestInv
  <2>2. CASE r \in Servers!Sent /\ s = new
    BY <1>6, <1>7, <1>8, <1>16, <1>17, <2>2
  <2>3. CASE r = new /\ s \in Servers!Sent
    BY <1>6, <1>7, <1>8, <1>16, <1>17, <2>3
  <2>4. QED
    BY <1>9, <2>1, <2>2, <2>3
<1>18. RequestInv'
  BY <1>3, <1>7, <1>10, <1>11, <1>12, <1>15, <1>17
     DEF RequestInv, Servers!Requests, RequestRecord, Status
<1>19. QED
  BY <1>3, <1>6, <1>7, <1>8, <1>18 DEF new

\* The report of the entry stays true while its health check runs, or its list request
\* still waits.
LEMMA WatchedKept ==
  ASSUME Servers!ConnectedIsWatched, entry' = entry, entry # NoEntry,
         connected'[entry] => connected[entry],
         connected'[entry] /\ health[entry] => health'[entry],
         \A r \in Servers!Requests :
           connected'[entry] /\ request[r].status = "waiting" /\ request[r].kind = "list"
           /\ request[r].entry = entry => request'[r] = request[r] \/ health'[entry]
  PROVE  Servers!ConnectedIsWatched'
<1>1. ASSUME connected'[entry], ~health'[entry]
      PROVE  \E r \in Servers!Requests :
               /\ request'[r].status = "waiting" /\ request'[r].entry = entry
               /\ request'[r].kind = "list"
  BY <1>1 DEF Servers!ConnectedIsWatched, Servers!Waiting
<1>2. QED
  BY <1>1 DEF Servers!ConnectedIsWatched, Servers!Waiting, Servers!Requests

\* connect() of the entry of the name: a new process, and its list request.
LEMMA ConnectsStep ==
  ASSUME ServersInv, Servers!Connects
  PROVE  /\ entry \in Entry /\ StdioInv' /\ RequestInv'
         /\ connected' = [connected EXCEPT ![entry] = TRUE]
         /\ reconnects' = [reconnects EXCEPT ![entry] = 0]
         /\ \E r \in Servers!Requests :
              request'[r].status = "waiting" /\ request'[r].entry = entry /\ request'[r].kind = "list"
<1> USE ServersBounds
<1>1. PICK p \in Proc :
        /\ entry # NoEntry /\ proc[p] = "none"
        /\ proc' = [proc EXCEPT ![p] = "running"]
        /\ transport' = [transport EXCEPT ![p] = entry]
        /\ process' = [process EXCEPT ![entry] = p]
        /\ heard' = heard \cup {p}
        /\ open' = [open EXCEPT ![entry] = TRUE]
        /\ connected' = [connected EXCEPT ![entry] = TRUE]
        /\ reconnects' = [reconnects EXCEPT ![entry] = 0]
        /\ Servers!Sends(entry, p, "list")
  BY DEF Servers!Connects
<1>2. entry \in Entry /\ PoolInv /\ StdioInv /\ RequestInv
  BY <1>1 DEF ServersInv, PoolInv
<1>3. /\ proc'[p] = "running" /\ transport'[p] = entry
      /\ \A q \in Proc : q # p => proc'[q] = proc[q] /\ transport'[q] = transport[q]
      /\ proc' \in [Proc -> {"none", "running", "killed", "gone"}]
      /\ transport' \in [Proc -> Entry \cup {NoEntry}]
  BY <1>1, <1>2 DEF StdioInv
<1>4. SpawnedStay
  BY <1>1, <1>3 DEF SpawnedStay
<1>5. /\ process'[entry] = p /\ \A e \in Entry : e # entry => process'[e] = process[e]
      /\ process' \in [Entry -> Proc \cup {NoProc}]
  BY <1>1, <1>2 DEF StdioInv
<1>6. open' \in [Entry -> BOOLEAN] /\ \A e \in Entry : e # entry => open'[e] = open[e]
  BY <1>1, <1>2 DEF StdioInv
<1>7. heard' \subseteq {q \in Proc : proc'[q] = "running"}
  BY <1>1, <1>2, <1>3 DEF StdioInv
<1>8. \A e \in Entry : /\ process'[e] # NoProc =>
                            transport'[process'[e]] = e /\ proc'[process'[e]] # "none"
                       /\ open'[e] => process'[e] # NoProc
  <2> SUFFICES ASSUME NEW e \in Entry
               PROVE  /\ process'[e] # NoProc =>
                            transport'[process'[e]] = e /\ proc'[process'[e]] # "none"
                      /\ open'[e] => process'[e] # NoProc
    OBVIOUS
  <2>1. CASE e = entry
    BY <1>3, <1>5, <2>1
  <2>2. CASE e # entry
    <3>1. process'[e] = process[e] /\ open'[e] = open[e]
          /\ process[e] \in Proc \cup {NoProc}
      BY <1>2, <1>5, <1>6, <2>2 DEF StdioInv
    <3>2. QED
      BY <1>2, <1>4, <3>1 DEF StdioInv, SpawnedStay
  <2>3. QED
    BY <2>1, <2>2
<1>9. \A q \in Proc : proc'[q] # "none" => transport'[q] \in Entry
  BY <1>2, <1>3 DEF StdioInv
<1>10. StdioInv'
  BY <1>3, <1>5, <1>6, <1>7, <1>8, <1>9 DEF StdioInv
<1>11. /\ RequestInv' /\ AmountSent + 1 \in Servers!Requests
       /\ request'[AmountSent + 1].kind = "list" /\ request'[AmountSent + 1].entry = entry
       /\ request'[AmountSent + 1].status = "waiting"
  BY <1>1, <1>2, <1>3, <1>4, SendsStep
<1>12. QED
  BY <1>1, <1>2, <1>10, <1>11

LEMMA ServersInitially == Init => ServersInv
<1> SUFFICES ASSUME Init PROVE ServersInv
  OBVIOUS
<1> USE ServersBounds
<1>1. Servers!Init
  BY DEF Init
<1>2. Servers!Sent = {}
  BY <1>1 DEF Servers!Init, Servers!Sent
<1>3. Servers!Sent = 1..0
  BY <1>2
<1>4. AmountSent = 0
  BY <1>3, ServersCount DEF AmountSent
<1>5. PoolInv
  BY <1>1 DEF Servers!Init, PoolInv
<1>6. StdioInv
  BY <1>1 DEF Servers!Init, StdioInv
<1>7. RequestInv
  <2>1. request \in [Servers!Requests -> RequestRecord]
    BY <1>1 DEF Servers!Init, RequestRecord, Status
  <2>2. QED
    BY <1>1, <1>2, <1>3, <1>4, <2>1 DEF Servers!Init, RequestInv
<1>8. Servers!ConnectedIsWatched
  BY <1>1 DEF Servers!Init, Servers!ConnectedIsWatched
<1>9. QED
  BY <1>5, <1>6, <1>7, <1>8 DEF ServersInv

\* A line is read: the request it answers is the one that was written to the process.
LEMMA LineStep ==
  ASSUME ServersInv, NEW p \in Proc, NEW asked \in Servers!Requests, Servers!Line(p, asked)
  PROVE  ServersInv'
<1>1. PICK r \in Servers!Waiting(transport[p]) :
        /\ request[r].id = request[asked].id
        /\ \/ Servers!Answered(r, p) /\ UNCHANGED connected
           \/ Servers!Failed({r}) /\ UNCHANGED health
  BY DEF Servers!Line
<1>2. /\ asked \in Servers!Sent /\ request[asked].proc = p
      /\ UNCHANGED <<entry, made, reconnects, sleeping, open, process, proc, transport, heard,
                     lastId>>
  BY DEF Servers!Line, Servers!pool, Servers!stdio
<1>3. PoolInv /\ StdioInv /\ RequestInv /\ Servers!ConnectedIsWatched
  BY DEF ServersInv
<1>4. /\ r \in Servers!Requests /\ request[r].status = "waiting"
      /\ request[r].entry = transport[p] /\ r \in Servers!Sent
  BY <1>1 DEF Servers!Waiting, Servers!Sent
<1>5. transport[p] = request[asked].entry
  BY <1>2, <1>3 DEF RequestInv
<1>6. r = asked
  BY <1>1, <1>2, <1>3, <1>4, <1>5 DEF RequestInv
<1>7. request[r].proc = p /\ request[r].entry \in Entry
  BY <1>2, <1>3, <1>4, <1>6 DEF RequestInv
<1>8. StdioInv' /\ SpawnedStay
  BY <1>2, <1>3 DEF StdioInv, SpawnedStay
<1>9. CASE Servers!Answered(r, p) /\ UNCHANGED connected
  <2> DEFINE answer == [[request[r] EXCEPT !.status = "answered"] EXCEPT !.by = p]
  <2>1. request \in [Servers!Requests -> RequestRecord] /\ request[r] \in RequestRecord
    BY <1>3, <1>4 DEF RequestInv
  <2>2. /\ answer \in RequestRecord /\ answer.status = "answered" /\ answer.by = p
        /\ answer.entry = request[r].entry /\ answer.proc = request[r].proc
        /\ answer.id = request[r].id
    BY <2>1 DEF RequestRecord, Status
  <2>3. request' = [request EXCEPT ![r] = answer]
    BY <1>4, <1>9, <2>1 DEF Servers!Answered, RequestRecord
  <2> HIDE DEF answer
  <2>4. /\ request'[r] = answer /\ request' \in [Servers!Requests -> RequestRecord]
        /\ \A s \in Servers!Requests : s # r => request'[s] = request[s]
    BY <1>4, <2>1, <2>2, <2>3
  <2>5. RequestInv'
    BY <1>2, <1>3, <1>4, <1>7, <1>8, <2>2, <2>4, SettledStep
  <2>6. /\ health' \in [Entry -> BOOLEAN]
        /\ \A e \in Entry : health[e] => health'[e]
        /\ request[r].kind = "list" => health'[request[r].entry]
    BY <1>3, <1>7, <1>9 DEF Servers!Answered, PoolInv
  <2>7. PoolInv'
    BY <1>2, <1>3, <1>9, <2>6 DEF PoolInv
  <2>8. Servers!ConnectedIsWatched'
    <3>1. CASE entry = NoEntry
      BY <1>2, <3>1 DEF Servers!ConnectedIsWatched
    <3>2. CASE entry # NoEntry
      <4>1. entry \in Entry
        BY <1>3, <3>2 DEF PoolInv
      <4>2. \A s \in Servers!Requests :
              connected'[entry] /\ request[s].status = "waiting" /\ request[s].kind = "list"
              /\ request[s].entry = entry => request'[s] = request[s] \/ health'[entry]
        BY <2>4, <2>6
      <4>3. QED
        BY <1>2, <1>3, <1>9, <2>6, <3>2, <4>1, <4>2, WatchedKept
    <3>3. QED
      BY <3>1, <3>2
  <2>9. QED
    BY <1>8, <2>5, <2>7, <2>8 DEF ServersInv
<1>10. CASE Servers!Failed({r}) /\ UNCHANGED health
  <2>1. /\ RequestInv' /\ connected' \in [Entry -> BOOLEAN]
        /\ \A e \in Entry : connected'[e] =>
             connected[e] /\ ~ (request[r].kind = "list" /\ request[r].entry = e)
        /\ \A s \in Servers!Requests : s \notin {r} => request'[s] = request[s]
    <3>1. {r} \in SUBSET Servers!Requests /\ \A s \in {r} : request[s].status = "waiting"
      BY <1>4
    <3>2. QED
      BY <1>2, <1>3, <1>8, <1>10, <3>1, FailedStep
  <2>2. PoolInv'
    BY <1>2, <1>3, <1>10, <2>1 DEF PoolInv
  <2>3. Servers!ConnectedIsWatched'
    <3>1. CASE entry = NoEntry
      BY <1>2, <3>1 DEF Servers!ConnectedIsWatched
    <3>2. CASE entry # NoEntry
      <4>1. entry \in Entry
        BY <1>3, <3>2 DEF PoolInv
      <4>2. \A s \in Servers!Requests :
              connected'[entry] /\ request[s].status = "waiting" /\ request[s].kind = "list"
              /\ request[s].entry = entry => request'[s] = request[s] \/ health'[entry]
        BY <2>1, <4>1
      <4>3. QED
        BY <1>2, <1>3, <1>10, <2>1, <3>2, <4>1, <4>2, WatchedKept
    <3>3. QED
      BY <3>1, <3>2
  <2>4. QED
    BY <1>8, <2>1, <2>2, <2>3 DEF ServersInv
<1>11. QED
  BY <1>1, <1>9, <1>10

\* Requests fail, and take back what connect() has reported.
LEMMA RequestsFailStep ==
  ASSUME ServersInv, StdioInv', SpawnedStay, NEW rs \in SUBSET Servers!Requests,
         \A r \in rs : request[r].status = "waiting", Servers!Failed(rs),
         UNCHANGED <<entry, made, health, reconnects, sleeping, lastId>>
  PROVE  ServersInv'
<1>1. PoolInv /\ RequestInv /\ Servers!ConnectedIsWatched
  BY DEF ServersInv
<1>2. /\ RequestInv' /\ connected' \in [Entry -> BOOLEAN]
      /\ \A e \in Entry : connected'[e] =>
           connected[e] /\ \A r \in rs : ~ (request[r].kind = "list" /\ request[r].entry = e)
      /\ \A r \in Servers!Requests : r \notin rs => request'[r] = request[r]
  BY <1>1, FailedStep
<1>3. PoolInv'
  BY <1>1, <1>2 DEF PoolInv
<1>4. Servers!ConnectedIsWatched'
  <2>1. CASE entry = NoEntry
    BY <2>1 DEF Servers!ConnectedIsWatched
  <2>2. CASE entry # NoEntry
    <3>1. entry \in Entry
      BY <1>1, <2>2 DEF PoolInv
    <3>2. \A s \in Servers!Requests :
            connected'[entry] /\ request[s].status = "waiting" /\ request[s].kind = "list"
            /\ request[s].entry = entry => request'[s] = request[s] \/ health'[entry]
      BY <1>2, <3>1
    <3>3. QED
      BY <1>1, <1>2, <2>2, <3>1, <3>2, WatchedKept
  <2>3. QED
    BY <2>1, <2>2
<1>5. QED
  BY <1>2, <1>3, <1>4 DEF ServersInv

\* The exit of a process closes its transport as it is by now.
LEMMA ExitsStep ==
  ASSUME ServersInv, NEW p \in Proc, Servers!Exits(p)
  PROVE  ServersInv'
<1> DEFINE e == transport[p]
<1> USE ServersBounds
<1>1. /\ proc[p] \in {"running", "killed"}
      /\ open' = [open EXCEPT ![e] = FALSE]
      /\ heard' = heard \ {p, process[e]}
      /\ proc' = [Servers!Killed(e) EXCEPT ![p] = "gone"]
      /\ process' = [process EXCEPT ![e] = NoProc]
      /\ Servers!Failed(Servers!Waiting(e))
      /\ UNCHANGED <<entry, made, health, reconnects, sleeping, transport, lastId>>
  BY DEF Servers!Exits, Servers!pool
<1>2. StdioInv
  BY DEF ServersInv
<1>3. e \in Entry
  BY <1>1, <1>2 DEF StdioInv
<1>4. /\ Servers!Killed(e) \in [Proc -> {"none", "running", "killed", "gone"}]
      /\ \A q \in Proc : /\ q # process[e] => Servers!Killed(e)[q] = proc[q]
                         /\ q = process[e] => Servers!Killed(e)[q] = "killed" /\ proc[q] # "none"
  BY <1>2, <1>3 DEF StdioInv, Servers!Killed
<1>5. /\ proc' \in [Proc -> {"none", "running", "killed", "gone"}]
      /\ \A q \in Proc : q # p => proc'[q] = Servers!Killed(e)[q]
      /\ proc'[p] = "gone" /\ proc[p] # "none"
  BY <1>1, <1>4
<1>6. \A q \in Proc : proc'[q] # "none" <=> proc[q] # "none"
  BY <1>4, <1>5
<1>7. heard' \subseteq {q \in Proc : proc'[q] = "running"}
  BY <1>1, <1>2, <1>4, <1>5 DEF StdioInv
<1> HIDE DEF e
<1>8. process' \in [Entry -> Proc \cup {NoProc}] /\ process'[e] = NoProc
      /\ \A d \in Entry : d # e => process'[d] = process[d]
  BY <1>1, <1>2, <1>3 DEF StdioInv
<1>9. open' \in [Entry -> BOOLEAN] /\ ~open'[e] /\ \A d \in Entry : d # e => open'[d] = open[d]
  BY <1>1, <1>2, <1>3 DEF StdioInv
<1>10. \A d \in Entry : process'[d] # NoProc =>
         transport'[process'[d]] = d /\ proc'[process'[d]] # "none"
  BY <1>1, <1>2, <1>6, <1>8 DEF StdioInv
<1>11. StdioInv' /\ SpawnedStay
  BY <1>1, <1>2, <1>5, <1>6, <1>7, <1>8, <1>9, <1>10 DEF StdioInv, SpawnedStay
<1>12. /\ Servers!Waiting(e) \in SUBSET Servers!Requests
       /\ \A r \in Servers!Waiting(e) : request[r].status = "waiting"
  BY DEF Servers!Waiting
<1>13. QED
  BY <1>1, <1>11, <1>12, RequestsFailStep

\* A health check that finds the transport closed corrects the report.
LEMMA HealthCheckStep ==
  ASSUME ServersInv, NEW e \in Entry, Servers!HealthCheck(e)
  PROVE  ServersInv'
<1> USE ServersBounds
<1>1. /\ connected' = [connected EXCEPT ![e] = FALSE]
      /\ UNCHANGED <<entry, made, health, lastId, request>>
      /\ \/ UNCHANGED <<reconnects, sleeping, open, process, proc, transport, heard>>
         \/ /\ entry # NoEntry /\ ~ (reconnects[entry] >= MaxReconnects)
            /\ reconnects' = [reconnects EXCEPT ![entry] = @ + 1]
            /\ sleeping' = [sleeping EXCEPT ![entry] = TRUE]
            /\ Servers!Disconnected(entry)
  BY DEF Servers!HealthCheck, Servers!pool, Servers!stdio
<1>2. PoolInv /\ StdioInv /\ RequestInv /\ Servers!ConnectedIsWatched
  BY DEF ServersInv
<1>3. connected' \in [Entry -> BOOLEAN] /\ \A d \in Entry : connected'[d] => connected[d]
  BY <1>1, <1>2 DEF PoolInv
<1>4. /\ reconnects' \in [Entry -> 0..MaxReconnects] /\ sleeping' \in [Entry -> BOOLEAN]
      /\ StdioInv' /\ SpawnedStay
  <2>1. CASE UNCHANGED <<reconnects, sleeping, open, process, proc, transport, heard>>
    BY <1>2, <2>1 DEF PoolInv, StdioInv, SpawnedStay
  <2>2. CASE /\ entry # NoEntry /\ ~ (reconnects[entry] >= MaxReconnects)
             /\ reconnects' = [reconnects EXCEPT ![entry] = @ + 1]
             /\ sleeping' = [sleeping EXCEPT ![entry] = TRUE]
             /\ Servers!Disconnected(entry)
    <3>1. entry \in Entry
      BY <1>2, <2>2 DEF PoolInv
    <3>2. StdioInv' /\ SpawnedStay
      BY <1>2, <2>2, <3>1, DisconnectedStep
    <3>3. reconnects[entry] \in 0..MaxReconnects
      BY <1>2, <3>1 DEF PoolInv
    <3>4. reconnects[entry] + 1 \in 0..MaxReconnects
      BY <2>2, <3>3
    <3>5. QED
      BY <1>2, <2>2, <3>2, <3>4 DEF PoolInv
  <2>3. QED
    BY <1>1, <2>1, <2>2
<1>5. RequestInv'
  BY <1>1, <1>2, <1>4, RequestsKept
<1>6. PoolInv'
  BY <1>1, <1>2, <1>3, <1>4 DEF PoolInv
<1>7. Servers!ConnectedIsWatched'
  <2>1. CASE entry = NoEntry
    BY <1>1, <2>1 DEF Servers!ConnectedIsWatched
  <2>2. CASE entry # NoEntry
    <3>1. entry \in Entry
      BY <1>2, <2>2 DEF PoolInv
    <3>2. QED
      BY <1>1, <1>2, <1>3, <2>2, <3>1, WatchedKept
  <2>3. QED
    BY <2>1, <2>2
<1>8. QED
  BY <1>4, <1>5, <1>6, <1>7 DEF ServersInv

\* connect(), by a call or after the delay of a reconnect.
LEMMA ConnectedStep ==
  ASSUME ServersInv, Servers!Connects, UNCHANGED <<entry, made, health>>,
         sleeping' \in [Entry -> BOOLEAN]
  PROVE  ServersInv'
<1>1. /\ entry \in Entry /\ StdioInv' /\ RequestInv'
      /\ connected' = [connected EXCEPT ![entry] = TRUE]
      /\ reconnects' = [reconnects EXCEPT ![entry] = 0]
      /\ \E r \in Servers!Requests :
           request'[r].status = "waiting" /\ request'[r].entry = entry /\ request'[r].kind = "list"
  BY ConnectsStep
<1>2. PoolInv /\ entry # NoEntry
  BY <1>1, ServersBounds DEF ServersInv
<1>3. PoolInv'
  BY <1>1, <1>2, ServersBounds DEF PoolInv
<1>4. Servers!ConnectedIsWatched'
  BY <1>1 DEF Servers!ConnectedIsWatched, Servers!Waiting, Servers!Requests
<1>5. QED
  BY <1>1, <1>3, <1>4 DEF ServersInv

LEMMA ServersStep == ServersInv /\ [Servers!Next]_mcpVars => ServersInv'
<1> SUFFICES ASSUME ServersInv, [Servers!Next]_mcpVars PROVE ServersInv'
  OBVIOUS
<1> USE ServersBounds
<1> USE DEF Servers!pool, Servers!status, Servers!stdio
<1>1. PoolInv /\ StdioInv /\ RequestInv /\ Servers!ConnectedIsWatched
  BY DEF ServersInv
<1>2. ASSUME NEW e \in Entry, Servers!AddServer(e) PROVE ServersInv'
  <2>1. /\ e \notin made /\ made' = made \cup {e} /\ entry' = e
        /\ UNCHANGED <<connected, reconnects, sleeping, lastId, request>>
        /\ \/ UNCHANGED <<health, open, process, proc, transport, heard>>
           \/ /\ entry # NoEntry /\ health' = [health EXCEPT ![entry] = FALSE]
              /\ Servers!Disconnected(entry)
    BY <1>2 DEF Servers!AddServer
  <2>2. StdioInv' /\ SpawnedStay
    <3>1. CASE UNCHANGED <<health, open, process, proc, transport, heard>>
      BY <1>1, <3>1 DEF StdioInv, SpawnedStay
    <3>2. CASE entry # NoEntry /\ Servers!Disconnected(entry)
      <4>1. entry \in Entry
        BY <1>1, <3>2 DEF PoolInv
      <4>2. QED
        BY <1>1, <3>2, <4>1, DisconnectedStep
    <3>3. QED
      BY <2>1, <3>1, <3>2
  <2>3. RequestInv'
    BY <1>1, <2>1, <2>2, RequestsKept
  <2>4. PoolInv'
    BY <1>1, <2>1 DEF PoolInv
  <2>5. Servers!ConnectedIsWatched'
    <3>1. ~connected'[e]
      BY <1>1, <2>1 DEF PoolInv
    <3>2. QED
      BY <2>1, <3>1 DEF Servers!ConnectedIsWatched
  <2>6. QED
    BY <2>2, <2>3, <2>4, <2>5 DEF ServersInv
<1>3. CASE Servers!RemoveServer
  <2>1. /\ entry # NoEntry /\ entry' = NoEntry /\ health' = [health EXCEPT ![entry] = FALSE]
        /\ Servers!Disconnected(entry)
        /\ UNCHANGED <<made, connected, reconnects, sleeping, lastId, request>>
    BY <1>3 DEF Servers!RemoveServer
  <2>2. entry \in Entry
    BY <1>1, <2>1 DEF PoolInv
  <2>3. StdioInv' /\ SpawnedStay
    BY <1>1, <2>1, <2>2, DisconnectedStep
  <2>4. RequestInv'
    BY <1>1, <2>1, <2>3, RequestsKept
  <2>5. PoolInv'
    BY <1>1, <2>1 DEF PoolInv
  <2>6. Servers!ConnectedIsWatched'
    BY <2>1 DEF Servers!ConnectedIsWatched
  <2>7. QED
    BY <2>3, <2>4, <2>5, <2>6 DEF ServersInv
<1>4. CASE Servers!Connect
  <2>1. Servers!Connects /\ UNCHANGED <<entry, made, health, sleeping>>
    BY <1>4 DEF Servers!Connect
  <2>2. sleeping' \in [Entry -> BOOLEAN]
    BY <1>1, <2>1 DEF PoolInv
  <2>3. QED
    BY <2>1, <2>2, ConnectedStep
<1>5. CASE Servers!Disconnect
  <2>1. /\ entry # NoEntry /\ health' = [health EXCEPT ![entry] = FALSE]
        /\ Servers!Disconnected(entry)
        /\ connected' = [connected EXCEPT ![entry] = FALSE]
        /\ UNCHANGED <<entry, made, reconnects, sleeping, lastId, request>>
    BY <1>5 DEF Servers!Disconnect
  <2>2. entry \in Entry
    BY <1>1, <2>1 DEF PoolInv
  <2>3. StdioInv' /\ SpawnedStay
    BY <1>1, <2>1, <2>2, DisconnectedStep
  <2>4. RequestInv'
    BY <1>1, <2>1, <2>3, RequestsKept
  <2>5. PoolInv' /\ ~connected'[entry]
    BY <1>1, <2>1, <2>2 DEF PoolInv
  <2>6. Servers!ConnectedIsWatched'
    BY <2>1, <2>5 DEF Servers!ConnectedIsWatched
  <2>7. QED
    BY <2>3, <2>4, <2>5, <2>6 DEF ServersInv
<1>6. CASE Servers!CallTool
  <2>1. /\ entry # NoEntry /\ open[entry] /\ Servers!Sends(entry, process[entry], "call")
        /\ UNCHANGED <<entry, made, connected, health, reconnects, sleeping>>
        /\ UNCHANGED <<open, process, proc, transport, heard>>
    BY <1>6 DEF Servers!CallTool
  <2>2. entry \in Entry
    BY <1>1, <2>1 DEF PoolInv
  <2>3. process[entry] \in Proc /\ transport[process[entry]] = entry
        /\ proc[process[entry]] # "none"
    BY <1>1, <2>1, <2>2 DEF StdioInv
  <2>4. StdioInv' /\ SpawnedStay
    BY <1>1, <2>1 DEF StdioInv, SpawnedStay
  <2>5. transport'[process[entry]] = entry /\ proc'[process[entry]] # "none"
    BY <2>1, <2>3
  <2>6. RequestInv' /\ \A r \in Servers!Sent : request'[r] = request[r]
    BY <1>1, <2>1, <2>2, <2>3, <2>4, <2>5, SendsStep
  <2>7. PoolInv'
    BY <1>1, <2>1 DEF PoolInv
  <2>8. \A r \in Servers!Requests : request[r].status = "waiting" => request'[r] = request[r]
    BY <2>6 DEF Servers!Sent
  <2>9. Servers!ConnectedIsWatched'
    BY <1>1, <2>1, <2>8, WatchedKept
  <2>10. QED
    BY <2>4, <2>6, <2>7, <2>9 DEF ServersInv
<1>7. ASSUME NEW p \in Proc, NEW r \in Servers!Requests, Servers!Line(p, r) PROVE ServersInv'
  BY <1>7, LineStep
<1>8. ASSUME NEW p \in Proc, Servers!Exits(p) PROVE ServersInv'
  BY <1>8, ExitsStep
<1>9. ASSUME NEW r \in Servers!Requests, Servers!RequestFails(r) PROVE ServersInv'
  <2>1. /\ request[r].status = "waiting" /\ Servers!Failed({r})
        /\ UNCHANGED <<entry, made, health, reconnects, sleeping, lastId>>
        /\ UNCHANGED <<open, process, proc, transport, heard>>
    BY <1>9 DEF Servers!RequestFails
  <2>2. StdioInv' /\ SpawnedStay
    BY <1>1, <2>1 DEF StdioInv, SpawnedStay
  <2>3. {r} \in SUBSET Servers!Requests /\ \A s \in {r} : request[s].status = "waiting"
    BY <2>1
  <2>4. QED
    BY <2>1, <2>2, <2>3, RequestsFailStep
<1>10. ASSUME NEW e \in Entry, Servers!HealthCheck(e) PROVE ServersInv'
  BY <1>10, HealthCheckStep
<1>11. ASSUME NEW e \in Entry, Servers!Reconnect(e) PROVE ServersInv'
  <2>1. /\ sleeping' = [sleeping EXCEPT ![e] = FALSE] /\ UNCHANGED <<entry, made, health>>
        /\ \/ UNCHANGED <<connected, reconnects, lastId, request>>
              /\ UNCHANGED <<open, process, proc, transport, heard>>
           \/ Servers!Connects
    BY <1>11 DEF Servers!Reconnect
  <2>2. sleeping' \in [Entry -> BOOLEAN]
    BY <1>1, <2>1 DEF PoolInv
  <2>3. CASE Servers!Connects
    BY <2>1, <2>2, <2>3, ConnectedStep
  <2>4. CASE UNCHANGED <<connected, reconnects, lastId, request>>
             /\ UNCHANGED <<open, process, proc, transport, heard>>
    <3>1. StdioInv' /\ SpawnedStay
      BY <1>1, <2>4 DEF StdioInv, SpawnedStay
    <3>2. RequestInv'
      BY <1>1, <2>4, <3>1, RequestsKept
    <3>3. PoolInv'
      BY <1>1, <2>1, <2>2, <2>4 DEF PoolInv
    <3>4. Servers!ConnectedIsWatched'
      BY <1>1, <2>1, <2>4
         DEF Servers!ConnectedIsWatched, Servers!Waiting, Servers!Requests
    <3>5. QED
      BY <3>1, <3>2, <3>3, <3>4 DEF ServersInv
  <2>5. QED
    BY <2>1, <2>3, <2>4
<1>12. CASE UNCHANGED mcpVars
  <2>1. /\ UNCHANGED <<entry, made, connected, health, reconnects, sleeping>>
        /\ UNCHANGED <<open, process, proc, transport, heard, lastId, request>>
    BY <1>12 DEF mcpVars
  <2>2. StdioInv' /\ SpawnedStay
    BY <1>1, <2>1 DEF StdioInv, SpawnedStay
  <2>3. RequestInv'
    BY <1>1, <2>1, <2>2, RequestsKept
  <2>4. PoolInv'
    BY <1>1, <2>1 DEF PoolInv
  <2>5. Servers!ConnectedIsWatched'
    BY <1>1, <2>1 DEF Servers!ConnectedIsWatched, Servers!Waiting, Servers!Requests
  <2>6. QED
    BY <2>2, <2>3, <2>4, <2>5 DEF ServersInv
<1>13. QED
  BY <1>2, <1>3, <1>4, <1>5, <1>6, <1>7, <1>8, <1>9, <1>10, <1>11, <1>12 DEF Servers!Next

LEMMA ServersInvariance == Spec => []ServersInv
<1>1. ServersInv /\ [Next]_vars => ServersInv'
  BY StepOfEach, ServersStep
<1>2. QED
  BY <1>1, ServersInitially, PTL DEF Spec

\* AnsweredByItsProcess: a request is answered by the process it was written to, also
\* when two processes of a transport are read at a time (transport.ts:65-89, 111-142).
THEOREM ItsProcessAnswers == Spec => []AnsweredByItsProcess
<1>1. ServersInv => AnsweredByItsProcess
  BY ServersHold DEF AnsweredByItsProcess
<1>2. QED
  BY <1>1, ServersInvariance, PTL

\* ServerWatched: a server that is reported as connected has its health check, or
\* connect() still waits for its tools and takes the report back when it fails
\* (connection-manager.ts:101-113, 218-224).
THEOREM ServerIsWatched == Spec => []ServerWatched
<1>1. ServersInv => ServerWatched
  BY DEF ServersInv, ServerWatched
<1>2. QED
  BY <1>1, ServersInvariance, PTL

-----------------------------------------------------------------------------
\* TypeOK: both keep their state in its types, however they are called.
THEOREM BothAreTyped == Spec => []TypeOK
<1>1. MuxInv /\ ServersInv => TypeOK
  BY ServersHold DEF MuxInv, TypeOK
<1>2. QED
  BY <1>1, MuxInvariance, ServersInvariance, PTL
=============================================================================
