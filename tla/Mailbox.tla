------------------------------- MODULE Mailbox -------------------------------
(***************************************************************************)
(* The persistent mailbox of the agents                                    *)
(* (packages/agents/src/mailbox/store.ts): messages and deliveries in a    *)
(* database file, sequence counters in memory, and the consumers that      *)
(* check their inbox, handle what they are given and acknowledge it.       *)
(*                                                                         *)
(* Messages are numbered in the order of their timestamps.  Instead of a   *)
(* clock, every delivery in flight has an age: the ticks since it was last *)
(* given to the consumer, up to one more than the visibility timeout.      *)
(***************************************************************************)
EXTENDS Naturals, Sequences, FiniteSets, FiniteSetsExt

CONSTANTS
  Agent,        \* the agents, each with an inbox
  MaxMessages,  \* bound: messages sent in a behaviour
  MaxInbox,     \* maxInboxSize, 0 for unlimited
  Visibility,   \* VISIBILITY_TIMEOUT_MS in ticks
  MaxFailures   \* bound: restarts, consumers dying and sends throwing

ASSUME MailboxAssumption ==
  /\ MaxMessages \in Nat
  /\ MaxInbox \in Nat
  /\ Visibility \in Nat
  /\ MaxFailures \in Nat

Message == 1..MaxMessages

VARIABLES
  sent,        \* every message: sender, recipient and sequence number
  rows,        \* messages with a row in mailbox_messages
  status,      \* their status in mailbox_deliveries, "none" without a row
  age,         \* ticks since last_delivered_at of those in flight, 0 otherwise
  seqCounters, \* the counter of each sender, in memory
  handling,    \* messages a consumer is handling
  toAck,       \* messages a consumer has handled and will acknowledge
  given,       \* history: messages given to a consumer
  handled,     \* history: messages a consumer has handled
  failures     \* restarts, consumer deaths and throwing sends so far

consumers == <<handling, toAck>>
history == <<given, handled>>
vars == <<sent, rows, status, age, seqCounters, consumers, history, failures>>

-----------------------------------------------------------------------------
DeliveryStatus == {"none", "pending", "in_flight", "acked"}

Known == 1..Len(sent)
Inbox(a) == {m \in Known : sent[m].to = a}

\* status after the deliveries in S got the status st.
With(st, S) == [m \in Message |-> IF m \in S THEN st ELSE status[m]]

\* The n oldest messages of S.
Oldest(S, n) == {m \in S : Cardinality({k \in S : k < m}) < n}

\* Mutant of BeyondCap: the cap counts unacknowledged messages as well.
BeyondCapOfAll(a) ==
  LET all == {m \in Inbox(a) : status[m] # "none"}
  IN IF MaxInbox = 0 \/ Cardinality(all) <= MaxInbox THEN {}
     ELSE Oldest(all, Cardinality(all) - MaxInbox)

\* The deliveries enforceInboxCap deletes: acknowledged ones beyond the cap.
\* (It then deletes as many of the oldest messages without a delivery.)
BeyondCap(a) ==
  LET acked == {m \in Inbox(a) : status[m] = "acked"}
  IN IF MaxInbox = 0 \/ Cardinality(acked) <= MaxInbox THEN {}
     ELSE Oldest(acked, Cardinality(acked) - MaxInbox)

Send(from, to) ==
  LET m == Len(sent) + 1
      seq == seqCounters[from] + 1
      gone == BeyondCap(to)
  IN /\ m <= MaxMessages
     /\ sent' = Append(sent, [from |-> from, to |-> to, seq |-> seq])
     /\ seqCounters' = [seqCounters EXCEPT ![from] = seq]
     /\ status' = [With("none", gone) EXCEPT ![m] = "pending"]
     /\ rows' = (rows \cup {m}) \ Oldest({k \in Inbox(to) \cap rows : status'[k] = "none"},
                                         Cardinality(gone))
     /\ UNCHANGED <<age, consumers, history, failures>>

\* The payload cannot be stringified, or the transaction fails: the number is
\* gone.
SendThrows(from) ==
  /\ failures < MaxFailures
  /\ failures' = failures + 1
  /\ seqCounters' = [seqCounters EXCEPT ![from] = @ + 1]
  /\ UNCHANGED <<sent, rows, status, age, consumers, history>>

\* reply(): to the sender of a message whose row is still there.
Reply(m) ==
  /\ m \in rows
  /\ Send(sent[m].to, sent[m].from)

\* Mutant of Reclaimed: the status is not looked at, and an acknowledged
\* delivery may be as old as it likes.
ReclaimedWhatever(a) ==
  {m \in Inbox(a) : /\ status[m] # "none"
                    /\ status[m] = "in_flight" => age[m] > Visibility}

\* Mutant of Reclaimed: there is no visibility timeout.
ReclaimedNever(a) == {}

\* In-flight deliveries whose consumer did not acknowledge in time.
Reclaimed(a) == {m \in Inbox(a) : status[m] = "in_flight" /\ age[m] > Visibility}

\* ORDER BY m.seq ASC LIMIT ?, ties in any order.
Batches(S, limit) ==
  {B \in kSubset(Min({limit, Cardinality(S)}), S) :
     \A m \in B, k \in S \ B : sent[m].seq <= sent[k].seq}

\* The messages that a call of check can return, with whatever limit.
Selections(a) ==
  LET pending == {m \in Inbox(a) : status[m] = "pending"} \cup Reclaimed(a)
  IN UNION {Batches(pending, limit) : limit \in Message}

\* Ages after a call that gave the messages of B, and reclaimed others.
AgesAfter(a, B) ==
  [m \in Message |-> IF m \in B \cup Reclaimed(a) THEN 0 ELSE age[m]]

Check(a) ==
  \E B \in Selections(a) :
    /\ status' = [m \in Message |-> IF m \in B THEN "in_flight"
                                    ELSE With("pending", Reclaimed(a))[m]]
    /\ age' = AgesAfter(a, B)
    /\ handling' = handling \cup B
    /\ given' = given \cup B
    /\ UNCHANGED <<sent, rows, seqCounters, toAck, handled, failures>>

\* checkAndAck(): acknowledged before it returns; its caller handles the
\* messages synchronously.
CheckAndAck(a) ==
  \E B \in Selections(a) :
    /\ status' = [m \in Message |-> IF m \in B THEN "acked"
                                    ELSE With("pending", Reclaimed(a))[m]]
    /\ age' = AgesAfter(a, B)
    /\ given' = given \cup B
    /\ handled' = handled \cup B
    /\ UNCHANGED <<sent, rows, seqCounters, consumers, failures>>

\* A consumer is done with a message ...
Handle(m) ==
  /\ m \in handling
  /\ handling' = handling \ {m}
  /\ toAck' = toAck \cup {m}
  /\ handled' = handled \cup {m}
  /\ UNCHANGED <<sent, rows, status, age, seqCounters, given, failures>>

\* ... and acknowledges it, in vain when it has been reclaimed meanwhile.
Ack(m) ==
  /\ m \in toAck
  /\ toAck' = toAck \ {m}
  /\ IF status[m] = "in_flight"
     THEN status' = With("acked", {m}) /\ age' = [age EXCEPT ![m] = 0]
     ELSE UNCHANGED <<status, age>>
  /\ UNCHANGED <<sent, rows, seqCounters, handling, history, failures>>

\* Mutant of PurgeAcked: messages without a delivery stay.
PurgeAckedWithoutRows(a, p) ==
  /\ status' = With("none", {m \in Inbox(a) : m <= p /\ status[m] = "acked"})
  /\ UNCHANGED <<sent, rows, age, seqCounters, consumers, history, failures>>

\* purgeAcked(): first the deliveries, then the messages older than the cutoff
\* (those up to p) that have no delivery left.
PurgeAcked(a, p) ==
  /\ status' = With("none", {m \in Inbox(a) : m <= p /\ status[m] = "acked"})
  /\ rows' = rows \ {m \in rows : m <= p /\ status'[m] = "none"}
  /\ UNCHANGED <<sent, age, seqCounters, consumers, history, failures>>

Tick ==
  /\ age' = [m \in Message |-> IF status[m] = "in_flight" /\ age[m] <= Visibility
                               THEN age[m] + 1 ELSE age[m]]
  /\ UNCHANGED <<sent, rows, status, seqCounters, consumers, history, failures>>

\* The consumer of an inbox dies and is started again.
ConsumerDies(a) ==
  /\ failures < MaxFailures
  /\ (handling \cup toAck) \cap Inbox(a) # {}
  /\ handling' = handling \ Inbox(a)
  /\ toAck' = toAck \ Inbox(a)
  /\ failures' = failures + 1
  /\ UNCHANGED <<sent, rows, status, age, seqCounters, history>>

\* Mutant of InitialCounter: the counters start from zero.
CounterFromZero(a) == 0

\* Mutant of InitialCounter: SUM(seq) instead of MAX(seq).
CounterFromSum(a) ==
  MapThenSumSet(LAMBDA m : sent[m].seq, {k \in rows : sent[k].from = a})

\* initSeqCounters().
InitialCounter(a) == Max({0} \cup {sent[m].seq : m \in {k \in rows : sent[k].from = a}})

\* The process stops; a new store opens the database file.
Reopen ==
  /\ failures < MaxFailures
  /\ failures' = failures + 1
  /\ seqCounters' = [a \in Agent |-> InitialCounter(a)]
  /\ handling' = {}
  /\ toAck' = {}
  /\ UNCHANGED <<sent, rows, age, history>>

Restart == Reopen /\ UNCHANGED status

\* It stops between the two statements of purgeAcked(), which are not in a
\* transaction.
PurgeInterrupted(a, p) ==
  /\ Reopen
  /\ status' = With("none", {m \in Inbox(a) : m <= p /\ status[m] = "acked"})

-----------------------------------------------------------------------------
Init ==
  /\ sent = <<>>
  /\ rows = {}
  /\ status = [m \in Message |-> "none"]
  /\ age = [m \in Message |-> 0]
  /\ seqCounters = [a \in Agent |-> 0]
  /\ handling = {} /\ toAck = {} /\ given = {} /\ handled = {}
  /\ failures = 0

Next ==
  \/ \E from, to \in Agent : Send(from, to)
  \/ \E m \in Known : Reply(m) \/ Handle(m) \/ Ack(m)
  \/ \E a \in Agent :
       \/ Check(a) \/ CheckAndAck(a)
       \/ \E p \in Known : PurgeAcked(a, p) \/ PurgeInterrupted(a, p)
       \/ SendThrows(a)
       \/ ConsumerDies(a)
  \/ Tick
  \/ Restart

Spec == Init /\ [][Next]_vars

\* Time passes, and consumers keep checking their inbox, finish what they
\* handle and acknowledge it.  Sending, purging and failing are not assured.
Fairness ==
  /\ WF_vars(Tick)
  /\ \A a \in Agent : WF_vars(Check(a))
  /\ \A m \in Message : WF_vars(m \in Known /\ Handle(m)) /\ WF_vars(m \in Known /\ Ack(m))

FairSpec == Spec /\ Fairness

-----------------------------------------------------------------------------
TypeOK ==
  /\ sent \in Seq([from : Agent, to : Agent, seq : 1..(MaxMessages + MaxFailures)])
  /\ Len(sent) <= MaxMessages
  /\ rows \subseteq Known
  /\ status \in [Message -> DeliveryStatus]
  /\ age \in [Message -> 0..(Visibility + 1)]
  /\ seqCounters \in [Agent -> 0..(MaxMessages + MaxFailures)]
  /\ handling \subseteq Known /\ toAck \subseteq Known
  /\ given \subseteq Known /\ handled \subseteq Known
  /\ failures \in 0..MaxFailures

\* A message that no consumer has handled is still in the mailbox, waiting or
\* in flight, whatever was purged, capped, restarted or reclaimed
\* (store.ts:139-145, 587-631).
NeverLost ==
  \A m \in Known : m \notin handled => m \in rows /\ status[m] \in {"pending", "in_flight"}

\* A delivery always has its message, and a message is left without a delivery
\* only by a purge that was interrupted: by then it is handled.  The cap may
\* delete such messages in place of those whose deliveries it deleted
\* (purgeAcked and enforceInboxCap, store.ts:539-557, 602-630).
NoOrphans ==
  LET delivered == {m \in Message : status[m] # "none"} IN
    /\ delivered \subseteq rows
    /\ rows \ delivered \subseteq handled
    /\ failures = 0 => rows = delivered

\* An agent is given the messages of a sender in the order in which they were
\* sent, also when the counters were rebuilt after a purge
\* (check, store.ts:139-145; initSeqCounters, store.ts:573-585).
GivenInOrder ==
  \A m, n \in Known :
    /\ sent[m].from = sent[n].from
    /\ sent[m].to = sent[n].to
    /\ m < n
    /\ n \in given
    => m \in given

Promise == INSTANCE AtLeastOnce WITH
  waiting <- {m \in Known : status[m] \in {"pending", "in_flight"}},
  given   <- given,
  settled <- {m \in Known : status[m] \in {"none", "acked"}}

\* A message is settled only after it was given, and what was acknowledged is
\* never delivered again (ack, store.ts:213-216; check, store.ts:139-145).
ImplementsPromise == Promise!Spec

\* Every message is handled in the end, although consumers die and the store
\* is restarted while it is in flight.  (Acknowledged it is only when a
\* consumer answers within the visibility timeout: nothing assures that.)
EventuallyHandled == \A m \in Message : m \in Known ~> m \in handled

-----------------------------------------------------------------------------
(* The inductive invariant: what TypeOK, NeverLost, NoOrphans, GivenInOrder  *)
(* and ImplementsPromise need.                                               *)

\* Consumers handle what they were given and acknowledge what they handled.
Consumed ==
  /\ handling \subseteq given /\ toAck \subseteq handled /\ handled \subseteq given
  /\ \A m \in Known : status[m] = "in_flight" => m \in given

\* A counter is never behind the messages of its sender that still have a row,
\* so that a later message has a larger number than each of those.
Numbered ==
  /\ \A a \in Agent : seqCounters[a] <= Len(sent) + failures
  /\ \A m \in Known : sent[m].seq <= Len(sent) + failures
  /\ \A m \in rows : sent[m].seq <= seqCounters[sent[m].from]
  /\ \A m \in rows, n \in Known :
       m < n /\ sent[m].from = sent[n].from => sent[m].seq < sent[n].seq

MInv ==
  /\ TypeOK
  /\ Consumed
  /\ Numbered
  /\ NeverLost
  /\ NoOrphans
  /\ GivenInOrder
=============================================================================
