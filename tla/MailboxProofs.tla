---------------------------- MODULE MailboxProofs ----------------------------
(***************************************************************************)
(* The mailbox loses no message, leaves none behind without a delivery,    *)
(* gives those of a sender in the order in which they were sent, and       *)
(* implements at-least-once delivery.  For any set of agents and any       *)
(* bounds.                                                                 *)
(***************************************************************************)
EXTENDS Mailbox, FiniteSetTheorems, WellFoundedInduction, TLAPS

-----------------------------------------------------------------------------
(* Sets of messages *)

\* The largest element of a bounded set of numbers is one of its elements.
LEMMA LargestNumber ==
  ASSUME NEW S \in SUBSET Nat, S # {}, NEW n \in Nat, \A x \in S : x <= n
  PROVE  Max(S) \in S /\ \A x \in S : x <= Max(S)
<1> DEFINE T == {b \in Nat : \A x \in S : x <= b}
           R == OpToRel(<, Nat)
<1>1. T \subseteq Nat /\ T # {}
  OBVIOUS
<1>2. IsWellFoundedOn(R, Nat)
  BY NatLessThanWellFounded
<1>3. \A x, y \in Nat : x < y => <<x, y>> \in R
  BY DEF OpToRel
<1> HIDE DEF R
<1>4. PICK b \in T : \A c \in T : ~ (<<c, b>> \in R)
  BY <1>1, <1>2, WFMin
<1>5. b \in Nat /\ (\A x \in S : x \in Nat /\ x <= b) /\ \A c \in T : ~(c < b)
  BY <1>1, <1>3, <1>4
<1>6. b \in S
  <2>1. SUFFICES ASSUME b \notin S
                 PROVE  FALSE
    OBVIOUS
  <2>2. PICK x \in S : TRUE
    OBVIOUS
  <2>3. \A y \in S : y \in Nat /\ y < b
    BY <1>5, <2>1
  <2>4. b - 1 \in T
    BY <1>5, <2>2, <2>3
  <2> QED
    BY <1>5, <2>4
<1>7. \E x \in S : \A y \in S : x >= y
  BY <1>5, <1>6
<1>8. Max(S) \in S /\ \A y \in S : Max(S) >= y
  BY <1>7 DEF Max
<1> QED
  BY <1>8

LEMMA OldestOf ==
  ASSUME NEW S, NEW n
  PROVE  Oldest(S, n) \subseteq S
BY DEF Oldest

LEMMA OldestAreAll ==
  ASSUME NEW S \in SUBSET Nat, IsFiniteSet(S)
  PROVE  Oldest(S, Cardinality(S)) = S
<1>1. ASSUME NEW m \in S
      PROVE  Cardinality({k \in S : k < m}) < Cardinality(S)
  <2> DEFINE T == {k \in S : k < m}
  <2>1. T \in SUBSET S /\ T # S
    <3>1. m \notin T
      OBVIOUS
    <3> QED
      BY <3>1
  <2> HIDE DEF T
  <2>2. /\ Cardinality(T) <= Cardinality(S) /\ Cardinality(T) # Cardinality(S)
        /\ Cardinality(T) \in Nat /\ Cardinality(S) \in Nat
    BY <2>1, FS_Subset, FS_CardinalityType
  <2> QED
    BY <2>2 DEF T
<1> QED
  BY <1>1 DEF Oldest

\* What the mailbox's variables range over.
Sent == [from : Agent, to : Agent, seq : 1..(MaxMessages + MaxFailures)]

LEMMA Types ==
  ASSUME TypeOK
  PROVE  /\ sent \in Seq(Sent) /\ Len(sent) \in Nat /\ Len(sent) <= MaxMessages
         /\ MaxMessages \in Nat /\ MaxFailures \in Nat /\ failures \in Nat
         /\ failures <= MaxFailures /\ Visibility \in Nat
         /\ Known \subseteq Message /\ Known \subseteq Nat
         /\ \A m \in Known : sent[m] \in Sent
         /\ IsFiniteSet(Known)
<1>1. /\ sent \in Seq(Sent) /\ Len(sent) \in Nat /\ Len(sent) <= MaxMessages
      /\ MaxMessages \in Nat /\ MaxFailures \in Nat /\ failures \in Nat
      /\ failures <= MaxFailures /\ Visibility \in Nat
  BY MailboxAssumption DEF TypeOK, Sent
<1>2. Known \subseteq Message /\ Known \subseteq Nat
  BY <1>1 DEF Known, Message
<1>3. IsFiniteSet(Known)
  BY <1>1, FS_Interval DEF Known
<1> QED
  BY <1>1, <1>2, <1>3 DEF Known

\* The deliveries that the cap deletes are acknowledged.
LEMMA BeyondCapAcked ==
  ASSUME NEW a
  PROVE  \A m \in BeyondCap(a) : m \in Inbox(a) /\ status[m] = "acked"
<1> DEFINE acked == {m \in Inbox(a) : status[m] = "acked"}
<1>1. \/ BeyondCap(a) = {}
      \/ BeyondCap(a) = Oldest(acked, Cardinality(acked) - MaxInbox)
  BY DEF BeyondCap
<1> HIDE DEF acked
<1>2. BeyondCap(a) \subseteq acked
  BY <1>1, OldestOf
<1> QED
  BY <1>2 DEF acked

LEMMA ReclaimedInFlight ==
  ASSUME NEW a
  PROVE  \A m \in Reclaimed(a) : m \in Inbox(a) /\ status[m] = "in_flight"
BY DEF Reclaimed

\* What check gives is waiting, or reclaimed, and whatever it passes over of
\* that has no smaller number.
LEMMA Selected ==
  ASSUME NEW a, NEW B \in Selections(a)
  PROVE  /\ \A m \in B : m \in Inbox(a) /\ status[m] \in {"pending", "in_flight"}
         /\ \A m \in B, k \in Inbox(a) \ B :
              status[k] = "pending" => sent[m].seq <= sent[k].seq
<1> DEFINE S == {m \in Inbox(a) : status[m] = "pending"} \cup Reclaimed(a)
<1>1. PICK limit \in Message : B \in Batches(S, limit)
  BY DEF Selections
<1> HIDE DEF S
<1>2. /\ B \in kSubset(Min({limit, Cardinality(S)}), S)
      /\ \A m \in B, k \in S \ B : sent[m].seq <= sent[k].seq
  BY <1>1 DEF Batches
<1>3. B \subseteq S
  BY <1>2 DEF kSubset
<1> QED
  BY <1>2, <1>3, ReclaimedInFlight DEF S

-----------------------------------------------------------------------------
(* Steps that send nothing *)

Delivered == {m \in Message : status[m] # "none"}

\* What may become of a delivery.
Move(m) ==
  \/ status'[m] = status[m]
  \/ status[m] = "acked" /\ status'[m] = "none"
  \/ status[m] = "in_flight" /\ status'[m] = "pending"
  \/ /\ status[m] \in {"pending", "in_flight"}
     /\ \/ status'[m] = "in_flight" /\ m \in given'
        \/ status'[m] = "acked" /\ m \in handled'

Counted ==
  /\ \A a \in Agent : seqCounters[a] <= Len(sent) + failures
  /\ \A m \in rows : sent[m].seq <= seqCounters[sent[m].from]

\* A step that sends nothing and, but for the messages in B, gives nothing.
Kept(B) ==
  /\ TypeOK'
  /\ sent' = sent
  /\ \A m \in Message : Move(m)
  /\ rows' \subseteq rows /\ \A m \in rows \ rows' : status'[m] = "none"
  /\ \A m \in rows' : status'[m] = "none" => status[m] = "none" \/ status[m] = "acked"
  /\ given' = given \cup B /\ handled \subseteq handled'
  /\ handling' \subseteq given' /\ toAck' \subseteq handled' /\ handled' \subseteq given'
  /\ failures' >= failures
  /\ failures' = 0 => rows' = Delivered'
  /\ Counted'

\* Rows and counters stay as they are when only deliveries with a row change,
\* to what is a delivery with a row again.
LEMMA SameRows ==
  ASSUME MInv, TypeOK', UNCHANGED <<sent, rows, seqCounters>>,
         failures' = failures \/ failures' = failures + 1,
         \A m \in Message : status'[m] # "none" <=> status[m] # "none"
  PROVE  /\ rows' \subseteq rows /\ \A m \in rows \ rows' : status'[m] = "none"
         /\ \A m \in rows' : status'[m] = "none" => status[m] = "none"
         /\ failures' >= failures
         /\ failures' = 0 => rows' = Delivered'
         /\ Counted'
<1>1. failures \in Nat /\ Len(sent) \in Nat /\ seqCounters \in [Agent -> Nat]
      /\ failures' \in Nat
  BY Types DEF MInv, TypeOK
<1>2. Delivered' = Delivered
  BY DEF Delivered
<1>3. failures = 0 => rows = Delivered
  BY DEF MInv, NoOrphans, Delivered
<1>4. Counted'
  <2>1. \A a \in Agent : seqCounters[a] \in Nat
                         /\ seqCounters[a] <= Len(sent) + failures
    BY <1>1 DEF MInv, Numbered
  <2>2. \A a \in Agent : seqCounters'[a] <= Len(sent') + failures'
    BY <1>1, <2>1
  <2> QED
    BY <2>2 DEF MInv, Numbered, Counted
<1>5. failures' >= failures /\ (failures' = 0 => failures = 0)
  BY <1>1
<1>6. rows \subseteq Message
  BY Types DEF MInv, TypeOK
<1> QED
  BY <1>2, <1>3, <1>4, <1>5, <1>6

LEMMA AgesType ==
  ASSUME TypeOK, NEW a, NEW B
  PROVE  AgesAfter(a, B) \in [Message -> 0..(Visibility + 1)]
<1>1. Visibility \in Nat /\ age \in [Message -> 0..(Visibility + 1)]
  BY Types DEF TypeOK
<1> QED
  BY <1>1 DEF AgesAfter

\* The statuses after a check that leaves what it gives with the status st.
LEMMA SelectionMoves ==
  ASSUME MInv, NEW a \in Agent, NEW B \in Selections(a),
         NEW st \in {"in_flight", "acked"},
         status' = [m \in Message |-> IF m \in B THEN st
                                      ELSE With("pending", Reclaimed(a))[m]],
         given' = given \cup B, st = "acked" => B \subseteq handled'
  PROVE  /\ B \subseteq Inbox(a) /\ B \subseteq Known
         /\ status' \in [Message -> DeliveryStatus]
         /\ \A m \in Message : Move(m)
         /\ \A m \in Message : status'[m] # "none" <=> status[m] # "none"
<1>1. status \in [Message -> DeliveryStatus]
  BY DEF MInv, TypeOK
<1>2. /\ \A m \in B : m \in Inbox(a) /\ status[m] \in {"pending", "in_flight"}
      /\ \A m \in Reclaimed(a) : status[m] = "in_flight"
  BY Selected, ReclaimedInFlight
<1>3. \A m \in Message :
        status'[m] = IF m \in B THEN st
                     ELSE IF m \in Reclaimed(a) THEN "pending" ELSE status[m]
  BY DEF With
<1>4. \A m \in Message : Move(m)
  BY <1>2, <1>3 DEF Move
<1>5. status' \in [Message -> DeliveryStatus]
  BY <1>1, <1>3 DEF DeliveryStatus
<1>6. B \subseteq Inbox(a) /\ B \subseteq Known
  BY <1>2 DEF Inbox
<1> QED
  BY <1>2, <1>3, <1>4, <1>5, <1>6

LEMMA CheckKeeps ==
  ASSUME MInv, NEW a \in Agent, Check(a)
  PROVE  \E B \in Selections(a) : Kept(B)
<1>1. PICK B \in Selections(a) :
        /\ status' = [m \in Message |-> IF m \in B THEN "in_flight"
                                        ELSE With("pending", Reclaimed(a))[m]]
        /\ age' = AgesAfter(a, B)
        /\ handling' = handling \cup B
        /\ given' = given \cup B
        /\ UNCHANGED <<sent, rows, seqCounters, toAck, handled, failures>>
  BY DEF Check
<1>2. TypeOK /\ Consumed
  BY DEF MInv
<1>3. /\ B \subseteq Known
      /\ status' \in [Message -> DeliveryStatus]
      /\ \A m \in Message : Move(m)
      /\ \A m \in Message : status'[m] # "none" <=> status[m] # "none"
  BY <1>1, SelectionMoves
<1>4. age' \in [Message -> 0..(Visibility + 1)]
  BY <1>1, <1>2, AgesType
<1>5. TypeOK'
  BY <1>1, <1>2, <1>3, <1>4 DEF TypeOK, Known
<1> QED
  BY <1>1, <1>2, <1>3, <1>5, SameRows DEF Kept, Consumed

LEMMA CheckAndAckKeeps ==
  ASSUME MInv, NEW a \in Agent, CheckAndAck(a)
  PROVE  \E B \in Selections(a) : Kept(B)
<1>1. PICK B \in Selections(a) :
        /\ status' = [m \in Message |-> IF m \in B THEN "acked"
                                        ELSE With("pending", Reclaimed(a))[m]]
        /\ age' = AgesAfter(a, B)
        /\ given' = given \cup B
        /\ handled' = handled \cup B
        /\ UNCHANGED <<sent, rows, seqCounters, handling, toAck, failures>>
  BY DEF CheckAndAck, consumers
<1>2. TypeOK /\ Consumed
  BY DEF MInv
<1>3. /\ B \subseteq Known
      /\ status' \in [Message -> DeliveryStatus]
      /\ \A m \in Message : Move(m)
      /\ \A m \in Message : status'[m] # "none" <=> status[m] # "none"
  BY <1>1, SelectionMoves
<1>4. age' \in [Message -> 0..(Visibility + 1)]
  BY <1>1, <1>2, AgesType
<1>5. TypeOK'
  BY <1>1, <1>2, <1>3, <1>4 DEF TypeOK, Known
<1> QED
  BY <1>1, <1>2, <1>3, <1>5, SameRows DEF Kept, Consumed

LEMMA HandleKeeps ==
  ASSUME MInv, NEW m \in Known, Handle(m)
  PROVE  Kept({})
<1>1. TypeOK /\ Consumed
  BY DEF MInv
<1>2. TypeOK'
  BY <1>1 DEF Handle, TypeOK, Known
<1>3. \A k \in Message : Move(k)
  BY DEF Handle, Move
<1> QED
  BY <1>1, <1>2, <1>3, SameRows DEF Handle, Kept, Consumed

LEMMA AckKeeps ==
  ASSUME MInv, NEW m \in Known, Ack(m)
  PROVE  Kept({})
<1>1. TypeOK /\ Consumed /\ m \in handled
  BY DEF MInv, Consumed, Ack
<1>2. m \in Message /\ Visibility \in Nat
  BY <1>1, Types
<1>3. /\ status' \in [Message -> DeliveryStatus]
      /\ age' \in [Message -> 0..(Visibility + 1)]
      /\ \A k \in Message : Move(k)
      /\ \A k \in Message : status'[k] # "none" <=> status[k] # "none"
  <2>1. CASE status[m] = "in_flight"
    <3>1. status' = With("acked", {m}) /\ age' = [age EXCEPT ![m] = 0]
          /\ handled' = handled
      BY <2>1 DEF Ack, history
    <3>2. age' \in [Message -> 0..(Visibility + 1)]
      BY <1>1, <1>2, <3>1 DEF TypeOK
    <3>3. /\ \A k \in Message : status'[k] = IF k = m THEN "acked" ELSE status[k]
          /\ status' \in [Message -> DeliveryStatus]
      BY <1>1, <3>1 DEF With, TypeOK, DeliveryStatus
    <3> QED
      BY <1>1, <2>1, <3>1, <3>2, <3>3 DEF Move
  <2>2. CASE status[m] # "in_flight"
    BY <1>1, <2>2 DEF Ack, TypeOK, Move
  <2> QED
    BY <2>1, <2>2
<1>4. UNCHANGED <<sent, rows, seqCounters, handling, given, handled, failures>>
      /\ toAck' = toAck \ {m}
  BY DEF Ack, history
<1>5. TypeOK'
  BY <1>1, <1>3, <1>4 DEF TypeOK, Known
<1> QED
  BY <1>1, <1>3, <1>4, <1>5, SameRows DEF Kept, Consumed

LEMMA TickKeeps ==
  ASSUME MInv, Tick
  PROVE  Kept({})
<1>1. TypeOK /\ Consumed
  BY DEF MInv
<1>2. Visibility \in Nat /\ age \in [Message -> 0..(Visibility + 1)]
  BY <1>1, Types DEF TypeOK
<1>3. age' \in [Message -> 0..(Visibility + 1)]
  BY <1>2 DEF Tick
<1>4. TypeOK'
  BY <1>1, <1>3 DEF Tick, TypeOK, Known, consumers, history
<1>5. \A k \in Message : Move(k)
  BY DEF Tick, Move
<1> QED
  BY <1>1, <1>4, <1>5, SameRows DEF Tick, Kept, Consumed, consumers, history

LEMMA DeathKeeps ==
  ASSUME MInv, NEW a \in Agent, ConsumerDies(a)
  PROVE  Kept({})
<1>1. TypeOK /\ Consumed
  BY DEF MInv
<1>2. failures' \in 0..MaxFailures
  BY <1>1, Types DEF ConsumerDies
<1>3. TypeOK'
  BY <1>1, <1>2 DEF ConsumerDies, TypeOK, Known, history
<1>4. \A k \in Message : Move(k)
  BY DEF ConsumerDies, Move
<1> QED
  BY <1>1, <1>3, <1>4, SameRows DEF ConsumerDies, Kept, Consumed, history

LEMMA ThrowKeeps ==
  ASSUME MInv, NEW a \in Agent, SendThrows(a)
  PROVE  Kept({})
<1>1. TypeOK /\ Consumed /\ Numbered /\ NoOrphans
  BY DEF MInv
<1>2. /\ failures \in Nat /\ failures' = failures + 1 /\ Len(sent) \in Nat
      /\ Len(sent) + failures' <= MaxMessages + MaxFailures
      /\ failures' \in 0..MaxFailures
      /\ seqCounters \in [Agent -> Nat]
  BY <1>1, Types DEF SendThrows, TypeOK
<1>3. /\ \A b \in Agent : /\ seqCounters'[b] \in Nat
                          /\ seqCounters'[b] <= Len(sent) + failures'
                          /\ seqCounters[b] <= seqCounters'[b]
      /\ seqCounters' \in [Agent -> Nat]
  BY <1>1, <1>2 DEF SendThrows, Numbered
<1>4. seqCounters' \in [Agent -> 0..(MaxMessages + MaxFailures)]
  BY <1>1, <1>2, <1>3, Types
<1>5. TypeOK'
  BY <1>1, <1>2, <1>4 DEF SendThrows, TypeOK, Known, consumers, history
<1>6. Counted'
  <2> rows \subseteq Known /\ \A m \in Known : sent[m] \in Sent
    BY <1>1, Types DEF TypeOK
  <2> MaxMessages \in Nat /\ MaxFailures \in Nat
    BY <1>1, Types
  <2>1. \A m \in rows : /\ sent[m].from \in Agent /\ sent[m].seq \in Nat
                        /\ sent[m].seq <= seqCounters[sent[m].from]
    BY <1>1 DEF Numbered, Sent
  <2>2. \A m \in rows : sent[m].seq <= seqCounters'[sent[m].from]
    BY <1>2, <1>3, <2>1
  <2> QED
    BY <1>3, <2>2 DEF SendThrows, Counted
<1>7. \A k \in Message : Move(k)
  BY DEF SendThrows, Move
<1> QED
  BY <1>1, <1>2, <1>5, <1>6, <1>7 DEF SendThrows, Kept, Consumed, consumers, history

\* purgeAcked(): what it takes away is acknowledged.
LEMMA PurgeMoves ==
  ASSUME MInv, NEW a \in Agent, NEW p,
         status' = With("none", {m \in Inbox(a) : m <= p /\ status[m] = "acked"})
  PROVE  /\ status' \in [Message -> DeliveryStatus]
         /\ \A m \in Message : Move(m)
         /\ \A m \in Message : status'[m] = "none" => status[m] \in {"none", "acked"}
BY DEF With, MInv, TypeOK, DeliveryStatus, Move

LEMMA PurgeKeeps ==
  ASSUME MInv, NEW a \in Agent, NEW p \in Known, PurgeAcked(a, p)
  PROVE  Kept({})
<1>1. TypeOK /\ Consumed /\ Numbered /\ NoOrphans
  BY DEF MInv
<1>2. /\ status' \in [Message -> DeliveryStatus]
      /\ \A m \in Message : Move(m)
      /\ \A m \in Message : status'[m] = "none" => status[m] \in {"none", "acked"}
      /\ rows' = rows \ {m \in rows : m <= p /\ status'[m] = "none"}
      /\ UNCHANGED <<sent, age, seqCounters, handling, toAck, given, handled, failures>>
  BY PurgeMoves DEF PurgeAcked, consumers, history
<1>3. TypeOK'
  BY <1>1, <1>2 DEF TypeOK, Known
<1>4. Counted'
  BY <1>1, <1>2 DEF Numbered, Counted
<1>5. rows \subseteq Message /\ failures \in Nat
  BY <1>1, Types DEF TypeOK
<1>6. ASSUME failures' = 0
      PROVE  rows' = Delivered'
  <2>1. rows = Delivered
    BY <1>1, <1>2, <1>6 DEF NoOrphans, Delivered
  <2>2. ASSUME NEW m \in Message
        PROVE  status'[m] = IF m \in Inbox(a) /\ m <= p /\ status[m] = "acked"
                            THEN "none" ELSE status[m]
    BY DEF PurgeAcked, With
  <2>3. ASSUME NEW m \in Message
        PROVE  m \in rows' <=> status'[m] # "none"
    <3>1. CASE m \in Inbox(a) /\ m <= p /\ status[m] = "acked"
      BY <1>2, <2>1, <2>2, <3>1 DEF Delivered
    <3>2. CASE ~(m \in Inbox(a) /\ m <= p /\ status[m] = "acked")
      BY <1>2, <2>1, <2>2, <3>2 DEF Delivered
    <3> QED
      BY <3>1, <3>2
  <2> QED
    BY <1>2, <1>5, <2>3 DEF Delivered
<1> QED
  BY <1>1, <1>2, <1>3, <1>4, <1>5, <1>6 DEF Kept, Consumed

\* initSeqCounters(): no counter is behind the rows, nor ahead of what was sent.
LEMMA InitialCounterBounds ==
  ASSUME TypeOK, Numbered, NEW a \in Agent
  PROVE  /\ InitialCounter(a) \in Nat /\ InitialCounter(a) <= Len(sent) + failures
         /\ \A m \in rows : sent[m].from = a => sent[m].seq <= InitialCounter(a)
<1> DEFINE K == {k \in rows : sent[k].from = a}
           S == {0} \cup {sent[m].seq : m \in K}
           n == Len(sent) + failures
<1>1. n \in Nat /\ rows \subseteq Known /\ \A m \in rows : sent[m].seq \in Nat
  BY SMTT(30), Types DEF TypeOK, Sent
<1>2. \A x \in S : x \in Nat /\ x <= n
  BY <1>1 DEF Numbered
<1>3. S \in SUBSET Nat /\ S # {} /\ InitialCounter(a) = Max(S)
  BY <1>2 DEF InitialCounter
<1>4. \A m \in rows : sent[m].from = a => sent[m].seq \in S
  OBVIOUS
<1> HIDE DEF S
<1>5. Max(S) \in S /\ \A x \in S : x <= Max(S)
  BY <1>1, <1>2, <1>3, LargestNumber
<1> QED
  BY <1>2, <1>3, <1>4, <1>5

LEMMA ReopenKeeps ==
  ASSUME MInv, Reopen, status' \in [Message -> DeliveryStatus],
         \A m \in Message : Move(m),
         \A m \in Message : status'[m] = "none" => status[m] \in {"none", "acked"}
  PROVE  Kept({})
<1>1. TypeOK /\ Consumed /\ Numbered
  BY DEF MInv
<1>2. /\ failures \in Nat /\ failures' = failures + 1 /\ Len(sent) \in Nat
      /\ failures' \in 0..MaxFailures
      /\ MaxMessages \in Nat /\ MaxFailures \in Nat /\ Len(sent) <= MaxMessages
  BY <1>1, Types DEF Reopen, TypeOK
<1>3. \A a \in Agent :
        /\ seqCounters'[a] \in 0..(MaxMessages + MaxFailures)
        /\ seqCounters'[a] <= Len(sent) + failures'
        /\ \A m \in rows : sent[m].from = a => sent[m].seq <= seqCounters'[a]
  <2>1. ASSUME NEW a \in Agent
        PROVE  /\ seqCounters'[a] = InitialCounter(a)
               /\ InitialCounter(a) \in Nat
               /\ InitialCounter(a) <= Len(sent) + failures
               /\ \A m \in rows : sent[m].from = a => sent[m].seq <= InitialCounter(a)
    BY <1>1, InitialCounterBounds DEF Reopen
  <2> QED
    BY <1>2, <2>1
<1>4. seqCounters' \in [Agent -> 0..(MaxMessages + MaxFailures)]
  BY <1>3 DEF Reopen
<1>5. TypeOK'
  BY <1>1, <1>2, <1>4 DEF Reopen, TypeOK, Known, history
<1>6. Counted'
  <2>1. \A m \in rows : sent[m].from \in Agent
    BY <1>1, Types DEF TypeOK, Sent
  <2> QED
    BY <1>3, <2>1 DEF Reopen, Counted
<1>7. rows \subseteq Message
  BY <1>1, Types DEF TypeOK
<1> QED
  BY <1>1, <1>2, <1>5, <1>6, <1>7 DEF Reopen, Kept, Consumed, history

-----------------------------------------------------------------------------
(* The invariant is kept *)

\* A message given is given after those that its sender sent before it: as
\* long as one of them waits, it has a row and a smaller number.
LEMMA OrderKept ==
  ASSUME MInv, NEW a \in Agent, NEW B \in Selections(a),
         sent' = sent, given' = given \cup B
  PROVE  GivenInOrder'
<1>1. TypeOK /\ Consumed /\ Numbered /\ NeverLost /\ GivenInOrder
  BY DEF MInv
<1>2. SUFFICES ASSUME NEW m \in Known, NEW n \in Known,
                      sent[m].from = sent[n].from, sent[m].to = sent[n].to,
                      m < n, n \in B, m \notin given'
               PROVE  FALSE
  BY <1>1 DEF GivenInOrder, Known
<1>3. n \in Inbox(a) /\ m \in Inbox(a) \ B
  BY <1>2, Selected DEF Inbox
<1>4. m \in rows /\ status[m] = "pending"
  BY <1>1, <1>2 DEF Consumed, NeverLost
<1>5. sent[m].seq < sent[n].seq
  BY <1>1, <1>2, <1>4 DEF Numbered
<1>6. sent[n].seq <= sent[m].seq
  BY <1>2, <1>3, <1>4, Selected
<1>7. sent[n].seq \in Nat /\ sent[m].seq \in Nat
  BY SMTT(30), <1>1, Types DEF Sent
<1> QED
  BY <1>5, <1>6, <1>7

LEMMA KeptIsInvariant ==
  ASSUME MInv, NEW B, Kept(B), B = {} \/ \E a \in Agent : B \in Selections(a)
  PROVE  MInv'
<1>1. TypeOK /\ TypeOK' /\ Consumed /\ Numbered /\ NeverLost /\ NoOrphans
      /\ GivenInOrder
  BY DEF MInv, Kept
<1>2. /\ sent' = sent /\ Known' = Known /\ Known \subseteq Message
      /\ \A m \in Known : Move(m)
      /\ given' = given \cup B /\ handled \subseteq handled'
      /\ rows \subseteq Known
  BY <1>1, Types DEF Kept, Known, TypeOK
<1>3. Consumed'
  <2>1. \A m \in Known : status'[m] = "in_flight" => m \in given'
    BY <1>1, <1>2 DEF Consumed, Move
  <2> QED
    BY <1>2, <2>1 DEF Kept, Consumed
<1>4. Numbered'
  <2>1. failures' \in Nat /\ failures \in Nat /\ failures' >= failures /\ Len(sent) \in Nat
        /\ \A m \in Known : sent[m].seq \in Nat
    BY SMTT(30), <1>1, Types DEF Kept, TypeOK, Sent
  <2>2. \A m \in Known : sent[m].seq <= Len(sent) + failures'
    BY <1>1, <2>1 DEF Numbered
  <2>3. \A m \in rows', n \in Known :
          m < n /\ sent[m].from = sent[n].from => sent[m].seq < sent[n].seq
    BY <1>1 DEF Numbered, Kept
  <2> QED
    BY <1>2, <2>2, <2>3 DEF Kept, Counted, Numbered
<1>5. NeverLost'
  <2>1. ASSUME NEW m \in Known, m \notin handled'
        PROVE  m \in rows' /\ status'[m] \in {"pending", "in_flight"}
    <3>1. m \in rows /\ status[m] \in {"pending", "in_flight"}
      BY <1>1, <1>2, <2>1 DEF NeverLost
    <3>2. status'[m] \in {"pending", "in_flight"}
      BY <1>2, <2>1, <3>1 DEF Move
    <3> QED
      BY <3>1, <3>2 DEF Kept
  <2> QED
    BY <1>2, <2>1 DEF NeverLost
<1>6. NoOrphans'
  <2>1. ASSUME NEW m \in Message, status'[m] # "none"
        PROVE  m \in rows'
    <3>1. status[m] # "none"
      BY <2>1 DEF Kept, Move
    <3>2. m \in rows
      BY <1>1, <3>1 DEF NoOrphans
    <3> QED
      BY <2>1, <3>2 DEF Kept
  <2>2. ASSUME NEW m \in rows', status'[m] = "none"
        PROVE  m \in handled'
    <3>1. m \in Known /\ status[m] \in {"none", "acked"}
      BY <1>2, <2>2 DEF Kept
    <3>2. m \in handled
      BY <1>1, <3>1 DEF NeverLost
    <3> QED
      BY <1>2, <3>2
  <2>3. failures' = 0 => rows' = {m \in Message : status'[m] # "none"}
    BY DEF Kept, Delivered
  <2>4. rows' \subseteq Message
    BY <1>2 DEF Kept
  <2> QED
    BY <2>1, <2>2, <2>3, <2>4 DEF NoOrphans
<1>7. GivenInOrder'
  <2>1. CASE B = {}
    BY <1>1, <1>2, <2>1 DEF GivenInOrder
  <2>2. ASSUME NEW a \in Agent, B \in Selections(a)
        PROVE  GivenInOrder'
    BY <1>2, <2>2, OrderKept
  <2> QED
    BY <2>1, <2>2
<1> QED
  BY <1>1, <1>3, <1>4, <1>5, <1>6, <1>7 DEF MInv

\* Sending a message changes nothing of the others, but that the cap may take
\* acknowledged ones away.
NewMessage == Len(sent) + 1

LEMMA SendFacts ==
  ASSUME MInv, NEW from \in Agent, NEW to \in Agent, Send(from, to)
  PROVE  /\ NewMessage \in Message /\ NewMessage \notin Known
         /\ Known' = Known \cup {NewMessage} /\ Len(sent') = NewMessage
         /\ \A k \in Known : sent'[k] = sent[k]
         /\ sent'[NewMessage] = [from |-> from, to |-> to, seq |-> seqCounters[from] + 1]
         /\ status'[NewMessage] = "pending"
         /\ \A k \in Message \ {NewMessage} :
              status'[k] = status[k] \/ (status[k] = "acked" /\ status'[k] = "none")
         /\ NewMessage \in rows' /\ rows' \subseteq rows \cup {NewMessage}
         /\ \A k \in rows : k \in rows' \/ status'[k] = "none"
         /\ seqCounters' = [seqCounters EXCEPT ![from] = @ + 1]
         /\ UNCHANGED <<age, handling, toAck, given, handled, failures>>
<1>1. TypeOK
  BY DEF MInv
<1>2. /\ sent \in Seq(Sent) /\ Len(sent) \in Nat /\ NewMessage <= MaxMessages
      /\ seqCounters \in [Agent -> Nat] /\ status \in [Message -> DeliveryStatus]
  BY SMTT(30), <1>1, Types DEF TypeOK, Send, NewMessage
<1>3. /\ NewMessage \in Message /\ NewMessage \notin Known
      /\ MaxMessages \in Nat
  BY <1>1, <1>2, Types DEF NewMessage, Message, Known
<1> DEFINE r == [from |-> from, to |-> to, seq |-> seqCounters[from] + 1]
           gone == BeyondCap(to)
           S == {k \in Inbox(to) \cap rows : status'[k] = "none"}
<1>4. /\ sent' = Append(sent, r)
      /\ status' = [With("none", gone) EXCEPT ![NewMessage] = "pending"]
      /\ rows' = (rows \cup {NewMessage}) \ Oldest(S, Cardinality(gone))
      /\ seqCounters' = [seqCounters EXCEPT ![from] = seqCounters[from] + 1]
      /\ UNCHANGED <<age, handling, toAck, given, handled, failures>>
  BY DEF Send, NewMessage, consumers, history
<1>5. \A k \in gone : k \in Known /\ status[k] = "acked"
  BY BeyondCapAcked DEF Inbox
<1>6. Oldest(S, Cardinality(gone)) \subseteq S
  BY OldestOf
<1> HIDE DEF r
<1>7. /\ Len(sent') = NewMessage /\ sent'[NewMessage] = r
      /\ \A k \in 1..Len(sent) : sent'[k] = sent[k]
  BY <1>2, <1>4 DEF NewMessage
<1>8. Known' = Known \cup {NewMessage}
  BY <1>2, <1>7 DEF Known, NewMessage
<1>9. \A k \in Message : status'[k] = IF k = NewMessage THEN "pending"
                                      ELSE IF k \in gone THEN "none" ELSE status[k]
  BY <1>3, <1>4 DEF With
<1>10. /\ NewMessage \in rows' /\ rows' \subseteq rows \cup {NewMessage}
       /\ \A k \in rows : k \in rows' \/ status'[k] = "none"
  BY <1>3, <1>4, <1>6 DEF Inbox
<1> QED
  BY <1>2, <1>3, <1>4, <1>5, <1>7, <1>8, <1>9, <1>10 DEF Known, r

\* While nothing fails, the cap deletes exactly the messages whose deliveries
\* it deleted.
LEMMA CapTakesBoth ==
  ASSUME MInv, NEW from \in Agent, NEW to \in Agent, Send(from, to), failures = 0
  PROVE  rows' = Delivered'
<1>1. TypeOK /\ NoOrphans
  BY DEF MInv
<1>2. rows = Delivered
  BY <1>1 DEF NoOrphans, Delivered
<1>3. NewMessage \in Message /\ NewMessage \notin Known
      /\ rows \subseteq Known /\ Known \subseteq Message
  BY <1>1, SendFacts, Types DEF TypeOK
<1> DEFINE gone == BeyondCap(to)
           S == {k \in Inbox(to) \cap rows : status'[k] = "none"}
<1>4. /\ status' = [With("none", gone) EXCEPT ![NewMessage] = "pending"]
      /\ rows' = (rows \cup {NewMessage}) \ Oldest(S, Cardinality(gone))
  BY DEF Send, NewMessage
<1>5. \A k \in gone : k \in Inbox(to) /\ k \in Known /\ status[k] = "acked"
  BY BeyondCapAcked DEF Inbox
<1> HIDE DEF gone
<1>6. \A k \in Message : status'[k] = IF k = NewMessage THEN "pending"
                                      ELSE IF k \in gone THEN "none" ELSE status[k]
  BY <1>3, <1>4 DEF With
<1>7. S = gone
  <2>1. ASSUME NEW k \in S
        PROVE  k \in gone
    BY <1>2, <1>3, <1>6 DEF Delivered
  <2>2. ASSUME NEW k \in gone
        PROVE  k \in S
    BY <1>2, <1>3, <1>5, <1>6 DEF Delivered
  <2> QED
    BY <2>1, <2>2
<1>8. Oldest(S, Cardinality(gone)) = gone
  <2>1. gone \in SUBSET Known /\ Known \subseteq Nat /\ IsFiniteSet(Known)
    BY <1>1, <1>5, Types
  <2>2. gone \in SUBSET Nat /\ IsFiniteSet(gone)
    BY <2>1, FS_Subset
  <2> QED
    BY <1>7, <2>2, OldestAreAll
<1>9. rows' = (rows \cup {NewMessage}) \ gone
  BY <1>4, <1>8
<1> QED
  BY <1>2, <1>3, <1>5, <1>6, <1>9 DEF Delivered

LEMMA SendIsInvariant ==
  ASSUME MInv, NEW from \in Agent, NEW to \in Agent, Send(from, to)
  PROVE  MInv'
<1>1. TypeOK /\ Consumed /\ Numbered /\ NeverLost /\ NoOrphans /\ GivenInOrder
  BY DEF MInv
<1> DEFINE m == NewMessage
<1>2. /\ m \in Message /\ m \notin Known /\ m = Len(sent) + 1
      /\ Known' = Known \cup {m} /\ Len(sent') = m
      /\ \A k \in Known : sent'[k] = sent[k]
      /\ sent'[m] = [from |-> from, to |-> to, seq |-> seqCounters[from] + 1]
      /\ status'[m] = "pending"
      /\ \A k \in Message \ {m} :
           status'[k] = status[k] \/ (status[k] = "acked" /\ status'[k] = "none")
      /\ m \in rows' /\ rows' \subseteq rows \cup {m}
      /\ \A k \in rows : k \in rows' \/ status'[k] = "none"
      /\ seqCounters' = [seqCounters EXCEPT ![from] = @ + 1]
      /\ UNCHANGED <<age, handling, toAck, given, handled, failures>>
  BY SendFacts DEF NewMessage
<1> HIDE DEF m
<1>3. /\ Len(sent) \in Nat /\ failures \in Nat /\ seqCounters \in [Agent -> Nat]
      /\ \A k \in Known : sent[k].seq \in Nat /\ sent[k].from \in Agent /\ k \in Nat
                          /\ k < m
      /\ rows \subseteq Known /\ Known \subseteq Message
      /\ m <= MaxMessages /\ MaxMessages \in Nat /\ MaxFailures \in Nat
      /\ failures <= MaxFailures /\ sent \in Seq(Sent)
  <2>1. /\ Len(sent) \in Nat /\ failures \in Nat /\ MaxMessages \in Nat
        /\ MaxFailures \in Nat /\ failures <= MaxFailures /\ sent \in Seq(Sent)
        /\ Known \subseteq Message
        /\ \A k \in Known : sent[k] \in Sent
    BY <1>1, Types
  <2>2. \A k \in Known : sent[k].seq \in Nat /\ sent[k].from \in Agent
    BY <2>1 DEF Sent
  <2>3. \A k \in Known : k \in Nat /\ k < m
    BY <1>2, <2>1 DEF Known
  <2>4. m <= MaxMessages
    BY <1>2, <2>1 DEF Message
  <2>5. rows \subseteq Known /\ seqCounters \in [Agent -> Nat]
    BY <1>1, <2>1 DEF TypeOK
  <2> QED
    BY <2>1, <2>2, <2>3, <2>4, <2>5
<1>4. /\ seqCounters[from] \in Nat /\ seqCounters[from] <= Len(sent) + failures
      /\ seqCounters[from] + 1 \in 1..(MaxMessages + MaxFailures)
      /\ seqCounters[from] + 1 <= m + failures
  BY <1>1, <1>2, <1>3 DEF Numbered
<1>5. TypeOK'
  <2>1. sent' \in Seq(Sent)
    <3>1. sent' = Append(sent, [from |-> from, to |-> to, seq |-> seqCounters[from] + 1])
      BY DEF Send
    <3>2. [from |-> from, to |-> to, seq |-> seqCounters[from] + 1] \in Sent
      BY <1>4 DEF Sent
    <3> QED
      BY <1>3, <3>1, <3>2
  <2>2. status' \in [Message -> DeliveryStatus]
    <3>1. status' = [With("none", BeyondCap(to)) EXCEPT ![m] = "pending"]
      BY DEF Send, m, NewMessage
    <3> QED
      BY <1>1, <3>1 DEF With, TypeOK, DeliveryStatus
  <2>3. seqCounters' \in [Agent -> 0..(MaxMessages + MaxFailures)]
    BY <1>1, <1>2, <1>4 DEF TypeOK
  <2>4. rows' \subseteq Known'
    BY <1>2, <1>3
  <2> QED
    BY <1>1, <1>2, <1>3, <2>1, <2>2, <2>3, <2>4 DEF TypeOK, Sent
<1>6. Consumed'
  BY <1>1, <1>2, <1>3 DEF Consumed
<1>7. Numbered'
  <2>1. \A b \in Agent : seqCounters'[b] <= m + failures /\ seqCounters[b] <= seqCounters'[b]
    BY <1>1, <1>2, <1>3, <1>4 DEF Numbered
  <2>2. \A k \in Known' : sent'[k].seq <= m + failures
    <3>1. ASSUME NEW k \in Known
          PROVE  sent'[k].seq <= m + failures
      <4>1. sent[k].seq \in Nat /\ sent[k].seq <= Len(sent) + failures
        BY <1>1, <1>3 DEF Numbered
      <4> QED
        BY <1>2, <1>3, <4>1
    <3>2. sent'[m].seq <= m + failures
      BY <1>2, <1>4
    <3> QED
      BY <1>2, <3>1, <3>2
  <2>3. \A k \in rows' : sent'[k].seq <= seqCounters'[sent'[k].from]
    <3>1. ASSUME NEW k \in rows
          PROVE  sent'[k].seq <= seqCounters'[sent'[k].from]
      <4>1. sent'[k] = sent[k] /\ sent[k].seq \in Nat /\ sent[k].from \in Agent
            /\ sent[k].seq <= seqCounters[sent[k].from]
        BY <1>1, <1>2, <1>3 DEF Numbered
      <4> QED
        BY <1>2, <1>3, <2>1, <4>1
    <3>2. sent'[m].seq <= seqCounters'[sent'[m].from]
      BY <1>2, <1>3, <1>4
    <3> QED
      BY <1>2, <3>1, <3>2
  <2>4. ASSUME NEW k \in rows', NEW n \in Known', k < n, sent'[k].from = sent'[n].from
        PROVE  sent'[k].seq < sent'[n].seq
    <3>1. CASE n \in Known
      <4>1. k # m
        BY <1>2, <1>3, <2>4, <3>1
      <4>2. k \in rows
        BY <1>2, <4>1
      <4> QED
        BY <1>1, <1>2, <1>3, <2>4, <3>1, <4>2 DEF Numbered
    <3>2. CASE n = m
      <4>1. k \in rows
        BY <1>2, <1>3, <2>4, <3>2
      <4>2. sent'[k] = sent[k] /\ sent[k].from = from /\ sent[k].seq \in Nat
            /\ sent[k].seq <= seqCounters[from]
        BY <1>1, <1>2, <1>3, <2>4, <3>2, <4>1 DEF Numbered
      <4> QED
        BY <1>2, <1>4, <3>2, <4>2
    <3> QED
      BY <1>2, <3>1, <3>2
  <2> QED
    BY <1>2, <2>1, <2>2, <2>3, <2>4 DEF Numbered
<1>8. NeverLost'
  <2>1. ASSUME NEW k \in Known, k \notin handled
        PROVE  k \in rows' /\ status'[k] \in {"pending", "in_flight"}
    <3>1. k \in rows /\ status[k] \in {"pending", "in_flight"} /\ k \in Message \ {m}
      BY <1>1, <1>2, <1>3, <2>1 DEF NeverLost
    <3>2. status'[k] = status[k]
      BY <1>2, <3>1
    <3> QED
      BY <1>2, <3>1, <3>2
  <2> QED
    BY <1>2, <2>1 DEF NeverLost
<1>9. NoOrphans'
  <2>1. ASSUME NEW k \in Message, status'[k] # "none"
        PROVE  k \in rows'
    <3>1. CASE k # m
      <4>1. status[k] # "none"
        BY <1>2, <2>1, <3>1
      <4>2. k \in rows
        BY <1>1, <4>1 DEF NoOrphans
      <4> QED
        BY <1>2, <2>1, <4>2
    <3> QED
      BY <1>2, <3>1
  <2>2. ASSUME NEW k \in rows', status'[k] = "none"
        PROVE  k \in handled'
    <3>1. k \in rows /\ k \in Message \ {m}
      BY <1>2, <1>3, <2>2
    <3>2. status[k] \in {"none", "acked"}
      BY <1>2, <2>2, <3>1
    <3> QED
      BY <1>1, <1>2, <1>3, <3>1, <3>2 DEF NeverLost
  <2>3. failures' = 0 => rows' = {k \in Message : status'[k] # "none"}
    BY <1>2, CapTakesBoth DEF Delivered
  <2>4. rows' \subseteq Message
    BY <1>2, <1>3
  <2> QED
    BY <2>1, <2>2, <2>3, <2>4 DEF NoOrphans
<1>10. GivenInOrder'
  <2>1. m \notin given
    BY <1>1, <1>2 DEF TypeOK
  <2>2. ASSUME NEW k \in Known', NEW n \in Known',
               sent'[k].from = sent'[n].from, sent'[k].to = sent'[n].to,
               k < n, n \in given'
        PROVE  k \in given'
    <3>1. n \in Known
      BY <1>2, <2>1, <2>2
    <3>2. k # m
      BY <1>2, <1>3, <2>2, <3>1
    <3> QED
      BY <1>1, <1>2, <2>2, <3>1, <3>2 DEF GivenInOrder
  <2> QED
    BY <2>2 DEF GivenInOrder
<1> QED
  BY <1>5, <1>6, <1>7, <1>8, <1>9, <1>10 DEF MInv

LEMMA InitMInv ==
  ASSUME Init
  PROVE  MInv
<1> USE DEF Init
<1>1. Known = {} /\ Len(sent) = 0
  BY DEF Known
<1>2. TypeOK
  <2>1. sent \in Seq([from : Agent, to : Agent, seq : 1..(MaxMessages + MaxFailures)])
    OBVIOUS
  <2> QED
    BY <1>1, <2>1, MailboxAssumption DEF TypeOK, DeliveryStatus
<1>3. Numbered /\ NeverLost /\ GivenInOrder /\ Consumed
  BY <1>1 DEF Numbered, NeverLost, GivenInOrder, Consumed
<1>4. NoOrphans
  BY DEF NoOrphans
<1> QED
  BY <1>2, <1>3, <1>4 DEF MInv

LEMMA PurgeInterruptedKeeps ==
  ASSUME MInv, NEW a \in Agent, NEW p \in Known, PurgeInterrupted(a, p)
  PROVE  Kept({})
<1>1. /\ status' \in [Message -> DeliveryStatus]
      /\ \A m \in Message : Move(m)
      /\ \A m \in Message : status'[m] = "none" => status[m] \in {"none", "acked"}
  BY PurgeMoves DEF PurgeInterrupted
<1> QED
  BY <1>1, ReopenKeeps DEF PurgeInterrupted

LEMMA RestartKeeps ==
  ASSUME MInv, Restart
  PROVE  Kept({})
<1>1. /\ Reopen /\ status' = status /\ status \in [Message -> DeliveryStatus]
  BY DEF Restart, MInv, TypeOK
<1>2. \A m \in Message : Move(m)
  BY <1>1 DEF Move
<1> QED
  BY <1>1, <1>2, ReopenKeeps

\* A reply is sent between agents.
LEMMA ReplyIsSend ==
  ASSUME TypeOK, NEW m \in Known, Reply(m)
  PROVE  \E from, to \in Agent : Send(from, to)
<1>1. sent[m].to \in Agent /\ sent[m].from \in Agent
  BY Types DEF Sent
<1> QED
  BY <1>1 DEF Reply

LEMMA NextMInv ==
  ASSUME MInv, [Next]_vars
  PROVE  MInv'
<1>1. TypeOK
  BY DEF MInv
<1>2. ASSUME NEW m \in Known, Reply(m) \/ Handle(m) \/ Ack(m)
      PROVE  MInv'
  BY <1>1, <1>2, ReplyIsSend, SendIsInvariant, HandleKeeps, AckKeeps, KeptIsInvariant
<1>3. ASSUME NEW a \in Agent, Check(a) \/ CheckAndAck(a)
      PROVE  MInv'
  BY <1>3, CheckKeeps, CheckAndAckKeeps, KeptIsInvariant
<1>4. ASSUME NEW a \in Agent,
             \/ \E p \in Known : PurgeAcked(a, p) \/ PurgeInterrupted(a, p)
             \/ SendThrows(a) \/ ConsumerDies(a)
      PROVE  MInv'
  BY <1>4, PurgeKeeps, PurgeInterruptedKeeps, ThrowKeeps, DeathKeeps, KeptIsInvariant
<1>5. CASE Tick \/ Restart
  BY <1>5, TickKeeps, RestartKeeps, KeptIsInvariant
<1>6. CASE UNCHANGED vars
  BY <1>6 DEF vars, consumers, history, MInv, TypeOK, Consumed, Numbered,
              NeverLost, NoOrphans, GivenInOrder, Known
<1> QED
  BY <1>2, <1>3, <1>4, <1>5, <1>6, SendIsInvariant DEF Next

-----------------------------------------------------------------------------
(* The promise *)

Waiting == {m \in Known : status[m] \in {"pending", "in_flight"}}
Settled == {m \in Known : status[m] \in {"none", "acked"}}

LEMMA InitImplements == Init => Promise!Init
BY DEF Init, Promise!Init, Known

\* A step that settles nothing and gives nothing does not show.
LEMMA Stutters ==
  ASSUME MInv, sent' = sent, given' = given,
         \A m \in Known : Move(m) /\ (status[m] \in {"pending", "in_flight"}
                                        => status'[m] \in {"pending", "in_flight"})
  PROVE  UNCHANGED Promise!vars
<1>1. Known' = Known
  BY DEF Known
<1>2. ASSUME NEW m \in Known
      PROVE  /\ status'[m] \in {"pending", "in_flight"} <=> status[m] \in {"pending", "in_flight"}
             /\ status'[m] \in {"none", "acked"} <=> status[m] \in {"none", "acked"}
  BY DEF Move
<1> QED
  BY <1>1, <1>2 DEF Promise!vars

LEMMA SendAccepts ==
  ASSUME MInv, NEW from \in Agent, NEW to \in Agent, Send(from, to)
  PROVE  Promise!Next
<1>1. PICK n \in Message :
        /\ n \notin Known /\ Known' = Known \cup {n}
        /\ status'[n] = "pending"
        /\ \A k \in Message \ {n} :
             status'[k] = status[k] \/ (status[k] = "acked" /\ status'[k] = "none")
        /\ given' = given
  BY SendFacts
<1>2. Known \subseteq Message
  BY Types DEF MInv
<1>3. Waiting' = Waiting \cup {n}
  BY <1>1, <1>2 DEF Waiting
<1>4. Settled' = Settled
  BY <1>1, <1>2 DEF Settled
<1>5. Promise!Accept(n)
  BY <1>1, <1>3, <1>4 DEF Promise!Accept, Waiting, Settled
<1> QED
  BY <1>5 DEF Promise!Next

LEMMA CheckGives ==
  ASSUME MInv, NEW a \in Agent, Check(a)
  PROVE  Promise!Next
<1>1. PICK B \in Selections(a) :
        /\ status' = [m \in Message |-> IF m \in B THEN "in_flight"
                                        ELSE With("pending", Reclaimed(a))[m]]
        /\ given' = given \cup B /\ sent' = sent
  BY DEF Check
<1>2. /\ Known' = Known /\ Known \subseteq Message
      /\ \A m \in B : m \in Waiting
      /\ \A m \in Reclaimed(a) : m \in Waiting
  BY <1>1, Selected, ReclaimedInFlight, Types DEF MInv, Waiting, Inbox, Known
<1>3. \A m \in Message :
        status'[m] = IF m \in B THEN "in_flight"
                     ELSE IF m \in Reclaimed(a) THEN "pending" ELSE status[m]
  BY <1>1 DEF With
<1>4. Waiting' = Waiting
  BY <1>2, <1>3 DEF Waiting
<1>5. Settled' = Settled
  BY <1>2, <1>3 DEF Waiting, Settled
<1>6. Promise!Give(B)
  BY <1>1, <1>2, <1>4, <1>5 DEF Promise!Give, Waiting, Settled
<1>7. B \in SUBSET Message
  BY <1>2 DEF Waiting
<1> QED
  BY <1>6, <1>7 DEF Promise!Next

LEMMA CheckAndAckHandsOver ==
  ASSUME MInv, NEW a \in Agent, CheckAndAck(a)
  PROVE  Promise!Next
<1>1. PICK B \in Selections(a) :
        /\ status' = [m \in Message |-> IF m \in B THEN "acked"
                                        ELSE With("pending", Reclaimed(a))[m]]
        /\ given' = given \cup B /\ sent' = sent
  BY DEF CheckAndAck
<1>2. /\ Known' = Known /\ Known \subseteq Message
      /\ \A m \in B : m \in Waiting
      /\ \A m \in Reclaimed(a) : m \in Waiting
  BY <1>1, Selected, ReclaimedInFlight, Types DEF MInv, Waiting, Inbox, Known
<1>3. \A m \in Message :
        status'[m] = IF m \in B THEN "acked"
                     ELSE IF m \in Reclaimed(a) THEN "pending" ELSE status[m]
  BY <1>1 DEF With
<1>4. Waiting' = Waiting \ B
  BY <1>2, <1>3 DEF Waiting
<1>5. Settled' = Settled \cup B
  BY <1>2, <1>3 DEF Waiting, Settled
<1>6. Promise!HandOver(B)
  BY <1>1, <1>2, <1>4, <1>5 DEF Promise!HandOver, Waiting, Settled
<1>7. B \in SUBSET Message
  BY <1>2 DEF Waiting
<1> QED
  BY <1>6, <1>7 DEF Promise!Next

LEMMA AckSettles ==
  ASSUME MInv, NEW m \in Known, Ack(m)
  PROVE  [Promise!Next]_(Promise!vars)
<1>1. /\ m \in Message /\ Known \subseteq Message /\ Known' = Known
      /\ sent' = sent /\ given' = given
  BY Types DEF MInv, Ack, history, Known
<1>2. CASE status[m] = "in_flight"
  <2>1. m \in given /\ m \in Waiting
    BY <1>2 DEF MInv, Consumed, Waiting
  <2>2. \A k \in Message : status'[k] = IF k = m THEN "acked" ELSE status[k]
    BY <1>2 DEF Ack, With
  <2>3. Waiting' = Waiting \ {m} /\ Settled' = Settled \cup {m}
    BY <1>1, <2>1, <2>2 DEF Waiting, Settled
  <2>4. Promise!Settle({m})
    BY <1>1, <2>1, <2>3 DEF Promise!Settle, Waiting, Settled
  <2>5. {m} \in SUBSET Message
    BY <1>1
  <2> QED
    BY <2>4, <2>5 DEF Promise!Next
<1>3. CASE status[m] # "in_flight"
  <2>1. status' = status
    BY <1>3 DEF Ack
  <2> QED
    BY <1>1, <2>1, Stutters DEF Move
<1> QED
  BY <1>2, <1>3

LEMMA StepImplements ==
  ASSUME MInv, [Next]_vars
  PROVE  [Promise!Next]_(Promise!vars)
<1>1. TypeOK /\ Known \subseteq Message
  BY Types DEF MInv
<1>2. ASSUME NEW m \in Known, Reply(m) \/ Ack(m)
      PROVE  [Promise!Next]_(Promise!vars)
  BY <1>1, <1>2, ReplyIsSend, SendAccepts, AckSettles
<1>3. ASSUME sent' = sent, given' = given, status' = status
      PROVE  [Promise!Next]_(Promise!vars)
  BY <1>3, Stutters DEF Move
<1>4. ASSUME NEW m \in Known, Handle(m)
      PROVE  [Promise!Next]_(Promise!vars)
  BY <1>3, <1>4 DEF Handle
<1>5. ASSUME NEW a \in Agent, NEW p \in Known, PurgeAcked(a, p) \/ PurgeInterrupted(a, p)
      PROVE  [Promise!Next]_(Promise!vars)
  <2>1. /\ sent' = sent /\ given' = given
        /\ status' = With("none", {m \in Inbox(a) : m <= p /\ status[m] = "acked"})
    BY <1>5 DEF PurgeAcked, PurgeInterrupted, Reopen, history
  <2>2. \A m \in Message : status'[m] = status[m] \/ (status[m] = "acked" /\ status'[m] = "none")
    BY <2>1 DEF With
  <2> QED
    BY <1>1, <2>1, <2>2, Stutters DEF Move
<1>6. ASSUME NEW a \in Agent, SendThrows(a) \/ ConsumerDies(a)
      PROVE  [Promise!Next]_(Promise!vars)
  BY <1>3, <1>6 DEF SendThrows, ConsumerDies, history
<1>7. CASE Tick \/ Restart \/ UNCHANGED vars
  BY <1>3, <1>7 DEF Tick, Restart, Reopen, vars, history
<1> QED
  BY <1>2, <1>4, <1>5, <1>6, <1>7, SendAccepts, CheckGives, CheckAndAckHandsOver DEF Next

-----------------------------------------------------------------------------
(* The theorems *)

\* The inductive invariant holds of every behaviour of the mailbox.
THEOREM MailboxInvariance == Spec => []MInv
<1>1. Init => MInv
  BY InitMInv
<1>2. MInv /\ [Next]_vars => MInv'
  BY NextMInv
<1> QED
  BY <1>1, <1>2, PTL DEF Spec

\* Every variable keeps its type: in particular, sequence numbers grow no
\* faster than messages are sent, restarts and throwing sends included
\* (store.ts:92, 573-585).
THEOREM MailboxTypes == Spec => []TypeOK
<1>1. MInv => TypeOK
  BY DEF MInv
<1> QED
  BY <1>1, MailboxInvariance, PTL

\* A message that no consumer has handled is still in the mailbox, waiting or
\* in flight, whatever was purged, capped, restarted or reclaimed
\* (store.ts:139-145, 587-631).
THEOREM NothingIsLost == Spec => []NeverLost
<1>1. MInv => NeverLost
  BY DEF MInv
<1> QED
  BY <1>1, MailboxInvariance, PTL

\* A delivery always has its message, and a message without a delivery, which
\* only an interrupted purge leaves, is handled (store.ts:539-557, 602-630).
THEOREM NoneIsOrphaned == Spec => []NoOrphans
<1>1. MInv => NoOrphans
  BY DEF MInv
<1> QED
  BY <1>1, MailboxInvariance, PTL

\* An agent is given the messages of a sender in the order in which they were
\* sent, also when the counters were rebuilt from what a purge has left
\* (store.ts:139-145, 573-585).
THEOREM OrderOfGiving == Spec => []GivenInOrder
<1>1. MInv => GivenInOrder
  BY DEF MInv
<1> QED
  BY <1>1, MailboxInvariance, PTL

\* The mailbox implements at-least-once delivery: what was accepted waits until
\* it is settled, it is settled only after it was given, and what is settled is
\* never given again (store.ts:139-145, 213-216).
THEOREM AtLeastOnceKept == Spec => ImplementsPromise
<1>1. MInv /\ [Next]_vars => [Promise!Next]_(Promise!vars)
  BY StepImplements
<1> QED
  BY <1>1, InitImplements, MailboxInvariance, PTL
     DEF Spec, ImplementsPromise, Promise!Spec
=============================================================================
