---------------------------- MODULE EventChannel ----------------------------
(***************************************************************************)
(* dera.runtime.EventChannel: every event of a domain goes through one     *)
(* Disruptor ring buffer.  Any thread may call send(), which claims a      *)
(* sequence number, clones the event into the preallocated ChannelItem of  *)
(* that number and publishes it.  One daemon thread, the distributor, runs *)
(* the Disruptor's BatchEventProcessor: it waits for the cursor, hands the *)
(* items up to the cursor to EventDistributor.onEvent one by one, and only *)
(* then frees the slots of the whole batch by advancing its own sequence.  *)
(*                                                                         *)
(* The ring is created with ProducerType.SINGLE, whose claim is a plain    *)
(* read and write of nextValue.  The steps of a send are therefore actions *)
(* of their own, so that the sends of two threads interleave as the        *)
(* bytecode does.  The handlers run on the distributor may send as well    *)
(* (Condition and Barrier publish from notified()): the distributor is one *)
(* of Threads and sends while it is handling an item.                      *)
(***************************************************************************)
EXTENDS Integers, Sequences

CONSTANTS Threads,         \* the threads that may call send()
          Distributor,     \* the thread that runs the BatchEventProcessor
          RingSize,        \* DomainConfiguration.getMaxChannelSize()
          MaxSends,        \* bound: how many events each thread ever sends
          NullAttributes,  \* may an event hold an attribute that is null?
          HandlersThrow,   \* may an actor's notified() throw?
          MayStop,         \* may the channel be stopped?
          NoMessage        \* an attribute that is not set

ASSUME ThreadsAssumption == Distributor \in Threads
ASSUME SizeAssumption == RingSize \in Nat \ {0}
ASSUME SendsAssumption == MaxSends \in [Threads -> Nat]
ASSUME SwitchAssumption ==
  NullAttributes \in BOOLEAN /\ HandlersThrow \in BOOLEAN /\ MayStop \in BOOLEAN

(* The k-th event thread t sends.  Only its identity matters here. *)
Message == UNION {{t} \X (1 .. MaxSends[t]) : t \in Threads}

ASSUME NoMessageAssumption == NoMessage \notin Message

(* What a ChannelItem holds: whose attributes, whose type, whose correlation
   id.  In an item written by one send the three are the same message. *)
Item == [attributes  : Message \cup {NoMessage},
         type        : Message \cup {NoMessage},
         correlation : Message \cup {NoMessage}]

Fresh    == [attributes |-> NoMessage, type |-> NoMessage, correlation |-> NoMessage]
Whole(m) == [attributes |-> m, type |-> m, correlation |-> m]
(* An item whose cloneEvent() threw: new attributes, no type. *)
Torn(m)  == [attributes |-> m, type |-> NoMessage, correlation |-> NoMessage]

VARIABLES
  phase,        \* of the channel: created, running or halted
  nextValue,    \* the sequencer's last claimed sequence
  cachedValue,  \* the sequencer's last look at the distributor's sequence
  cursor,       \* the last published sequence
  slots,        \* the ring: index -> item
  pc,           \* where each thread is in send()
  claim,        \* local variable of each thread: the sequence it claims
  sends,        \* how many sends each thread has begun
  dpc,          \* where the distributor is in its loop
  dnext,        \* the next sequence it handles
  available,    \* the last sequence of its batch
  consumed,     \* its published sequence, on which publishers wait
  sent,         \* history: the items in the order their sends ended
  received      \* history: the items in the order they were handled

sequencer   == <<nextValue, cachedValue, cursor>>
distributor == <<dpc, dnext, available, consumed, received>>
vars == <<phase, sequencer, slots, pc, claim, sends, distributor, sent>>

Index(s) == s % RingSize

Writing == {"attributes", "type", "correlation", "publish"}

(* Every variable has its type, and the distributor stays within its batch: it
   frees only what it has handled (BatchEventProcessor's sequence against the
   one it is at) and handles nothing past the batch. *)
TypeOK ==
  /\ phase \in {"created", "running", "halted"}
  /\ nextValue \in Int /\ cachedValue \in Int /\ cursor \in Int
  /\ slots \in [0 .. RingSize - 1 -> Item]
  /\ pc \in [Threads -> {"idle", "next", "gate", "take"} \cup Writing]
  /\ claim \in [Threads -> Int]
  /\ sends \in [Threads -> Nat] /\ \A t \in Threads : sends[t] <= MaxSends[t]
  /\ dpc \in {"waiting", "batch", "handling", "stopped", "dead"}
  /\ dnext \in Nat /\ available \in Int /\ consumed \in Int
  /\ consumed < dnext
  /\ dnext <= available + 1 /\ (dpc = "handling" => dnext <= available)
  /\ sent \in Seq(Item) /\ received \in Seq(Item)

Init ==
  /\ phase = "created"
  /\ nextValue = -1 /\ cachedValue = -1 /\ cursor = -1
  /\ slots = [i \in 0 .. RingSize - 1 |-> Fresh]
  /\ pc = [t \in Threads |-> "idle"]
  /\ claim = [t \in Threads |-> -1]
  /\ sends = [t \in Threads |-> 0]
  /\ dpc = "waiting" /\ dnext = 0 /\ available = -1 /\ consumed = -1
  /\ sent = <<>> /\ received = <<>>

-----------------------------------------------------------------------------
(* Life cycle. *)

Start ==
  /\ phase = "created"
  /\ phase' = "running"
  /\ UNCHANGED <<sequencer, slots, pc, claim, sends, distributor, sent>>

(* disruptor.halt(): the distributor leaves at its next wait; a batch under way
   is finished first. *)
Stop ==
  /\ MayStop
  /\ phase = "running"
  /\ phase' = "halted"
  /\ UNCHANGED <<sequencer, slots, pc, claim, sends, distributor, sent>>

-----------------------------------------------------------------------------
(* send(), step by step.  The message thread t is sending: *)
Current(t) == <<t, sends[t]>>

Goto(t, label) == pc' = [pc EXCEPT ![t] = label]

(* A handler sends only while the distributor runs it. *)
MaySend(t) == t = Distributor => dpc = "handling"

(* Before start() ringBuffer is null: the exception is caught and the event is
   dropped. *)
EnterSend(t) ==
  /\ pc[t] = "idle" /\ sends[t] < MaxSends[t] /\ MaySend(t)
  /\ sends' = [sends EXCEPT ![t] = @ + 1]
  /\ IF phase = "created" THEN UNCHANGED pc ELSE Goto(t, "next")
  /\ UNCHANGED <<phase, sequencer, slots, claim, distributor, sent>>

(* Faulty variant: the cursor is not published before waiting. *)
NextReadKeepsCursor(t) ==
  /\ pc[t] = "next"
  /\ claim' = [claim EXCEPT ![t] = nextValue + 1]
  /\ Goto(t, IF nextValue + 1 - RingSize > cachedValue \/ cachedValue > nextValue
               THEN "gate" ELSE "take")
  /\ UNCHANGED <<phase, sequencer, slots, sends, distributor, sent>>

(* RingBuffer.next() reads nextValue and decides from its cached copy of the
   distributor's sequence whether there is room; if it cannot tell, it first
   publishes nextValue as the cursor. *)
NextRead(t) ==
  /\ pc[t] = "next"
  /\ claim' = [claim EXCEPT ![t] = nextValue + 1]
  /\ IF nextValue + 1 - RingSize > cachedValue \/ cachedValue > nextValue
       THEN /\ cursor' = nextValue
            /\ Goto(t, "gate")
       ELSE /\ UNCHANGED cursor
            /\ Goto(t, "take")
  /\ UNCHANGED <<phase, nextValue, cachedValue, slots, sends, distributor, sent>>

(* Faulty variant: the wait ends one slot too early. *)
NextGateOffByOne(t) ==
  /\ pc[t] = "gate"
  /\ claim[t] - RingSize <= consumed + 1
  /\ cachedValue' = consumed
  /\ Goto(t, "take")
  /\ UNCHANGED <<phase, nextValue, cursor, slots, claim, sends, distributor, sent>>

(* ... then it spins until the distributor has freed the slot ... *)
NextGate(t) ==
  /\ pc[t] = "gate"
  /\ LET read == claim[t] - 1
         minSequence == IF consumed < read THEN consumed ELSE read
     IN /\ claim[t] - RingSize <= minSequence
        /\ cachedValue' = minSequence
  /\ Goto(t, "take")
  /\ UNCHANGED <<phase, nextValue, cursor, slots, claim, sends, distributor, sent>>

(* ... and writes nextValue. *)
NextTake(t) ==
  /\ pc[t] = "take"
  /\ nextValue' = claim[t]
  /\ Goto(t, "attributes")
  /\ UNCHANGED <<phase, cachedValue, cursor, slots, claim, sends, distributor, sent>>

(* ChannelItem.setAttributes() installs a new map with every attribute but the
   type. *)
SetAttributes(t) ==
  /\ pc[t] = "attributes"
  /\ slots' = [slots EXCEPT ![Index(claim[t])] =
                 [attributes |-> Current(t), type |-> NoMessage, correlation |-> Current(t)]]
  /\ Goto(t, "type")
  /\ UNCHANGED <<phase, sequencer, claim, sends, distributor, sent>>

(* A null attribute makes it throw half way.  send() catches the exception: the
   sequence stays claimed and is never published by this send. *)
SetAttributesThrows(t) ==
  /\ NullAttributes
  /\ pc[t] = "attributes"
  /\ slots' = [slots EXCEPT ![Index(claim[t])] = Torn(Current(t))]
  /\ sent' = Append(sent, Torn(Current(t)))
  /\ Goto(t, "idle")
  /\ UNCHANGED <<phase, sequencer, claim, sends, distributor>>

SetType(t) ==
  /\ pc[t] = "type"
  /\ slots' = [slots EXCEPT ![Index(claim[t])].type = Current(t)]
  /\ Goto(t, "correlation")
  /\ UNCHANGED <<phase, sequencer, claim, sends, distributor, sent>>

SetCorrelationId(t) ==
  /\ pc[t] = "correlation"
  /\ slots' = [slots EXCEPT ![Index(claim[t])].correlation = Current(t)]
  /\ Goto(t, "publish")
  /\ UNCHANGED <<phase, sequencer, claim, sends, distributor, sent>>

(* Faulty variant: the sequence before the claimed one is published. *)
PublishPrevious(t) ==
  /\ pc[t] = "publish"
  /\ cursor' = claim[t] - 1
  /\ sent' = Append(sent, Whole(Current(t)))
  /\ Goto(t, "idle")
  /\ UNCHANGED <<phase, nextValue, cachedValue, slots, claim, sends, distributor>>

Publish(t) ==
  /\ pc[t] = "publish"
  /\ cursor' = claim[t]
  /\ sent' = Append(sent, Whole(Current(t)))
  /\ Goto(t, "idle")
  /\ UNCHANGED <<phase, nextValue, cachedValue, slots, claim, sends, distributor>>

(* The steps a thread takes without waiting for anything but the ring. *)
SendStep(t) ==
  \/ NextRead(t) \/ NextGate(t) \/ NextTake(t)
  \/ SetAttributes(t) \/ SetAttributesThrows(t) \/ SetType(t) \/ SetCorrelationId(t)
  \/ Publish(t)

-----------------------------------------------------------------------------
(* The BatchEventProcessor. *)

(* Faulty variant: the slots of the batch are freed before it is handled. *)
BeginBatchFreesSlots ==
  /\ dpc = "waiting" /\ phase = "running"
  /\ cursor >= dnext
  /\ available' = cursor /\ consumed' = cursor
  /\ dpc' = "batch"
  /\ UNCHANGED <<phase, sequencer, slots, pc, claim, sends, dnext, received, sent>>

BeginBatch ==
  /\ dpc = "waiting" /\ phase = "running"
  /\ cursor >= dnext
  /\ available' = cursor
  /\ dpc' = "batch"
  /\ UNCHANGED <<phase, sequencer, slots, pc, claim, sends, dnext, consumed, received, sent>>

(* onEvent(): the item is converted by toEvent() and delivered.  An item with
   no type cannot be converted: it is logged and skipped.  An item nobody has
   written yet, which only a cursor that ran ahead of an overlapping send can
   reach, has no attribute map at all: toEvent() throws and the thread dies. *)
OnEvent ==
  /\ dpc = "batch" /\ dnext <= available
  /\ received' = Append(received, slots[Index(dnext)])
  /\ \/ /\ slots[Index(dnext)].type # NoMessage
        /\ dpc' = "handling" /\ UNCHANGED dnext
     \/ /\ slots[Index(dnext)].type = NoMessage /\ slots[Index(dnext)] # Fresh
        /\ dnext' = dnext + 1 /\ UNCHANGED dpc
     \/ /\ slots[Index(dnext)] = Fresh
        /\ dpc' = "dead" /\ UNCHANGED dnext
  /\ UNCHANGED <<phase, sequencer, slots, pc, claim, sends, available, consumed, sent>>

(* The last notified() returned; nothing is sent on this thread any more. *)
EventHandled ==
  /\ dpc = "handling" /\ pc[Distributor] = "idle"
  /\ dpc' = "batch"
  /\ dnext' = dnext + 1
  /\ UNCHANGED <<phase, sequencer, slots, pc, claim, sends, available, consumed, received, sent>>

(* The default exception handler of the Disruptor rethrows: the thread dies and
   its sequence stays where it was. *)
HandlerThrows ==
  /\ HandlersThrow
  /\ dpc = "handling" /\ pc[Distributor] = "idle"
  /\ dpc' = "dead"
  /\ UNCHANGED <<phase, sequencer, slots, pc, claim, sends, dnext, available, consumed, received, sent>>

(* Faulty variant: the slot after the batch is freed with it. *)
EndBatchFreesNext ==
  /\ dpc = "batch" /\ dnext > available
  /\ consumed' = dnext
  /\ dpc' = "waiting"
  /\ UNCHANGED <<phase, sequencer, slots, pc, claim, sends, dnext, available, received, sent>>

EndBatch ==
  /\ dpc = "batch" /\ dnext > available
  /\ consumed' = available
  /\ dpc' = "waiting"
  /\ UNCHANGED <<phase, sequencer, slots, pc, claim, sends, dnext, available, received, sent>>

DistributorHalts ==
  /\ dpc = "waiting" /\ phase = "halted"
  /\ dpc' = "stopped"
  /\ UNCHANGED <<phase, sequencer, slots, pc, claim, sends, dnext, available, consumed, received, sent>>

DistributorStep == BeginBatch \/ OnEvent \/ EventHandled \/ EndBatch \/ DistributorHalts

-----------------------------------------------------------------------------
Next ==
  \/ Start \/ Stop
  \/ DistributorStep \/ HandlerThrows
  \/ \E t \in Threads : EnterSend(t) \/ SendStep(t)

(* Threads are scheduled fairly by the JVM: a thread that can take a step of
   send() or of the distributor's loop eventually does.  Nothing forces a
   thread to call send(), start() or stop(). *)
Fairness ==
  /\ WF_vars(DistributorStep)
  /\ \A t \in Threads : WF_vars(SendStep(t))

Spec == Init /\ [][Next]_vars /\ Fairness

-----------------------------------------------------------------------------
(* Properties. *)

(* The discipline ProducerType.SINGLE demands of its callers: no two threads
   are inside send() at once.  EventChannel.send has no lock, so it is up to
   the callers. *)
NoOverlap ==
  \A t, u \in Threads : pc[t] # "idle" /\ pc[u] # "idle" => t = u

(* What onEvent() receives is exactly what send() put in, item by item and in
   the same order: no event is lost, duplicated, reordered or mixed with the
   attributes, type or correlation id of another one. *)
Fifo ==
  /\ Len(received) <= Len(sent)
  /\ \A i \in 1 .. Len(received) : received[i] = sent[i]

(* A send never writes into an item the distributor has still to handle or is
   handling: RingBuffer.next() must have waited for the slot. *)
ExclusiveSlot ==
  \A t \in Threads :
    pc[t] \in Writing =>
      \A s \in dnext .. cursor : Index(s) # Index(claim[t])

(* Nothing is left behind: when every send has returned and the distributor
   waits for more, every event whose send succeeded has been handled. *)
NothingLost ==
  (/\ phase = "running" /\ dpc = "waiting" /\ cursor < dnext
   /\ \A t \in Threads : pc[t] = "idle")
  => \A i \in 1 .. Len(sent) :
       sent[i].type # NoMessage => \E j \in 1 .. Len(received) : received[j] = sent[i]

(* The distributor has ended, by an exception or by stop(). *)
DistributorEnded == dpc \in {"dead", "stopped"}

(* Every event published is eventually handled, unless the distributor ends. *)
EventuallyReceived ==
  \A t \in Threads : \A k \in 1 .. MaxSends[t] :
    (\E i \in 1 .. Len(sent) : sent[i] = Whole(<<t, k>>))
      ~> (\E j \in 1 .. Len(received) : received[j] = Whole(<<t, k>>)) \/ DistributorEnded

(* Every send returns: a full ring only delays it, unless the distributor ends
   and frees no more slots. *)
SendReturns == \A t \in Threads : pc[t] # "idle" ~> pc[t] = "idle" \/ DistributorEnded

(* The channel is a bounded FIFO queue. *)
Channel == INSTANCE FifoChannel WITH
             Item     <- {Whole(m) : m \in Message} \cup {Torn(m) : m \in Message},
             Capacity <- RingSize,
             queue    <- SubSeq(sent, Len(received) + 1, Len(sent)),
             taken    <- received

ImplementsFifo == Channel!FifoSpec
=============================================================================
