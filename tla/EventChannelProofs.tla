------------------------- MODULE EventChannelProofs -------------------------
(***************************************************************************)
(* Theorems about EventChannel for every set of threads, every ring size   *)
(* and every number of sends.                                              *)
(***************************************************************************)
EXTENDS EventChannel, SequenceTheorems, TLAPS

-----------------------------------------------------------------------------
(* Two sequences less than RingSize apart have different indices: this is what
   makes a slot of the ring private to one sequence. *)
LEMMA IndexApart ==
  ASSUME NEW a \in Int, NEW b \in Int, a < b, b - a < RingSize
  PROVE  Index(a) # Index(b)
  <1> USE SizeAssumption DEF Index
  <1> DEFINE q == (b \div RingSize) - (a \div RingSize)
  <1>1. SUFFICES ASSUME a % RingSize = b % RingSize PROVE FALSE
        BY DEF Index
  <1>2. /\ a = RingSize * (a \div RingSize) + (a % RingSize)
        /\ b = RingSize * (b \div RingSize) + (b % RingSize)
        /\ a \div RingSize \in Int /\ b \div RingSize \in Int
        /\ a % RingSize \in Int
        BY SMT
  <1>3. b - a = RingSize * q /\ q \in Int
        BY <1>1, <1>2, SMT
  <1>4. CASE q <= 0
        <2>1. RingSize * q <= 0 BY <1>3, <1>4, SMT
        <2> QED BY <2>1, <1>3, SMT
  <1>5. CASE q >= 1
        <2>1. RingSize * q >= RingSize BY <1>3, <1>5, SMT
        <2> QED BY <2>1, <1>3, SMT
  <1> QED BY <1>3, <1>4, <1>5

LEMMA IndexType ==
  ASSUME NEW a \in Int
  PROVE  Index(a) \in 0 .. RingSize - 1
  BY SizeAssumption DEF Index

-----------------------------------------------------------------------------
(* A thread inside send() is sending a message it has begun. *)
Begun == \A t \in Threads : pc[t] # "idle" => sends[t] >= 1

LEMMA CurrentIsMessage ==
  ASSUME TypeOK, Begun, NEW t \in Threads, pc[t] # "idle"
  PROVE  Current(t) \in Message
  <1>1. sends[t] \in 1 .. MaxSends[t]
        BY SendsAssumption DEF TypeOK, Begun
  <1>2. Current(t) \in {t} \X (1 .. MaxSends[t])
        BY <1>1 DEF Current
  <1> QED BY <1>2 DEF Message

LEMMA TypeInit == Init => TypeOK /\ Begun
  <1> SUFFICES ASSUME Init PROVE TypeOK /\ Begun
      OBVIOUS
  <1>1. Fresh \in Item
        BY DEF Fresh, Item
  <1>2. <<>> \in Seq(Item)
        OBVIOUS
  <1> QED BY <1>1, <1>2, SizeAssumption, SendsAssumption DEF Init, TypeOK, Begun

LEMMA TypeStep == TypeOK /\ Begun /\ [Next]_vars => TypeOK' /\ Begun'
  <1> SUFFICES ASSUME TypeOK, Begun, [Next]_vars PROVE TypeOK' /\ Begun'
      OBVIOUS
  <1> USE SizeAssumption, SendsAssumption, ThreadsAssumption
  <1>1. CASE Start
        BY <1>1 DEF Start, TypeOK, Begun, sequencer, distributor
  <1>2. CASE Stop
        BY <1>2 DEF Stop, TypeOK, Begun, sequencer, distributor
  <1>3. CASE DistributorStep
        <2>1. CASE OnEvent
              <3>0. dnext \in Int
                    BY DEF TypeOK
              <3>1. slots[Index(dnext)] \in Item
                    BY <3>0, IndexType DEF TypeOK
              <3>5. received' = Append(received, slots[Index(dnext)])
                    BY <2>1 DEF OnEvent
              <3>2. received' \in Seq(Item)
                    BY <3>5, <3>1 DEF TypeOK
              <3>3. dnext' \in {dnext, dnext + 1} /\ dpc' \in {"batch", "handling", "dead"}
                    BY <2>1 DEF OnEvent
              <3>4. /\ dnext' \in Nat /\ consumed' < dnext' /\ dnext' <= available' + 1
                    /\ (dpc' = "handling" => dnext' <= available')
                    BY <2>1, <3>3 DEF OnEvent, TypeOK
              <3> QED BY <2>1, <3>2, <3>3, <3>4 DEF OnEvent, TypeOK, Begun, sequencer
        <2>2. CASE BeginBatch
              BY <2>2 DEF BeginBatch, TypeOK, Begun, sequencer
        <2>3. CASE EventHandled
              <3>1. /\ dnext' = dnext + 1 /\ UNCHANGED <<available, consumed>>
                    /\ consumed < dnext /\ dnext \in Nat /\ consumed \in Int /\ available \in Int
                    /\ dnext <= available
                    BY <2>3 DEF EventHandled, TypeOK
              <3>2. consumed' < dnext' /\ dnext' <= available' + 1 /\ dnext' \in Nat
                    BY <3>1
              <3> QED BY <2>3, <3>1, <3>2 DEF EventHandled, TypeOK, Begun, sequencer
        <2>4. CASE EndBatch
              BY <2>4 DEF EndBatch, TypeOK, Begun, sequencer
        <2>5. CASE DistributorHalts
              BY <2>5 DEF DistributorHalts, TypeOK, Begun, sequencer
        <2> QED BY <1>3, <2>1, <2>2, <2>3, <2>4, <2>5 DEF DistributorStep
  <1>4. CASE HandlerThrows
        BY <1>4 DEF HandlerThrows, TypeOK, Begun, sequencer
  <1>5. ASSUME NEW t \in Threads, EnterSend(t)
        PROVE  TypeOK' /\ Begun'
        <2>1. UNCHANGED <<phase, sequencer, slots, claim, distributor, sent>>
              BY <1>5 DEF EnterSend
        <2>2. sends' = [sends EXCEPT ![t] = @ + 1] /\ sends[t] < MaxSends[t]
              BY <1>5 DEF EnterSend
        <2>3. /\ sends' \in [Threads -> Nat] /\ sends'[t] >= 1
              /\ \A u \in Threads : sends'[u] <= MaxSends[u] /\ (u # t => sends'[u] = sends[u])
              BY <2>2 DEF TypeOK
        <2>4. pc' = pc \/ pc' = [pc EXCEPT ![t] = "next"]
              BY <1>5 DEF EnterSend, Goto
        <2>5. pc' \in [Threads -> {"idle", "next", "gate", "take"} \cup Writing] /\ Begun'
              BY <2>3, <2>4 DEF TypeOK, Begun
        <2> QED BY <2>1, <2>3, <2>5 DEF TypeOK, sequencer, distributor
  <1>6. ASSUME NEW t \in Threads, SendStep(t)
        PROVE  TypeOK' /\ Begun'
        <2>1. CASE NextRead(t)
              <3>1. pc' \in [Threads -> {"idle", "next", "gate", "take"} \cup Writing] /\ Begun'
                    BY <2>1 DEF NextRead, Goto, TypeOK, Begun
              <3>2. cursor' \in Int /\ claim' \in [Threads -> Int]
                    BY <2>1 DEF NextRead, TypeOK
              <3> QED BY <2>1, <3>1, <3>2 DEF NextRead, TypeOK, distributor
        <2>2. CASE NextGate(t)
              BY <2>2 DEF NextGate, Goto, TypeOK, Begun, distributor
        <2>3. CASE NextTake(t)
              BY <2>3 DEF NextTake, Goto, Writing, TypeOK, Begun, distributor
        <2>4. ASSUME pc[t] # "idle"
              PROVE  /\ Torn(Current(t)) \in Item /\ Whole(Current(t)) \in Item
                     /\ [Torn(Current(t)) EXCEPT !.correlation = Current(t)] \in Item
              BY <2>4, CurrentIsMessage DEF Torn, Whole, Item
        <2>5. CASE SetAttributes(t)
              <3>1. [attributes |-> Current(t), type |-> NoMessage, correlation |-> Current(t)] \in Item
                    BY <2>5, CurrentIsMessage DEF SetAttributes, Item
              <3> QED BY <2>5, <3>1, IndexType
                      DEF SetAttributes, Goto, Writing, TypeOK, Begun, sequencer, distributor
        <2>6. CASE SetAttributesThrows(t)
              <3>1. Torn(Current(t)) \in Item
                    BY <2>4, <2>6 DEF SetAttributesThrows
              <3>2. sent' \in Seq(Item)
                    BY <2>6, <3>1 DEF SetAttributesThrows, TypeOK
              <3> QED BY <2>6, <3>1, <3>2, IndexType
                      DEF SetAttributesThrows, Goto, Writing, TypeOK, Begun, sequencer, distributor
        <2>7. CASE SetType(t)
              <3>1. Current(t) \in Message
                    BY <2>7, CurrentIsMessage DEF SetType
              <3> QED BY <2>7, <3>1, IndexType
                      DEF SetType, Goto, Writing, TypeOK, Begun, sequencer, distributor, Item
        <2>8. CASE SetCorrelationId(t)
              <3>1. Current(t) \in Message
                    BY <2>8, CurrentIsMessage DEF SetCorrelationId
              <3> QED BY <2>8, <3>1, IndexType
                      DEF SetCorrelationId, Goto, Writing, TypeOK, Begun, sequencer, distributor, Item
        <2>9. CASE Publish(t)
              <3>1. Whole(Current(t)) \in Item
                    BY <2>4, <2>9 DEF Publish
              <3> QED BY <2>9, <3>1 DEF Publish, Goto, Writing, TypeOK, Begun, distributor
        <2> QED BY <1>6, <2>1, <2>2, <2>3, <2>5, <2>6, <2>7, <2>8, <2>9 DEF SendStep
  <1>7. CASE UNCHANGED vars
        BY <1>7 DEF vars, TypeOK, Begun, sequencer, distributor
  <1> QED BY <1>1, <1>2, <1>3, <1>4, <1>5, <1>6, <1>7 DEF Next

(* Every variable of the channel keeps its type, whatever threads interleave. *)
THEOREM TypeCorrect == Spec => []TypeOK
  <1>1. Spec => [](TypeOK /\ Begun)
        BY TypeInit, TypeStep, PTL DEF Spec
  <1> QED BY <1>1, PTL

-----------------------------------------------------------------------------
(* The inductive invariant, for sends that do not overlap.  It relates the ring
   to the two histories: the sequence s carries sent[s + 1]. *)

(* What a thread knows of the sequence it claims. *)
ClaimInv ==
  \A t \in Threads :
    /\ pc[t] \in {"gate", "take"} => claim[t] = nextValue + 1
    /\ pc[t] = "take" => claim[t] <= consumed + RingSize
    /\ pc[t] \in Writing => claim[t] = nextValue /\ nextValue = Len(sent)

(* The sequencer, the histories and the distributor agree. *)
CountInv ==
  /\ (\A t \in Threads : pc[t] \notin Writing) => nextValue = Len(sent) - 1
  /\ cursor < Len(sent)
  /\ consumed < dnext /\ consumed <= available /\ available <= cursor
  /\ dnext - 1 <= cursor
  /\ dpc \in {"handling", "dead"} => dnext <= cursor
  /\ Len(received) = IF dpc \in {"handling", "dead"} THEN dnext + 1 ELSE dnext
  /\ cachedValue <= consumed
  /\ nextValue <= consumed + RingSize

(* Items not yet handled are intact, and the item being written is as far as
   its writer is. *)
ContentInv ==
  /\ \A s \in dnext .. Len(sent) - 1 : slots[Index(s)] = sent[s + 1]
  /\ \A t \in Threads :
       /\ pc[t] = "type" =>
            slots[Index(claim[t])] =
              [attributes |-> Current(t), type |-> NoMessage, correlation |-> Current(t)]
       /\ pc[t] \in {"correlation", "publish"} =>
            slots[Index(claim[t])] = Whole(Current(t))

ChannelInv == TypeOK /\ Begun /\ ClaimInv /\ CountInv /\ ContentInv /\ Fifo

LEMMA ChannelInit == Init => ChannelInv
  <1> SUFFICES ASSUME Init PROVE ChannelInv
      OBVIOUS
  <1>1. TypeOK /\ Begun
        BY TypeInit
  <1>2. ClaimInv /\ CountInv
        BY SizeAssumption DEF Init, ClaimInv, CountInv, Writing
  <1>3. ContentInv /\ Fifo
        BY DEF Init, ContentInv, Fifo
  <1> QED BY <1>1, <1>2, <1>3 DEF ChannelInv

(* Steps of the life cycle and of the distributor's loop: they move dnext,
   available and consumed towards the cursor and write no item. *)
LEMMA LifeCycleStep ==
  ASSUME ChannelInv, Start \/ Stop
  PROVE  ClaimInv' /\ CountInv' /\ ContentInv' /\ Fifo'
  <1> USE DEF Start, Stop, sequencer, distributor
  <1>1. ClaimInv' /\ CountInv'
        BY DEF ChannelInv, ClaimInv, CountInv
  <1>2. ContentInv'
        BY DEF ChannelInv, ContentInv, Index, Current
  <1>3. Fifo'
        BY DEF ChannelInv, Fifo
  <1> QED BY <1>1, <1>2, <1>3

LEMMA DistributorKeeps ==
  ASSUME ChannelInv, DistributorStep \/ HandlerThrows
  PROVE  ClaimInv' /\ CountInv' /\ ContentInv' /\ Fifo'
  <1> USE SizeAssumption
  <1>1. CASE BeginBatch
        <2> USE <1>1 DEF BeginBatch, sequencer
        <2>1. ClaimInv' BY DEF ChannelInv, ClaimInv
        <2>2. CountInv' BY DEF ChannelInv, CountInv, TypeOK
        <2>3. ContentInv' BY DEF ChannelInv, ContentInv, Index, Current
        <2>4. Fifo' BY DEF ChannelInv, Fifo
        <2> QED BY <2>1, <2>2, <2>3, <2>4
  <1>2. CASE OnEvent
        <2> USE <1>2 DEF OnEvent, sequencer
        <2>1. ClaimInv' BY DEF ChannelInv, ClaimInv
        <2>2. Len(received') = Len(received) + 1
              <3>1. dnext \in Int
                    BY DEF ChannelInv, TypeOK
              <3>2. slots[Index(dnext)] \in Item
                    BY <3>1, IndexType DEF ChannelInv, TypeOK
              <3> QED BY <3>2 DEF ChannelInv, TypeOK
        <2>3. CountInv' BY <2>2 DEF ChannelInv, CountInv, TypeOK
        <2>4. ContentInv' BY DEF ChannelInv, ContentInv, Index, Current, TypeOK
        <2>5. Fifo'
              <3>1. Len(received) = dnext /\ dnext < Len(sent) /\ dnext \in Nat
                    BY DEF ChannelInv, CountInv, TypeOK
              <3>2. slots[Index(dnext)] = sent[dnext + 1]
                    BY <3>1 DEF ChannelInv, ContentInv, TypeOK
              <3>3. received' = Append(received, sent[dnext + 1])
                    BY <3>2
              <3>4. \A i \in 1 .. Len(received') : received'[i] = sent[i]
                    BY <2>2, <3>1, <3>3 DEF ChannelInv, Fifo, TypeOK
              <3> QED BY <2>2, <3>1, <3>4 DEF Fifo, ChannelInv, TypeOK
        <2> QED BY <2>1, <2>3, <2>4, <2>5
  <1>3. CASE EventHandled
        <2> USE <1>3 DEF EventHandled, sequencer
        <2>1. ClaimInv' BY DEF ChannelInv, ClaimInv
        <2>2. CountInv' BY DEF ChannelInv, CountInv, TypeOK
        <2>3. ContentInv'
              <3>1. dnext' .. Len(sent) - 1 \subseteq dnext .. Len(sent) - 1
                    BY DEF ChannelInv, TypeOK
              <3> QED BY <3>1 DEF ChannelInv, ContentInv, Index, Current
        <2>4. Fifo' BY DEF ChannelInv, Fifo
        <2> QED BY <2>1, <2>2, <2>3, <2>4
  <1>4. CASE EndBatch
        <2> USE <1>4 DEF EndBatch, sequencer
        <2>1. ClaimInv' BY DEF ChannelInv, ClaimInv, CountInv, TypeOK
        <2>2. CountInv' BY DEF ChannelInv, CountInv, TypeOK
        <2>3. ContentInv' BY DEF ChannelInv, ContentInv, Index, Current
        <2>4. Fifo' BY DEF ChannelInv, Fifo
        <2> QED BY <2>1, <2>2, <2>3, <2>4
  <1>5. CASE DistributorHalts \/ HandlerThrows
        <2> USE <1>5 DEF DistributorHalts, HandlerThrows, sequencer
        <2>1. ClaimInv' BY DEF ChannelInv, ClaimInv
        <2>2. CountInv' BY DEF ChannelInv, CountInv, TypeOK
        <2>3. ContentInv' BY DEF ChannelInv, ContentInv, Index, Current
        <2>4. Fifo' BY DEF ChannelInv, Fifo
        <2> QED BY <2>1, <2>2, <2>3, <2>4
  <1> QED BY <1>1, <1>2, <1>3, <1>4, <1>5 DEF DistributorStep

(* A send that begins changes nothing the invariant speaks of: the thread is at
   "next" or still idle. *)
LEMMA EnterSendKeeps ==
  ASSUME ChannelInv, NEW t \in Threads, EnterSend(t)
  PROVE  ClaimInv' /\ CountInv' /\ ContentInv' /\ Fifo'
  <1> USE DEF EnterSend, Goto, sequencer, distributor
  <1>1. \A u \in Threads : u # t => pc'[u] = pc[u] /\ Current(u)' = Current(u)
        BY DEF ChannelInv, TypeOK, Current
  <1>2. pc[t] = "idle" /\ pc'[t] \in {"idle", "next"}
        BY DEF ChannelInv, TypeOK
  <1>3. ClaimInv'
        BY <1>1, <1>2 DEF ChannelInv, ClaimInv, Writing
  <1>4. \A u \in Threads : pc'[u] \in Writing <=> pc[u] \in Writing
        BY <1>1, <1>2 DEF Writing
  <1>5. CountInv'
        BY <1>4 DEF ChannelInv, CountInv
  <1>6. ContentInv'
        BY <1>1, <1>2 DEF ChannelInv, ContentInv, Index
  <1>7. Fifo'
        BY DEF ChannelInv, Fifo
  <1> QED BY <1>3, <1>5, <1>6, <1>7

-----------------------------------------------------------------------------
(* The steps of a send, when no other thread is inside send(). *)
Alone(t) == \A u \in Threads : u # t => pc[u] = "idle"

LEMMA SenderAlone ==
  ASSUME NoOverlap, NEW t \in Threads, pc[t] # "idle"
  PROVE  Alone(t)
  BY DEF NoOverlap, Alone

(* Claiming: the claimed sequence is the next one and within the ring. *)
LEMMA ClaimKeeps ==
  ASSUME ChannelInv, NEW t \in Threads, Alone(t),
         NextRead(t) \/ NextGate(t) \/ NextTake(t)
  PROVE  ClaimInv' /\ CountInv' /\ ContentInv' /\ Fifo'
  <1> USE SizeAssumption DEF Goto, distributor
  <1>1. \A u \in Threads : u # t => pc'[u] = "idle"
        BY DEF Alone, NextRead, NextGate, NextTake, ChannelInv, TypeOK
  <1>2. pc[t] \notin Writing /\ \A u \in Threads : pc[u] \notin Writing
        BY DEF Alone, NextRead, NextGate, NextTake, Writing
  <1>3. nextValue = Len(sent) - 1
        BY <1>2 DEF ChannelInv, CountInv
  <1>4. Fifo'
        BY DEF ChannelInv, Fifo, NextRead, NextGate, NextTake
  <1>5. ContentInv'
        <2>1. pc'[t] \notin {"type", "correlation", "publish"}
              BY DEF NextRead, NextGate, NextTake, ChannelInv, TypeOK
        <2> QED BY <1>1, <2>1 DEF ChannelInv, ContentInv, Index, NextRead, NextGate, NextTake
  <1>6. CASE NextRead(t)
        <2> USE <1>6 DEF NextRead
        <2>1. claim'[t] = nextValue + 1 /\ pc'[t] \in {"gate", "take"}
              BY DEF ChannelInv, TypeOK
        <2>2. pc'[t] = "take" => claim'[t] <= consumed + RingSize
              BY <2>1 DEF ChannelInv, TypeOK, CountInv
        <2>3. ClaimInv'
              BY <1>1, <2>1, <2>2 DEF ClaimInv, Writing
        <2>4. cursor <= cursor' /\ cursor' < Len(sent) /\ cursor' \in Int
              BY <1>3 DEF ChannelInv, CountInv, TypeOK
        <2>5. UNCHANGED <<nextValue, cachedValue, sent, dpc, dnext, available, consumed, received>>
              OBVIOUS
        <2> HIDE <1>6 DEF NextRead
        <2>6. CountInv'
              <3>1. CountInv /\ dnext \in Int /\ available \in Int /\ cursor \in Int
                    BY DEF ChannelInv, TypeOK
              <3>2. available <= cursor' /\ dnext - 1 <= cursor'
                    BY <2>4, <3>1 DEF CountInv
              <3>3. dpc \in {"handling", "dead"} => dnext <= cursor'
                    BY <2>4, <3>1 DEF CountInv
              <3> QED BY <1>3, <2>4, <2>5, <3>1, <3>2, <3>3 DEF CountInv
        <2> QED BY <1>4, <1>5, <2>3, <2>6
  <1>7. CASE NextGate(t)
        <2> USE <1>7 DEF NextGate
        <2>1. claim[t] = nextValue + 1 /\ claim[t] \in Int /\ consumed \in Int /\ RingSize \in Nat
              BY DEF ChannelInv, ClaimInv, TypeOK
        <2>2. claim[t] - RingSize <= cachedValue' /\ cachedValue' <= consumed
              BY <2>1
        <2>3. pc'[t] = "take"
              BY DEF ChannelInv, TypeOK
        <2>4. claim[t] <= consumed + RingSize
              BY <2>1, <2>2 DEF ChannelInv, TypeOK
        <2>5. ClaimInv'
              BY <1>1, <2>1, <2>3, <2>4 DEF ClaimInv, Writing
        <2>6. CountInv'
              BY <1>3, <2>2 DEF ChannelInv, CountInv, TypeOK
        <2> QED BY <1>4, <1>5, <2>5, <2>6
  <1>8. CASE NextTake(t)
        <2> USE <1>8 DEF NextTake
        <2>1. /\ claim[t] = nextValue + 1 /\ claim[t] <= consumed + RingSize
              /\ pc'[t] = "attributes"
              BY DEF ChannelInv, ClaimInv, TypeOK
        <2>2. nextValue' = Len(sent)
              BY <1>3, <2>1 DEF ChannelInv, TypeOK
        <2>3. ClaimInv'
              BY <1>1, <2>1, <2>2 DEF ClaimInv, Writing
        <2>4. CountInv'
              BY <2>1, <2>2 DEF ChannelInv, CountInv, TypeOK, Writing
        <2> QED BY <1>4, <1>5, <2>3, <2>4
  <1> QED BY <1>6, <1>7, <1>8

(* Writing: the slot of the claimed sequence belongs to no unhandled item. *)
LEMMA SlotFree ==
  ASSUME ChannelInv, NEW t \in Threads, pc[t] \in Writing,
         NEW s \in dnext .. Len(sent) - 1
  PROVE  Index(s) # Index(claim[t])
  <1>1. s \in Int /\ claim[t] \in Int /\ s < claim[t] /\ claim[t] - s < RingSize
        BY SizeAssumption DEF ChannelInv, ClaimInv, CountInv, TypeOK
  <1> QED BY <1>1, IndexApart

LEMMA SlotWritten ==
  ASSUME ChannelInv, NEW t \in Threads, NEW i,
         slots' = [slots EXCEPT ![Index(claim[t])] = i]
  PROVE  /\ slots'[Index(claim[t])] = i
         /\ \A s \in Int : Index(s) # Index(claim[t]) => slots'[Index(s)] = slots[Index(s)]
  <1>1. Index(claim[t]) \in 0 .. RingSize - 1 /\ \A s \in Int : Index(s) \in 0 .. RingSize - 1
        BY IndexType DEF ChannelInv, TypeOK
  <1> QED BY <1>1 DEF ChannelInv, TypeOK

LEMMA WriteKeeps ==
  ASSUME ChannelInv, NEW t \in Threads, Alone(t),
         SetAttributes(t) \/ SetType(t) \/ SetCorrelationId(t)
  PROVE  ClaimInv' /\ CountInv' /\ ContentInv' /\ Fifo'
  <1> USE DEF Goto, sequencer, distributor
  <1>1. \A u \in Threads : u # t => pc'[u] = "idle"
        BY DEF Alone, SetAttributes, SetType, SetCorrelationId, ChannelInv, TypeOK
  <1>2. pc[t] \in Writing /\ pc'[t] \in Writing
        BY DEF SetAttributes, SetType, SetCorrelationId, Writing, ChannelInv, TypeOK
  <1>3. claim[t] = nextValue /\ nextValue = Len(sent)
        BY <1>2 DEF ChannelInv, ClaimInv
  <1>4. ClaimInv'
        BY <1>1, <1>2, <1>3 DEF ClaimInv, Writing, SetAttributes, SetType, SetCorrelationId
  <1>5. CountInv'
        BY <1>2 DEF ChannelInv, CountInv, SetAttributes, SetType, SetCorrelationId
  <1>6. Fifo'
        BY DEF ChannelInv, Fifo, SetAttributes, SetType, SetCorrelationId
  <1>7. PICK i : /\ slots' = [slots EXCEPT ![Index(claim[t])] = i]
                 /\ pc'[t] = "type" => i = [attributes |-> Current(t), type |-> NoMessage,
                                            correlation |-> Current(t)]
                 /\ pc'[t] \in {"correlation", "publish"} => i = Whole(Current(t))
        <2>0. Index(claim[t]) \in 0 .. RingSize - 1
              BY IndexType DEF ChannelInv, TypeOK
        <2>1. CASE SetAttributes(t)
              BY <2>1 DEF SetAttributes, ChannelInv, TypeOK
        <2>2. CASE SetType(t)
              <3>1. slots[Index(claim[t])] = [attributes |-> Current(t), type |-> NoMessage,
                                              correlation |-> Current(t)]
                    BY <2>2 DEF SetType, ChannelInv, ContentInv
              <3>2. [slots[Index(claim[t])] EXCEPT !.type = Current(t)] = Whole(Current(t))
                    BY <3>1 DEF Whole
              <3>3. slots' = [slots EXCEPT ![Index(claim[t])] = Whole(Current(t))]
                    BY <2>2, <3>2 DEF SetType
              <3> QED BY <2>2, <3>3 DEF SetType, ChannelInv, TypeOK
        <2>3. CASE SetCorrelationId(t)
              <3>1. slots[Index(claim[t])] = Whole(Current(t))
                    BY <2>3 DEF SetCorrelationId, ChannelInv, ContentInv
              <3>2. [slots[Index(claim[t])] EXCEPT !.correlation = Current(t)] = Whole(Current(t))
                    BY <3>1 DEF Whole
              <3>3. slots' = [slots EXCEPT ![Index(claim[t])] = Whole(Current(t))]
                    BY <2>3, <3>2 DEF SetCorrelationId
              <3> QED BY <2>3, <3>3 DEF SetCorrelationId, ChannelInv, TypeOK
        <2> QED BY <2>1, <2>2, <2>3
  <1>8. ContentInv'
        <2>1. UNCHANGED <<sent, dnext, claim, sends>>
              BY DEF SetAttributes, SetType, SetCorrelationId
        <2>2. \A s \in dnext .. Len(sent) - 1 : slots'[Index(s)] = sent[s + 1]
              BY <1>2, <1>7, SlotFree, SlotWritten DEF ChannelInv, ContentInv, TypeOK
        <2>3. slots'[Index(claim[t])] = i
              BY <1>7, SlotWritten
        <2> QED BY <1>1, <1>7, <2>1, <2>2, <2>3 DEF ContentInv, Index, Current
  <1> QED BY <1>4, <1>5, <1>6, <1>8

(* Ending: the item written is the one the histories record for its sequence,
   whether it was published or left behind as a hole. *)
LEMMA EndSendKeeps ==
  ASSUME ChannelInv, NEW t \in Threads, Alone(t),
         SetAttributesThrows(t) \/ Publish(t)
  PROVE  ClaimInv' /\ CountInv' /\ ContentInv' /\ Fifo'
  <1> USE DEF Goto, distributor
  <1>1. /\ pc[t] \in Writing
        /\ \A u \in Threads : pc'[u] = "idle"
        BY DEF Alone, SetAttributesThrows, Publish, Writing, ChannelInv, TypeOK
  <1>2. claim[t] = nextValue /\ nextValue = Len(sent)
        BY <1>1 DEF ChannelInv, ClaimInv
  <1>3. PICK i \in Item : /\ sent' = Append(sent, i)
                          /\ slots'[Index(claim[t])] = i
                          /\ \A s \in Int : Index(s) # Index(claim[t])
                                             => slots'[Index(s)] = slots[Index(s)]
        <2>0. Torn(Current(t)) \in Item /\ Whole(Current(t)) \in Item
              BY <1>1, CurrentIsMessage DEF ChannelInv, Torn, Whole, Item, Writing
        <2>1. CASE SetAttributesThrows(t)
              <3>1. slots' = [slots EXCEPT ![Index(claim[t])] = Torn(Current(t))]
                    BY <2>1 DEF SetAttributesThrows
              <3>2. sent' = Append(sent, Torn(Current(t)))
                    BY <2>1 DEF SetAttributesThrows
              <3> QED BY <2>0, <3>1, <3>2, SlotWritten
        <2>2. CASE Publish(t)
              <3>1. slots[Index(claim[t])] = Whole(Current(t))
                    BY <2>2 DEF Publish, ChannelInv, ContentInv
              <3> QED BY <2>0, <2>2, <3>1 DEF Publish
        <2> QED BY <2>1, <2>2
  <1>4. /\ Len(sent') = Len(sent) + 1
        /\ sent'[Len(sent) + 1] = i
        /\ \A k \in 1 .. Len(sent) : sent'[k] = sent[k]
        BY <1>3 DEF ChannelInv, TypeOK
  <1>5. UNCHANGED <<nextValue, cachedValue, claim, dpc, dnext, available, consumed, received>>
        BY DEF SetAttributesThrows, Publish, sequencer
  <1>6. ClaimInv'
        BY <1>1 DEF ClaimInv, Writing
  <1>7. CountInv'
        <2>1. cursor <= cursor' /\ cursor' < Len(sent') /\ cursor' \in Int
              BY <1>2, <1>4 DEF SetAttributesThrows, Publish, sequencer, ChannelInv, CountInv, TypeOK
        <2>2. CountInv /\ dnext \in Int /\ available \in Int /\ cursor \in Int /\ Len(sent) \in Nat
              BY DEF ChannelInv, TypeOK
        <2>3. available <= cursor' /\ dnext - 1 <= cursor'
              BY <2>1, <2>2 DEF CountInv
        <2>4. dpc \in {"handling", "dead"} => dnext <= cursor'
              BY <2>1, <2>2 DEF CountInv
        <2>5. nextValue' = Len(sent') - 1
              BY <1>2, <1>4, <1>5, <2>2
        <2> QED BY <1>5, <2>1, <2>2, <2>3, <2>4, <2>5 DEF CountInv
  <1>8. ContentInv'
        <2>1. Len(sent) \in Nat /\ dnext \in Nat
              BY DEF ChannelInv, TypeOK
        <2>2. ASSUME NEW s \in dnext .. Len(sent) - 1
              PROVE  slots'[Index(s)] = sent'[s + 1]
              <3>1. Index(s) # Index(claim[t])
                    BY <1>1, SlotFree
              <3>2. slots[Index(s)] = sent[s + 1] /\ s + 1 \in 1 .. Len(sent) /\ s \in Int
                    BY <2>1 DEF ChannelInv, ContentInv
              <3> QED BY <1>3, <1>4, <3>1, <3>2
        <2>3. slots'[Index(Len(sent))] = sent'[Len(sent) + 1]
              BY <1>2, <1>3, <1>4
        <2>4. \A s \in dnext .. Len(sent') - 1 : slots'[Index(s)] = sent'[s + 1]
              BY <1>4, <2>1, <2>2, <2>3
        <2> QED BY <1>1, <1>5, <2>4 DEF ContentInv, Index
  <1>9. Fifo'
        BY <1>4, <1>5 DEF ChannelInv, Fifo, TypeOK
  <1> QED BY <1>6, <1>7, <1>8, <1>9

-----------------------------------------------------------------------------
LEMMA ChannelStep == ChannelInv /\ NoOverlap /\ [Next]_vars => ChannelInv'
  <1> SUFFICES ASSUME ChannelInv, NoOverlap, [Next]_vars PROVE ChannelInv'
      OBVIOUS
  <1>1. TypeOK' /\ Begun'
        BY TypeStep DEF ChannelInv
  <1>2. ClaimInv' /\ CountInv' /\ ContentInv' /\ Fifo'
        <2>1. CASE Start \/ Stop
              BY <2>1, LifeCycleStep
        <2>2. CASE DistributorStep \/ HandlerThrows
              BY <2>2, DistributorKeeps
        <2>3. ASSUME NEW t \in Threads, EnterSend(t)
              PROVE  ClaimInv' /\ CountInv' /\ ContentInv' /\ Fifo'
              BY <2>3, EnterSendKeeps
        <2>4. ASSUME NEW t \in Threads, SendStep(t)
              PROVE  ClaimInv' /\ CountInv' /\ ContentInv' /\ Fifo'
              <3>1. pc[t] # "idle"
                    BY <2>4 DEF SendStep, NextRead, NextGate, NextTake, SetAttributes,
                            SetAttributesThrows, SetType, SetCorrelationId, Publish
              <3>2. Alone(t)
                    BY <3>1, SenderAlone
              <3> QED BY <2>4, <3>2, ClaimKeeps, WriteKeeps, EndSendKeeps DEF SendStep
        <2>5. CASE UNCHANGED vars
              BY <2>5 DEF vars, sequencer, distributor, ChannelInv, ClaimInv, CountInv,
                      ContentInv, Fifo, Index, Current
        <2> QED BY <2>1, <2>2, <2>3, <2>4, <2>5 DEF Next
  <1> QED BY <1>1, <1>2 DEF ChannelInv

(* As long as no two sends overlap, which is what ProducerType.SINGLE asks of
   the callers, the channel delivers exactly what was sent, in order, for every
   ring size, whatever handlers throw and clones fail, started or stopped. *)
THEOREM FifoCorrect == Spec /\ []NoOverlap => []Fifo
  <1>1. ChannelInv => Fifo
        BY DEF ChannelInv
  <1> QED BY <1>1, ChannelInit, ChannelStep, PTL DEF Spec

(* Under the same discipline no send writes into an item that is still to be
   handled. *)
THEOREM ExclusiveSlotCorrect == Spec /\ []NoOverlap => []ExclusiveSlot
  <1>1. ChannelInv => ExclusiveSlot
        <2> SUFFICES ASSUME ChannelInv, NEW t \in Threads, pc[t] \in Writing,
                            NEW s \in dnext .. cursor
                     PROVE  Index(s) # Index(claim[t])
            BY DEF ExclusiveSlot
        <2>1. s \in dnext .. Len(sent) - 1
              BY DEF ChannelInv, CountInv, TypeOK
        <2> QED BY <2>1, SlotFree
  <1> QED BY <1>1, ChannelInit, ChannelStep, PTL DEF Spec

-----------------------------------------------------------------------------
(* The channel implements the bounded FIFO queue. *)

LEMMA SuffixAppend ==
  ASSUME NEW T, NEW s \in Seq(T), NEW i \in T, NEW m \in 1 .. Len(s) + 1
  PROVE  /\ SubSeq(Append(s, i), m, Len(s) + 1) = Append(SubSeq(s, m, Len(s)), i)
         /\ Len(SubSeq(s, m, Len(s))) = Len(s) - m + 1
  OBVIOUS

LEMMA SuffixTail ==
  ASSUME NEW T, NEW s \in Seq(T), NEW m \in 1 .. Len(s)
  PROVE  /\ SubSeq(s, m, Len(s)) # <<>>
         /\ Head(SubSeq(s, m, Len(s))) = s[m]
         /\ Tail(SubSeq(s, m, Len(s))) = SubSeq(s, m + 1, Len(s))
  <1>1. Len(SubSeq(s, m, Len(s))) = Len(s) - m + 1
        OBVIOUS
  <1>2. Len(SubSeq(s, m, Len(s))) # 0 /\ Len(<<>>) = 0
        BY <1>1
  <1>3. SubSeq(s, m, Len(s)) # <<>>
        BY <1>2
  <1> QED BY <1>3, HeadTailOfSubSeq

Pending == SubSeq(sent, Len(received) + 1, Len(sent))

LEMMA RefineInit == Init => Channel!FifoInit
  <1> SUFFICES ASSUME Init PROVE Channel!FifoInit
      OBVIOUS
  <1>1. sent = <<>> /\ received = <<>>
        BY DEF Init
  <1>2. SubSeq(<<>>, Len(<<>>) + 1, Len(<<>>)) = <<>>
        OBVIOUS
  <1> QED BY <1>1, <1>2 DEF Channel!FifoInit

LEMMA RefineStep ==
  ChannelInv /\ NoOverlap /\ [Next]_vars => [Channel!FifoNext]_(Channel!fifoVars)
  <1> SUFFICES ASSUME ChannelInv, NoOverlap, [Next]_vars
               PROVE  [Channel!FifoNext]_(Channel!fifoVars)
      OBVIOUS
  <1>1. ASSUME UNCHANGED <<sent, received>>
        PROVE  UNCHANGED Channel!fifoVars
        BY <1>1 DEF Channel!fifoVars
  <1>2. CASE OnEvent
        <2>1. Len(received) = dnext /\ dnext < Len(sent) /\ dnext \in Nat /\ UNCHANGED sent
              BY <1>2 DEF OnEvent, ChannelInv, CountInv, TypeOK
        <2>2. slots[Index(dnext)] = sent[dnext + 1]
              <3>1. Len(sent) \in Nat
                    BY DEF ChannelInv, TypeOK
              <3>2. dnext \in dnext .. Len(sent) - 1
                    BY <2>1, <3>1
              <3>3. \A s \in dnext .. Len(sent) - 1 : slots[Index(s)] = sent[s + 1]
                    BY DEF ChannelInv, ContentInv
              <3> QED BY <3>2, <3>3, Zenon
        <2>3. received' = Append(received, sent[Len(received) + 1])
              BY <1>2, <2>1, <2>2 DEF OnEvent
        <2>4. Len(received) + 1 \in 1 .. Len(sent) /\ sent[Len(received) + 1] \in Item
              BY <2>1 DEF ChannelInv, TypeOK
        <2>5. Len(received') = Len(received) + 1
              BY <2>3, <2>4 DEF ChannelInv, TypeOK
        <2>6. /\ Pending # <<>>
              /\ Head(Pending) = sent[Len(received) + 1]
              /\ Tail(Pending) = SubSeq(sent, Len(received) + 1 + 1, Len(sent))
              BY <2>4, SuffixTail DEF Pending, ChannelInv, TypeOK
        <2>7. Pending' = Tail(Pending)
              BY <2>1, <2>5, <2>6 DEF Pending
        <2> QED BY <2>3, <2>6, <2>7 DEF Pending, Channel!FifoNext, Channel!Take
  <1>3. ASSUME NEW t \in Threads, SetAttributesThrows(t) \/ Publish(t)
        PROVE  Channel!FifoNext
        <2>1. pc[t] \in Writing
              BY <1>3 DEF SetAttributesThrows, Publish, Writing
        <2>2. Current(t) \in Message
              BY <2>1, CurrentIsMessage DEF ChannelInv, Writing
        <2>3. PICK i \in {Whole(m) : m \in Message} \cup {Torn(m) : m \in Message} :
                     sent' = Append(sent, i)
              BY <1>3, <2>2 DEF SetAttributesThrows, Publish
        <2>4. i \in Item
              BY <2>3 DEF Whole, Torn, Item
        <2>5. UNCHANGED received
              BY <1>3 DEF SetAttributesThrows, Publish, distributor
        <2>6. Len(received) + 1 \in 1 .. Len(sent) + 1
              BY DEF ChannelInv, Fifo, TypeOK
        <2>7. Len(sent') = Len(sent) + 1
              BY <2>3, <2>4 DEF ChannelInv, TypeOK
        <2>8. /\ Pending' = Append(Pending, i)
              /\ Len(Pending) = Len(sent) - Len(received)
              <3>1. sent \in Seq(Item) /\ Len(received) \in Nat /\ Len(sent) \in Nat
                    BY DEF ChannelInv, TypeOK
              <3>2. /\ SubSeq(Append(sent, i), Len(received) + 1, Len(sent) + 1)
                         = Append(Pending, i)
                    /\ Len(Pending) = Len(sent) - (Len(received) + 1) + 1
                    BY <2>4, <2>6, <3>1, SuffixAppend DEF Pending
              <3>3. Pending' = SubSeq(Append(sent, i), Len(received) + 1, Len(sent) + 1)
                    BY <2>3, <2>5, <2>7 DEF Pending
              <3> QED BY <3>1, <3>2, <3>3
        <2>9. Len(sent) - Len(received) < RingSize
              BY <2>1, SizeAssumption DEF ChannelInv, ClaimInv, CountInv, TypeOK
        <2> QED BY <2>3, <2>5, <2>8, <2>9 DEF Pending, Channel!FifoNext, Channel!Put
  <1>4. CASE Start \/ Stop \/ BeginBatch \/ EventHandled \/ EndBatch \/ DistributorHalts
               \/ HandlerThrows \/ UNCHANGED vars
        BY <1>1, <1>4 DEF Start, Stop, BeginBatch, EventHandled, EndBatch, DistributorHalts,
              HandlerThrows, vars, distributor
  <1>5. ASSUME NEW t \in Threads,
               EnterSend(t) \/ NextRead(t) \/ NextGate(t) \/ NextTake(t)
                 \/ SetAttributes(t) \/ SetType(t) \/ SetCorrelationId(t)
        PROVE  UNCHANGED Channel!fifoVars
        BY <1>1, <1>5 DEF EnterSend, NextRead, NextGate, NextTake, SetAttributes, SetType,
              SetCorrelationId, distributor
  <1> QED BY <1>2, <1>3, <1>4, <1>5 DEF Next, DistributorStep, SendStep

(* Without overlapping sends every behaviour of the ring, with its claims,
   cursors, batches and holes, is one of a FIFO queue of RingSize places. *)
THEOREM ChannelRefinesFifo == Spec /\ []NoOverlap => ImplementsFifo
  BY RefineInit, RefineStep, ChannelInit, ChannelStep, PTL
     DEF Spec, ImplementsFifo, Channel!FifoSpec

(* Every event whose send succeeded is published: the cursor has passed it, and
   never goes back. *)
PublishedInv == \A i \in 1 .. Len(sent) : sent[i].type # NoMessage => i - 1 <= cursor

LEMMA PublishedStep == ChannelInv /\ NoOverlap /\ PublishedInv /\ [Next]_vars => PublishedInv'
  <1> SUFFICES ASSUME ChannelInv, NoOverlap, PublishedInv, [Next]_vars PROVE PublishedInv'
      OBVIOUS
  <1>1. CASE UNCHANGED <<sent, cursor>>
        BY <1>1 DEF PublishedInv
  <1>2. ASSUME NEW t \in Threads, NextRead(t) PROVE PublishedInv'
        <2>1. Alone(t) /\ \A u \in Threads : pc[u] \notin Writing
              BY <1>2, SenderAlone DEF NextRead, Alone, Writing
        <2>2. cursor <= nextValue /\ nextValue \in Int /\ cursor \in Int
              BY <2>1 DEF ChannelInv, CountInv, TypeOK
        <2>3. sent' = sent /\ cursor' \in {cursor, nextValue}
              BY <1>2 DEF NextRead
        <2> QED BY <2>2, <2>3 DEF PublishedInv, ChannelInv, TypeOK
  <1>3. ASSUME NEW t \in Threads, SetAttributesThrows(t) PROVE PublishedInv'
        <2>1. sent' = Append(sent, Torn(Current(t))) /\ cursor' = cursor
              BY <1>3 DEF SetAttributesThrows, sequencer
        <2>2. Torn(Current(t)).type = NoMessage
              BY DEF Torn
        <2> QED BY <2>1, <2>2 DEF PublishedInv, ChannelInv, TypeOK
  <1>4. ASSUME NEW t \in Threads, Publish(t) PROVE PublishedInv'
        <2>1. cursor' = Len(sent) /\ cursor < Len(sent)
              BY <1>4 DEF Publish, Writing, ChannelInv, ClaimInv, CountInv
        <2>2. sent' = Append(sent, Whole(Current(t)))
              BY <1>4 DEF Publish
        <2> QED BY <2>1, <2>2 DEF PublishedInv, ChannelInv, TypeOK
  <1>5. CASE Start \/ Stop \/ DistributorStep \/ HandlerThrows \/ UNCHANGED vars
        BY <1>1, <1>5 DEF Start, Stop, DistributorStep, BeginBatch, OnEvent, EventHandled, EndBatch,
              DistributorHalts, HandlerThrows, vars, sequencer
  <1>6. ASSUME NEW t \in Threads,
               EnterSend(t) \/ NextGate(t) \/ NextTake(t) \/ SetAttributes(t) \/ SetType(t)
                 \/ SetCorrelationId(t)
        PROVE  PublishedInv'
        BY <1>1, <1>6 DEF EnterSend, NextGate, NextTake, SetAttributes, SetType, SetCorrelationId, sequencer
  <1> QED BY <1>2, <1>3, <1>4, <1>5, <1>6 DEF Next, SendStep

(* What the run of two racing threads refutes: as long as no two sends overlap,
   a distributor at rest has handled every event whose send succeeded, although
   a clone that fails leaves a claimed sequence that nobody publishes. *)
THEOREM NothingLostCorrect == Spec /\ []NoOverlap => []NothingLost
  <1>1. Init => PublishedInv
        BY DEF Init, PublishedInv
  <1>2. ChannelInv /\ PublishedInv => NothingLost
        <2> SUFFICES ASSUME ChannelInv, PublishedInv, dpc = "waiting", cursor < dnext,
                            NEW i \in 1 .. Len(sent), sent[i].type # NoMessage
                     PROVE  \E j \in 1 .. Len(received) : received[j] = sent[i]
            BY DEF NothingLost
        <2>1. Len(received) = dnext /\ i - 1 <= cursor
              BY DEF ChannelInv, CountInv, PublishedInv
        <2>2. i \in 1 .. Len(received)
              BY <2>1 DEF ChannelInv, TypeOK
        <2> QED BY <2>2 DEF ChannelInv, Fifo
  <1> QED BY <1>1, <1>2, ChannelInit, ChannelStep, PublishedStep, PTL DEF Spec

-----------------------------------------------------------------------------
(* Waiting for the ring.  There is no ring to wait for before start(); who waits
   has published all that was claimed; and a distributor that waits has freed
   all it handled. *)
WaitInv ==
  /\ \A t \in Threads : pc[t] # "idle" => phase # "created"
  /\ \A t \in Threads : pc[t] = "gate" => cursor = nextValue
  /\ dpc = "waiting" => dnext = consumed + 1
  /\ dpc = "batch" => dnext <= available + 1
  /\ dpc = "handling" => dnext <= available

LEMMA WaitStep == ChannelInv /\ NoOverlap /\ WaitInv /\ [Next]_vars => WaitInv'
  <1> SUFFICES ASSUME ChannelInv, NoOverlap, WaitInv, [Next]_vars PROVE WaitInv'
      OBVIOUS
  <1>1. CASE Start \/ Stop \/ UNCHANGED vars
        BY <1>1 DEF Start, Stop, vars, sequencer, distributor, WaitInv
  <1>2. CASE DistributorStep \/ HandlerThrows
        BY <1>2 DEF DistributorStep, BeginBatch, OnEvent, EventHandled, EndBatch, DistributorHalts,
              HandlerThrows, sequencer, WaitInv, ChannelInv, CountInv, TypeOK
  <1>3. ASSUME NEW t \in Threads, EnterSend(t) PROVE WaitInv'
        <2>1. UNCHANGED <<phase, sequencer, distributor>>
              BY <1>3 DEF EnterSend
        <2>2. \A u \in Threads : pc'[u] = pc[u] \/ (pc'[u] = "next" /\ phase # "created")
              BY <1>3 DEF EnterSend, Goto, ChannelInv, TypeOK
        <2> QED BY <2>1, <2>2 DEF WaitInv, sequencer, distributor
  <1>4. ASSUME NEW t \in Threads, SendStep(t) PROVE WaitInv'
        <2>1. UNCHANGED <<phase, distributor>> /\ pc[t] # "idle"
              BY <1>4 DEF SendStep, NextRead, NextGate, NextTake, SetAttributes, SetAttributesThrows, SetType,
                    SetCorrelationId, Publish
        <2>2. \A u \in Threads : u # t => pc'[u] = "idle"
              BY <1>4, <2>1, SenderAlone DEF Alone, SendStep, NextRead, NextGate, NextTake, SetAttributes,
                    SetAttributesThrows, SetType, SetCorrelationId, Publish, Goto, ChannelInv, TypeOK
        <2>3. pc'[t] = "gate" => cursor' = nextValue'
              BY <1>4 DEF SendStep, NextRead, NextGate, NextTake, SetAttributes, SetAttributesThrows, SetType,
                    SetCorrelationId, Publish, Goto, ChannelInv, TypeOK
        <2> QED BY <2>1, <2>2, <2>3 DEF WaitInv, distributor
  <1> QED BY <1>1, <1>2, <1>3, <1>4 DEF Next

HasRoom(t) == claim[t] - RingSize <= consumed

DistributorMoves ==
  \/ dpc = "waiting" /\ (phase = "halted" \/ (phase = "running" /\ cursor >= dnext))
  \/ dpc = "batch"
  \/ dpc = "handling" /\ pc[Distributor] = "idle"

(* A thread that waits for room in the ring waits for a distributor that goes
   on, unless that has ended. *)
NeverWedged ==
  \A t \in Threads \ {Distributor} :
    pc[t] = "gate" /\ ~HasRoom(t) => DistributorMoves \/ DistributorEnded

(* The one way the ring blocks for good, besides an end of the distributor, is
   the one the self-block run exhibits, a handler that sends into a full ring
   on the distributor's own thread: this is the safety half of SendReturns, for
   every ring size. *)
THEOREM OnlySelfBlocks == Spec /\ []NoOverlap => []NeverWedged
  <1>1. Init => WaitInv
        BY DEF Init, WaitInv
  <1>2. ChannelInv /\ WaitInv /\ NoOverlap => NeverWedged
        <2> SUFFICES ASSUME ChannelInv, WaitInv, NoOverlap, NEW t \in Threads, t # Distributor,
                            pc[t] = "gate", ~HasRoom(t), ~DistributorEnded
                     PROVE  DistributorMoves
            BY DEF NeverWedged
        <2>1. pc[Distributor] = "idle"
              BY ThreadsAssumption DEF NoOverlap
        <2>2. CASE dpc = "waiting"
              <3>1. cursor = claim[t] - 1 /\ dnext = consumed + 1
                    BY <2>2 DEF WaitInv, ChannelInv, ClaimInv, TypeOK
              <3>2. cursor >= dnext
                    BY <3>1, SizeAssumption DEF HasRoom, ChannelInv, TypeOK
              <3>3. phase \in {"running", "halted"}
                    BY DEF WaitInv, ChannelInv, TypeOK
              <3> QED BY <2>2, <3>2, <3>3 DEF DistributorMoves
        <2> QED BY <2>1, <2>2 DEF ChannelInv, TypeOK, DistributorEnded, DistributorMoves
  <1> QED BY <1>1, <1>2, ChannelInit, ChannelStep, WaitStep, PTL DEF Spec

-----------------------------------------------------------------------------
(* A thread that never sends is never inside send(): with a single publishing
   thread the theorems above apply without their assumption. *)
LEMMA OnePublisherNoOverlap ==
  ASSUME \A t, u \in Threads : MaxSends[t] > 0 /\ MaxSends[u] > 0 => t = u
  PROVE  Spec => []NoOverlap
  <1>1. TypeOK /\ Begun => NoOverlap
        <2> SUFFICES ASSUME TypeOK, Begun, NEW t \in Threads, NEW u \in Threads,
                            pc[t] # "idle", pc[u] # "idle"
                     PROVE  t = u
            BY DEF NoOverlap
        <2>1. MaxSends[t] > 0 /\ MaxSends[u] > 0
              BY SendsAssumption DEF TypeOK, Begun
        <2> QED BY <2>1
  <1> QED BY <1>1, TypeInit, TypeStep, PTL DEF Spec

(* A domain with a single publishing thread, the distributor or another one,
   has the channel's guarantees outright: items are handled whole and in the
   order they were sent, none is lost or overwritten before it is handled, only
   a handler that sends blocks the ring, and it is a FIFO queue of RingSize
   places, whatever handlers throw, clones fail and stop() interrupts. *)
THEOREM OnePublisherCorrect ==
  ASSUME \A t, u \in Threads : MaxSends[t] > 0 /\ MaxSends[u] > 0 => t = u
  PROVE  Spec => []Fifo /\ []ExclusiveSlot /\ []NothingLost /\ []NeverWedged /\ ImplementsFifo
  <1>1. Spec => []NoOverlap
        BY OnePublisherNoOverlap
  <1> QED BY <1>1, FifoCorrect, ExclusiveSlotCorrect, NothingLostCorrect, OnlySelfBlocks,
             ChannelRefinesFifo, PTL
=============================================================================
