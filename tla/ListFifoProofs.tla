--------------------------- MODULE ListFifoProofs ---------------------------
(***************************************************************************)
(* Proofs about ListFifo, for any sets of producers and consumers: types,  *)
(* no lost wakeup, mutual exclusion of consumers, and that the list, the   *)
(* event and the mutex implement AbstractFifo.  The last needs the second: *)
(* with two consumers between removal and return, nodes could be returned  *)
(* in another order than they were removed.  Then about UsbNic, which uses *)
(* the queue and sends what it returns: the order of the packets sent, and *)
(* the one owner of the receive transfer.                                  *)
(***************************************************************************)
EXTENDS UsbNic, TLAPS

\* The mutex is held exactly outside "ready", and a consumer has a node in
\* hand only between removal and return.
LockInv ==
  /\ \A c \in Consumer : pc[c] # "ready" <=> pop_lock = c
  /\ \A c \in Consumer : n[c] # None => pc[c] = "return"

IInv == TypeOK /\ LockInv /\ NoLostWakeup

LEMMA InitIInv == Init => IInv
<1> SUFFICES ASSUME Init PROVE IInv
  OBVIOUS
<1> USE ListFifoAssumption DEF Init
<1>1. fifo \in Seq(Node) /\ delivered \in Seq(Node)
  OBVIOUS
<1>2. pushed \in [Producer -> 0 .. MaxPush]
  OBVIOUS
<1>3. /\ pc \in [Producer \cup Consumer -> ProducerPc \cup ConsumerPc]
      /\ \A p \in Producer : pc[p] \in ProducerPc
      /\ \A c \in Consumer : pc[c] \in ConsumerPc /\ pc[c] = "ready"
  BY DEF ProducerPc, ConsumerPc
<1>4. TypeOK
  BY <1>1, <1>2, <1>3 DEF TypeOK
<1>5. LockInv /\ NoLostWakeup
  BY <1>3 DEF LockInv, NoLostWakeup
<1> QED BY <1>4, <1>5 DEF IInv

\* fifo_push preserves the invariant.
LEMMA PushAddStep ==
  ASSUME IInv, NEW p \in Producer, PushAdd(p) PROVE IInv'
<1> USE ListFifoAssumption DEF IInv
<1>1. <<p, pushed[p] + 1>> \in Node
  BY DEF TypeOK, PushAdd, Node
<1>2. fifo' \in Seq(Node) /\ pushed' \in [Producer -> 0 .. MaxPush]
  BY <1>1 DEF TypeOK, PushAdd
<1>3. /\ pc' \in [Producer \cup Consumer -> ProducerPc \cup ConsumerPc]
      /\ \A q \in Producer : pc'[q] \in ProducerPc
      /\ pc'[p] = "signal"
      /\ \A c \in Consumer : pc'[c] = pc[c]
  BY DEF TypeOK, PushAdd, ProducerPc, ConsumerPc
<1>4. TypeOK'
  BY <1>2, <1>3 DEF TypeOK, PushAdd
<1>5. LockInv'
  BY <1>3 DEF LockInv, PushAdd
<1> QED BY <1>3, <1>4, <1>5 DEF NoLostWakeup

LEMMA PushSignalStep ==
  ASSUME IInv, NEW p \in Producer, PushSignal(p) PROVE IInv'
<1> USE ListFifoAssumption DEF IInv
<1>1. /\ pc' \in [Producer \cup Consumer -> ProducerPc \cup ConsumerPc]
      /\ \A q \in Producer : pc'[q] \in ProducerPc
      /\ \A c \in Consumer : pc'[c] = pc[c]
  BY DEF TypeOK, PushSignal, ProducerPc, ConsumerPc
<1>2. TypeOK'
  BY <1>1 DEF TypeOK, PushSignal
<1>3. LockInv'
  BY <1>1 DEF LockInv, PushSignal
<1> QED BY <1>2, <1>3 DEF NoLostWakeup, PushSignal

\* A step of consumer c moves only its own program counter.
LEMMA ConsumerMoves ==
  ASSUME TypeOK, NEW c \in Consumer, NEW l \in ConsumerPc, pc' = [pc EXCEPT ![c] = l]
  PROVE  /\ pc' \in [Producer \cup Consumer -> ProducerPc \cup ConsumerPc]
         /\ \A q \in Producer : pc'[q] = pc[q] /\ pc'[q] \in ProducerPc
         /\ \A d \in Consumer : pc'[d] \in ConsumerPc
         /\ pc'[c] = l
         /\ \A d \in Consumer : d # c => pc'[d] = pc[d]
BY ListFifoAssumption DEF TypeOK

LEMMA ConsumerStep ==
  ASSUME IInv, NEW c \in Consumer,
         PopLock(c) \/ PopWait(c) \/ PopRemove(c) \/ PopReturn(c) \/ PopPanics(c)
  PROVE  IInv'
<1> USE ListFifoAssumption DEF IInv
<1>0. {"ready", "wait", "remove", "return"} \subseteq ConsumerPc
  BY DEF ConsumerPc
<1>1. CASE PopLock(c)
  <2>1. pc' = [pc EXCEPT ![c] = "wait"]
    BY <1>1 DEF PopLock
  <2>2. TypeOK'
    BY <1>0, <1>1, <2>1, ConsumerMoves DEF TypeOK, PopLock
  <2>3. LockInv'
    BY <1>0, <1>1, <2>1, ConsumerMoves DEF LockInv, PopLock
  <2>4. NoLostWakeup'
    BY <1>0, <1>1, <2>1, ConsumerMoves DEF NoLostWakeup, PopLock
  <2> QED BY <2>2, <2>3, <2>4
<1>2. CASE PopWait(c)
  <2>1. pc' = [pc EXCEPT ![c] = "remove"]
    BY <1>2 DEF PopWait
  <2>2. TypeOK'
    BY <1>0, <1>2, <2>1, ConsumerMoves DEF TypeOK, PopWait
  <2>3. LockInv'
    BY <1>0, <1>2, <2>1, ConsumerMoves DEF LockInv, PopWait
  <2>4. NoLostWakeup'
    BY <1>0, <1>2, <2>1, ConsumerMoves DEF NoLostWakeup, PopWait
  <2> QED BY <2>2, <2>3, <2>4
<1>3. CASE PopRemove(c)
  <2>1. pc' = [pc EXCEPT ![c] = "return"]
    BY <1>3 DEF PopRemove
  <2>2. /\ fifo' \in Seq(Node) /\ n' \in [Consumer -> Node \cup {None}]
        /\ evt' \in BOOLEAN
        /\ \A d \in Consumer : d # c => n'[d] = n[d]
    <3>1. fifo \in Seq(Node) /\ n \in [Consumer -> Node \cup {None}]
      BY DEF TypeOK
    <3>2. evt' \in BOOLEAN
      BY <1>3 DEF PopRemove
    <3>3. CASE fifo # <<>> /\ fifo' = Tail(fifo) /\ n' = [n EXCEPT ![c] = Head(fifo)]
      <4>1. Head(fifo) \in Node /\ fifo' \in Seq(Node)
        BY <3>1, <3>3
      <4> QED BY <3>1, <3>2, <3>3, <4>1
    <3>4. CASE fifo = <<>> /\ fifo' = fifo /\ n' = [n EXCEPT ![c] = None]
      BY <3>1, <3>2, <3>4
    <3> QED BY <1>3, <3>3, <3>4 DEF PopRemove
  <2>3. TypeOK'
    BY <1>0, <1>3, <2>1, <2>2, ConsumerMoves DEF TypeOK, PopRemove
  <2>4. LockInv'
    BY <1>0, <1>3, <2>1, <2>2, ConsumerMoves DEF LockInv, PopRemove
  <2>5. fifo' # <<>> => fifo # <<>> /\ evt' = evt
    BY <1>3 DEF PopRemove, TypeOK
  <2>6. NoLostWakeup'
    BY <1>0, <2>1, <2>5, ConsumerMoves DEF NoLostWakeup
  <2> QED BY <2>3, <2>4, <2>6
<1>4. CASE PopReturn(c)
  <2>1. pc' = [pc EXCEPT ![c] = "ready"]
    BY <1>4 DEF PopReturn
  <2>2. /\ n' \in [Consumer -> Node \cup {None}] /\ delivered' \in Seq(Node)
        /\ n'[c] = None
        /\ \A d \in Consumer : d # c => n'[d] = n[d]
    BY <1>4 DEF TypeOK, PopReturn
  <2>3. TypeOK'
    BY <1>0, <1>4, <2>1, <2>2, ConsumerMoves DEF TypeOK, PopReturn
  <2>4. LockInv'
    <3>1. pc'[c] = "ready" /\ \A d \in Consumer : d # c => pc'[d] = pc[d]
      BY <1>0, <2>1, ConsumerMoves
    <3>2. pc[c] = "return" /\ pop_lock' = None /\ pop_lock = c /\ None \notin Consumer
      BY <1>4 DEF PopReturn, LockInv
    <3>3. \A d \in Consumer : pc'[d] # "ready" <=> pop_lock' = d
      BY <3>1, <3>2 DEF LockInv
    <3>4. \A d \in Consumer : n'[d] # None => pc'[d] = "return"
      BY <2>2, <3>1 DEF LockInv
    <3> QED BY <3>3, <3>4 DEF LockInv
  <2>5. NoLostWakeup'
    BY <1>0, <1>4, <2>1, ConsumerMoves DEF NoLostWakeup, PopReturn
  <2> QED BY <2>3, <2>4, <2>5
<1>5. CASE PopPanics(c)
  BY <1>5 DEF TypeOK, LockInv, NoLostWakeup, PopPanics
<1> QED BY <1>1, <1>2, <1>3, <1>4, <1>5

LEMMA Inductive == IInv /\ [Next]_vars => IInv'
<1> SUFFICES ASSUME IInv, [Next]_vars PROVE IInv'
  OBVIOUS
<1>1. CASE UNCHANGED vars
  BY <1>1 DEF IInv, TypeOK, LockInv, NoLostWakeup, vars
<1> QED BY <1>1, PushAddStep, PushSignalStep, ConsumerStep DEF Next

LEMMA Invariance == Spec => []IInv
BY InitIInv, Inductive, PTL DEF Spec

\* TypeOK: the queue's state keeps its types.
THEOREM Typing == Spec => []TypeOK
<1>1. IInv => TypeOK
  BY DEF IInv
<1> QED BY <1>1, Invariance, PTL

\* Signaling after the unlock loses no wakeup: see NoLostWakeup.
THEOREM NoWakeupLost == Spec => []NoLostWakeup
<1>1. IInv => NoLostWakeup
  BY DEF IInv
<1> QED BY <1>1, Invariance, PTL

\* pop_lock keeps a second consumer out until the node is returned.
THEOREM MutualExclusion == Spec => []OneConsumer
<1>1. IInv => OneConsumer
  BY DEF IInv, LockInv, OneConsumer
<1> QED BY <1>1, Invariance, PTL

-----------------------------------------------------------------------------
(* Refinement *)

LEMMA EmptyConcat ==
  ASSUME NEW S, NEW s \in Seq(S) PROVE <<>> \o s = s
OBVIOUS

LEMMA HeadConcat ==
  ASSUME NEW S, NEW s \in Seq(S), s # <<>> PROVE <<Head(s)>> \o Tail(s) = s
OBVIOUS

LEMMA ConcatHead ==
  ASSUME NEW S, NEW s \in Seq(S), NEW x \in S
  PROVE  <<x>> \o s # <<>> /\ Head(<<x>> \o s) = x /\ Tail(<<x>> \o s) = s
OBVIOUS

LEMMA ConcatAppend ==
  ASSUME NEW S, NEW s \in Seq(S), NEW t \in Seq(S), NEW x \in S
  PROVE  t \o Append(s, x) = Append(t \o s, x)
OBVIOUS

\* What is taken depends on the mutex: the holder's node, if it has one.
LEMMA TakenFacts ==
  ASSUME IInv
  PROVE  /\ Taken \in Seq(Node)
         /\ \A c \in Consumer : pc[c] # "ready" /\ n[c] = None => Taken = <<>>
         /\ \A c \in Consumer : n[c] # None => Taken = <<n[c]>> /\ n[c] \in Node
         /\ pop_lock = None => Taken = <<>>
<1>1. n \in [Consumer -> Node \cup {None}] /\ pop_lock \in Consumer \cup {None}
  BY DEF IInv, TypeOK
<1>2. \A c \in Consumer : n[c] # None => n[c] \in Node /\ pop_lock = c
  BY <1>1 DEF IInv, LockInv
<1>3. Taken \in Seq(Node)
  BY <1>1 DEF Taken
<1> QED BY <1>1, <1>2, <1>3, ListFifoAssumption DEF Taken, IInv, LockInv

LEMMA RefinesInit == Init => Fifo!Init
BY ListFifoAssumption DEF Init, Fifo!Init, Taken

LEMMA RefinesStep ==
  IInv /\ IInv' /\ [Next]_vars
    => [Fifo!Next]_<<Taken \o fifo, delivered, 0>>
<1> SUFFICES ASSUME IInv, IInv', [Next]_vars
             PROVE  Fifo!Next \/ (Taken' \o fifo' = Taken \o fifo /\ delivered' = delivered)
  OBVIOUS
<1>0. fifo \in Seq(Node) /\ Taken \in Seq(Node) /\ n \in [Consumer -> Node \cup {None}]
  BY TakenFacts DEF IInv, TypeOK
<1>1. ASSUME NEW p \in Producer, PushAdd(p) PROVE Fifo!Next
  <2> DEFINE x == <<p, pushed[p] + 1>>
  <2>1. x \in Node
    BY <1>1 DEF PushAdd, Node, IInv, TypeOK
  <2>2. Taken' = Taken
    BY <1>1 DEF PushAdd, Taken
  <2>3. fifo' = Append(fifo, x) /\ delivered' = delivered
    BY <1>1 DEF PushAdd
  <2> HIDE DEF x
  <2>4. Taken' \o fifo' = Append(Taken \o fifo, x)
    BY <1>0, <2>1, <2>2, <2>3, ConcatAppend
  <2> QED BY <2>1, <2>3, <2>4 DEF Fifo!Next, Fifo!Put
<1>2. ASSUME NEW p \in Producer, PushSignal(p)
      PROVE  Taken' \o fifo' = Taken \o fifo /\ delivered' = delivered
  BY <1>2 DEF PushSignal, Taken
<1>3. ASSUME NEW c \in Consumer, PopLock(c)
      PROVE  Taken' \o fifo' = Taken \o fifo /\ delivered' = delivered
  <2>1. pop_lock = None /\ n[c] = None /\ pop_lock' = c /\ n' = n
    BY <1>3 DEF PopLock, IInv, LockInv
  <2>2. Taken = <<>> /\ Taken' = <<>>
    BY <2>1, ListFifoAssumption DEF Taken
  <2> QED BY <1>3, <2>2 DEF PopLock
<1>4. ASSUME NEW c \in Consumer, PopWait(c) \/ PopPanics(c)
      PROVE  Taken' \o fifo' = Taken \o fifo /\ delivered' = delivered
  BY <1>4 DEF PopWait, PopPanics, Taken
<1>5. ASSUME NEW c \in Consumer, PopRemove(c)
      PROVE  Taken' \o fifo' = Taken \o fifo /\ delivered' = delivered
  <2>1. pc[c] = "remove" /\ n[c] = None /\ delivered' = delivered
    BY <1>5 DEF PopRemove, IInv, LockInv
  <2>2. Taken = <<>> /\ Taken \o fifo = fifo
    BY <1>0, <2>1, TakenFacts, EmptyConcat
  <2>3. CASE fifo # <<>> /\ fifo' = Tail(fifo) /\ n' = [n EXCEPT ![c] = Head(fifo)]
    <3>1. Head(fifo) \in Node
      BY <1>0, <2>3
    <3>2. n'[c] = Head(fifo) /\ Head(fifo) # None
      BY <1>0, <2>3, <3>1, ListFifoAssumption DEF Node
    <3>3. Taken' = <<Head(fifo)>>
      <4>1. pop_lock' = c
        BY <1>5, <2>1 DEF PopRemove, IInv, LockInv
      <4> QED BY <3>2, <4>1 DEF Taken
    <3> QED BY <1>0, <2>1, <2>2, <2>3, <3>3, HeadConcat
  <2>4. CASE fifo = <<>> /\ fifo' = fifo /\ n' = [n EXCEPT ![c] = None]
    <3>1. n' = n
      BY <1>0, <2>1, <2>4
    <3> QED BY <1>5, <2>1, <2>4, <3>1 DEF PopRemove, Taken
  <2> QED BY <1>5, <2>3, <2>4 DEF PopRemove
<1>6. ASSUME NEW c \in Consumer, PopReturn(c) PROVE Fifo!Next
  <2>1. /\ n[c] # None /\ n[c] \in Node /\ Taken = <<n[c]>>
        /\ delivered' = Append(delivered, n[c]) /\ fifo' = fifo /\ pop_lock' = None
    BY <1>6, TakenFacts DEF PopReturn
  <2>2. Taken' = <<>>
    BY <2>1, ListFifoAssumption DEF Taken
  <2>3. /\ Taken \o fifo # <<>> /\ Head(Taken \o fifo) = n[c]
        /\ Taken' \o fifo' = Tail(Taken \o fifo)
    BY <1>0, <2>1, <2>2, EmptyConcat, ConcatHead
  <2> QED BY <2>1, <2>3 DEF Fifo!Next, Fifo!Deliver
<1>7. CASE UNCHANGED vars
  BY <1>7 DEF vars, Taken
<1> QED BY <1>1, <1>2, <1>3, <1>4, <1>5, <1>6, <1>7 DEF Next

\* The queue implements AbstractFifo: every node is delivered once, in the
\* order in which the nodes were added.
THEOREM Refinement == Spec => DeliversInOrder
BY RefinesInit, RefinesStep, Invariance, PTL
   DEF Spec, DeliversInOrder, Fifo!Spec, Fifo!vars

-----------------------------------------------------------------------------
(* The network adapter *)

QueueState == <<fifo, evt, pop_lock, pushed, pc, n, delivered>>

\* The threads of the adapter use the queue only through fifo_push and fifo_pop.
LEMMA QueueOrNot ==
  ASSUME [NicNext]_nicVars PROVE [Next]_vars \/ UNCHANGED QueueState
<1> USE NicAssumption
<1>1. ASSUME NEW p \in Producer, TxQueue(p) PROVE Next
  BY <1>1 DEF TxQueue, Next
<1>2. CASE TxPop
  <2>1. PopLock(Tx) \/ PopWait(Tx) \/ PopRemove(Tx) \/ PopReturn(Tx) \/ PopPanics(Tx)
    BY <1>2 DEF TxPop
  <2> QED BY <2>1 DEF Next
<1>3. CASE TxCopy \/ TxPanics \/ TxSend \/ TxComplete
  BY <1>3 DEF TxCopy, TxPanics, TxSend, TxComplete, QueueState, vars
<1>4. CASE StartRx \/ StartRxPanics \/ RxWait \/ RxArrives \/ RxSignal \/ Unplug
  BY <1>4 DEF StartRx, StartRxPanics, RxWait, RxArrives, RxSignal, Unplug, QueueState, vars
<1>5. CASE UNCHANGED nicVars
  BY <1>5 DEF nicVars
<1> QED BY <1>1, <1>2, <1>3, <1>4, <1>5 DEF NicNext, TxThread

LEMMA PanicTyped == NicTypeOK /\ [NicNext]_nicVars => panic' \in BOOLEAN
<1> SUFFICES ASSUME NicTypeOK, [NicNext]_nicVars PROVE panic' \in BOOLEAN
  OBVIOUS
<1>0. panic \in BOOLEAN
  BY DEF NicTypeOK, TypeOK
<1>1. ASSUME NEW p \in Producer, TxQueue(p) PROVE panic' \in BOOLEAN
  BY <1>0, <1>1 DEF TxQueue, PushAdd, PushSignal
<1>2. CASE TxThread
  BY <1>0, <1>2 DEF TxThread, TxPop, TxCopy, TxPanics, TxSend, PopLock, PopWait,
                    PopRemove, PopReturn, PopPanics, vars
<1>3. CASE TxComplete \/ StartRx \/ StartRxPanics \/ RxWait \/ RxArrives \/ RxSignal \/ Unplug
  BY <1>0, <1>3 DEF TxComplete, StartRx, StartRxPanics, RxWait, RxArrives, RxSignal, Unplug, vars
<1>4. CASE UNCHANGED nicVars
  BY <1>0, <1>4 DEF nicVars, vars
<1> QED BY <1>1, <1>2, <1>3, <1>4 DEF NicNext

\* What the transmit thread has in hand: the one packet delivered and not sent.
InHand ==
  /\ Len(delivered) = Len(sent) + (IF tx = "pop" THEN 0 ELSE 1)
  /\ tx = "send" => tx_buffer \in {Packet} \cup {g \in {Garbage} : freed_twice}
  /\ out_busy => sent # <<>>

NicInv == IInv /\ NicTypeOK /\ InHand /\ SentInOrder /\ OneReceiver

LEMMA NicInitInv == NicInit => NicInv
<1> SUFFICES ASSUME NicInit PROVE NicInv
  OBVIOUS
<1>1. IInv /\ TypeOK
  BY InitIInv DEF NicInit, IInv
<1>2. NicTypeOK
  <2>1. sent \in Seq(Transfer)
    BY DEF NicInit
  <2> QED BY <1>1, <2>1 DEF NicInit, NicTypeOK
<1>3. InHand /\ SentInOrder
  BY DEF NicInit, Init, InHand, SentInOrder
<1>4. OneReceiver
  BY DEF NicInit, OneReceiver
<1> QED BY <1>1, <1>2, <1>3, <1>4 DEF NicInv

LEMMA QueueKept == NicInv /\ [NicNext]_nicVars => IInv'
<1> SUFFICES ASSUME NicInv, [NicNext]_nicVars PROVE IInv'
  OBVIOUS
<1>1. CASE [Next]_vars
  BY <1>1, Inductive DEF NicInv
<1>2. CASE UNCHANGED QueueState
  <2>1. panic' \in BOOLEAN
    BY PanicTyped DEF NicInv
  <2> QED BY <1>2, <2>1 DEF QueueState, NicInv, IInv, TypeOK, LockInv, NoLostWakeup
<1> QED BY <1>1, <1>2, QueueOrNot

\* The transmit thread and the packets it has sent.
LEMMA NicSending ==
  ASSUME NicInv, [NicNext]_nicVars
  PROVE  /\ InHand' /\ SentInOrder'
         /\ tx' \in {"pop", "copy", "send"} /\ out_busy' \in BOOLEAN
         /\ tx_buffer' \in Node \cup {Garbage, None} /\ sent' \in Seq(Transfer)
         /\ freed_twice' \in BOOLEAN
<1> USE NicAssumption DEF NicInv
<1>0. /\ delivered \in Seq(Node) /\ sent \in Seq(Transfer) /\ tx \in {"pop", "copy", "send"}
      /\ tx_buffer \in Node \cup {Garbage, None} /\ out_busy \in BOOLEAN
      /\ n \in [Consumer -> Node \cup {None}] /\ freed_twice \in BOOLEAN
  BY DEF NicTypeOK, TypeOK
<1>1. CASE UNCHANGED <<delivered, txVars>>
  BY <1>0, <1>1 DEF txVars, InHand, SentInOrder, MayCarry, Packet
<1>2. CASE TxPop /\ PopReturn(Tx) /\ tx' = "copy"
  <2>1. /\ n[Tx] \in Node /\ delivered' = Append(delivered, n[Tx])
        /\ UNCHANGED <<tx_buffer, out_busy, sent, freed_twice>> /\ tx = "pop"
    BY <1>0, <1>2 DEF TxPop, PopReturn
  <2>2. /\ Len(delivered') = Len(delivered) + 1
        /\ \A i \in 1 .. Len(delivered) : delivered'[i] = delivered[i]
    BY <1>0, <2>1
  <2>3. ASSUME NEW i \in DOMAIN sent PROVE MayCarry(i) \subseteq MayCarry(i)'
    BY <1>0, <2>1, <2>2 DEF MayCarry
  <2>4. SentInOrder'
    BY <1>0, <2>1, <2>2, <2>3 DEF SentInOrder, InHand
  <2>5. InHand'
    BY <1>0, <1>2, <2>1, <2>2 DEF InHand
  <2> QED BY <1>0, <1>2, <2>1, <2>4, <2>5
<1>3. CASE TxCopy
  <2>0. freed_twice' \in BOOLEAN /\ (freed_twice => freed_twice')
    <3>1. freed_twice' = freed_twice \/ freed_twice' = TRUE
      BY <1>3 DEF TxCopy
    <3> QED BY <1>0, <3>1
  <2>1. /\ tx = "copy" /\ tx' = "send" /\ UNCHANGED <<delivered, out_busy>>
        /\ Packet' = Packet
        /\ tx_buffer' \in {Packet} \cup {g \in {Garbage} : freed_twice'}
        /\ sent' = IF out_busy
                     THEN [sent EXCEPT ![Len(sent)].carries = @ \cup {tx_buffer'}]
                     ELSE sent
    BY <1>3 DEF TxCopy, vars, Packet
  <2>2. Len(delivered) = Len(sent) + 1 /\ Packet = delivered[Len(sent) + 1] /\ Packet \in Node
    BY <1>0, <2>1 DEF InHand, Packet
  <2>3. CASE ~out_busy
    BY <1>0, <2>0, <2>1, <2>2, <2>3 DEF InHand, SentInOrder, MayCarry
  <2>4. CASE out_busy
    <3>1. Len(sent) \in DOMAIN sent
      BY <1>0, <2>4 DEF InHand
    <3>2. /\ DOMAIN sent' = DOMAIN sent /\ Len(sent') = Len(sent)
          /\ \A i \in DOMAIN sent : i # Len(sent) => sent'[i] = sent[i]
          /\ sent'[Len(sent)].packet = sent[Len(sent)].packet
          /\ sent'[Len(sent)].carries = sent[Len(sent)].carries \cup {tx_buffer'}
          /\ sent' \in Seq(Transfer)
      <4> DEFINE t == [sent[Len(sent)] EXCEPT !.carries = @ \cup {tx_buffer'}]
      <4>1. sent[Len(sent)] \in Transfer /\ tx_buffer' \in Node \cup {Garbage}
        BY <1>0, <2>1, <2>2, <3>1
      <4>2. /\ t \in Transfer /\ t.packet = sent[Len(sent)].packet
            /\ t.carries = sent[Len(sent)].carries \cup {tx_buffer'}
        BY <4>1 DEF Transfer
      <4>3. sent' = [sent EXCEPT ![Len(sent)] = t]
        BY <2>1, <2>4
      <4> HIDE DEF t
      <4> QED BY <1>0, <3>1, <4>2, <4>3
    <3>3. tx_buffer' \in MayCarry(Len(sent))'
      BY <1>0, <2>1, <2>2, <3>1 DEF MayCarry
    <3>4. ASSUME NEW i \in DOMAIN sent PROVE MayCarry(i) \subseteq MayCarry(i)'
      BY <2>0, <2>1 DEF MayCarry
    <3>5. SentInOrder'
      BY <1>0, <2>1, <2>2, <3>1, <3>2, <3>3, <3>4 DEF SentInOrder
    <3>6. InHand'
      BY <1>0, <2>1, <2>2, <2>4, <3>1, <3>2 DEF InHand
    <3> QED BY <1>0, <2>0, <2>1, <2>2, <3>2, <3>5, <3>6
  <2> QED BY <1>0, <2>0, <2>3, <2>4
<1>4. CASE TxSend
  <2>1. /\ tx = "send" /\ tx' = "pop" /\ out_busy' = TRUE
        /\ UNCHANGED <<delivered, tx_buffer, freed_twice>>
        /\ sent' = Append(sent, [packet |-> Packet, carries |-> {tx_buffer}])
    BY <1>4 DEF TxSend, vars
  <2>2. Len(delivered) = Len(sent) + 1 /\ Packet = delivered[Len(sent) + 1] /\ Packet \in Node
    BY <1>0, <2>1 DEF InHand, Packet
  <2>3. [packet |-> Packet, carries |-> {tx_buffer}] \in Transfer
        /\ tx_buffer \in {Packet} \cup {g \in {Garbage} : freed_twice}
    BY <1>0, <2>1, <2>2 DEF InHand, Transfer
  <2>4. /\ sent' \in Seq(Transfer) /\ Len(sent') = Len(sent) + 1
        /\ \A i \in DOMAIN sent : sent'[i] = sent[i]
        /\ sent'[Len(sent) + 1] = [packet |-> Packet, carries |-> {tx_buffer}]
    BY <1>0, <2>1, <2>3
  <2>5. tx_buffer \in MayCarry(Len(sent) + 1)
    BY <1>0, <2>2, <2>3 DEF MayCarry
  <2>6. \A i \in Nat : MayCarry(i)' = MayCarry(i)
    BY <2>1 DEF MayCarry
  <2>7. SentInOrder'
    <3>1. ASSUME NEW i \in DOMAIN sent'
          PROVE  sent'[i].packet = delivered'[i] /\ sent'[i].carries \subseteq MayCarry(i)'
      <4>1. CASE i \in DOMAIN sent
        BY <1>0, <2>1, <2>4, <2>6, <4>1 DEF SentInOrder
      <4>2. CASE i = Len(sent) + 1
        BY <1>0, <2>1, <2>2, <2>4, <2>5, <2>6, <4>2
      <4> QED BY <1>0, <2>4, <4>1, <4>2
    <3> QED BY <1>0, <2>1, <2>2, <2>4, <3>1 DEF SentInOrder
  <2>8. InHand'
    BY <1>0, <2>1, <2>2, <2>4 DEF InHand
  <2> QED BY <1>0, <2>1, <2>4, <2>7, <2>8
<1>5. CASE TxComplete
  <2>1. UNCHANGED <<delivered, tx, tx_buffer, sent, freed_twice>> /\ out_busy' = FALSE
    BY <1>5 DEF TxComplete, vars
  <2>2. SentInOrder'
    BY <2>1 DEF SentInOrder, MayCarry
  <2>3. InHand'
    BY <2>1 DEF InHand, Packet
  <2> QED BY <1>0, <2>1, <2>2, <2>3
<1>6. ASSUME NEW p \in Producer, TxQueue(p) PROVE UNCHANGED <<delivered, txVars>>
  BY <1>6 DEF TxQueue, PushAdd, PushSignal
<1>7. CASE TxPop /\ UNCHANGED tx
  BY <1>1, <1>7 DEF TxPop, txVars, PopLock, PopWait, PopRemove, PopPanics
<1>8. CASE \/ TxPanics \/ StartRx \/ StartRxPanics \/ RxWait \/ RxArrives \/ RxSignal \/ Unplug
           \/ UNCHANGED nicVars
  BY <1>1, <1>8 DEF TxPanics, StartRx, StartRxPanics, RxWait, RxArrives, RxSignal, Unplug, nicVars, vars
<1>9. TxPop => (TxPop /\ PopReturn(Tx) /\ tx' = "copy") \/ (TxPop /\ UNCHANGED tx)
  BY DEF TxPop
<1> QED BY <1>1, <1>2, <1>3, <1>4, <1>5, <1>6, <1>7, <1>8, <1>9 DEF NicNext, TxThread

\* Counting the owners of rx_xfer.
Exactly(a, b, c, d) ==
  /\ a \/ b \/ c \/ d
  /\ ~(a /\ b) /\ ~(a /\ c) /\ ~(a /\ d) /\ ~(b /\ c) /\ ~(b /\ d) /\ ~(c /\ d)

Handed ==
  IF rx = "refused" THEN ~in_busy /\ ~rx_cb /\ ~rx_running /\ ~plugged
                    ELSE Exactly(rx = "start", in_busy, rx_cb, rx_running)

LEMMA OwnersCounted ==
  ASSUME NEW S, S \subseteq {"thread", "transfer", "callback", "event"}
  PROVE  (\E o \in S : S = {o})
           <=> Exactly("thread" \in S, "transfer" \in S, "callback" \in S, "event" \in S)
<1>1. ASSUME NEW o \in S, S = {o}
      PROVE  Exactly("thread" \in S, "transfer" \in S, "callback" \in S, "event" \in S)
  BY <1>1 DEF Exactly
<1>2. ASSUME Exactly("thread" \in S, "transfer" \in S, "callback" \in S, "event" \in S)
      PROVE  \E o \in S : S = {o}
  <2>1. "thread" \in S => S = {"thread"}
    BY <1>2 DEF Exactly
  <2>2. "transfer" \in S => S = {"transfer"}
    BY <1>2 DEF Exactly
  <2>3. "callback" \in S => S = {"callback"}
    BY <1>2 DEF Exactly
  <2>4. "event" \in S => S = {"event"}
    BY <1>2 DEF Exactly
  <2> QED BY <1>2, <2>1, <2>2, <2>3, <2>4 DEF Exactly
<1> QED BY <1>1, <1>2

RxTyped ==
  /\ rx \in {"start", "wait", "refused"} /\ rx_running \in BOOLEAN
  /\ in_busy \in BOOLEAN /\ rx_cb \in BOOLEAN /\ plugged \in BOOLEAN

\* OneReceiver without its set of owners.
LEMMA OneReceiverIsHanded == RxTyped => (OneReceiver <=> Handed)
<1> SUFFICES ASSUME RxTyped PROVE OneReceiver <=> Handed
  OBVIOUS
<1> DEFINE S == {o \in {"thread", "transfer", "callback", "event"} :
                   \/ o = "thread"   /\ rx = "start"
                   \/ o = "transfer" /\ in_busy
                   \/ o = "callback" /\ rx_cb
                   \/ o = "event"    /\ rx_running}
<1>1. OneReceiver <=> IF rx = "refused" THEN S = {} /\ ~plugged ELSE \E o \in S : S = {o}
  BY DEF OneReceiver
<1>2. /\ S \subseteq {"thread", "transfer", "callback", "event"}
      /\ "thread" \in S <=> rx = "start"
      /\ "transfer" \in S <=> in_busy
      /\ "callback" \in S <=> rx_cb
      /\ "event" \in S <=> rx_running
  OBVIOUS
<1> HIDE DEF S
<1>3. CASE rx = "refused"
  BY <1>1, <1>2, <1>3 DEF Handed
<1>4. CASE rx # "refused"
  <2>1. OneReceiver
          <=> Exactly("thread" \in S, "transfer" \in S, "callback" \in S, "event" \in S)
    BY <1>1, <1>2, <1>4, OwnersCounted
  <2>2. Exactly("thread" \in S, "transfer" \in S, "callback" \in S, "event" \in S)
          <=> Exactly(rx = "start", in_busy, rx_cb, rx_running)
    BY <1>2 DEF Exactly, RxTyped
  <2> QED BY <1>4, <2>1, <2>2 DEF Handed
<1> QED BY <1>3, <1>4

LEMMA OneReceiverIsHandedNext == RxTyped' => (OneReceiver' <=> Handed')
BY OneReceiverIsHanded, PTL

\* The receive transfer and its owner.
LEMMA NicReceiving ==
  ASSUME NicInv, [NicNext]_nicVars
  PROVE  /\ OneReceiver' /\ rx' \in {"start", "wait", "refused"} /\ rx_running' \in BOOLEAN
         /\ in_busy' \in BOOLEAN /\ rx_cb' \in BOOLEAN /\ plugged' \in BOOLEAN
<1> USE DEF NicInv
<1>0. /\ rx \in {"start", "wait", "refused"} /\ rx_running \in BOOLEAN
      /\ in_busy \in BOOLEAN /\ rx_cb \in BOOLEAN /\ plugged \in BOOLEAN
  BY DEF NicTypeOK
<1>h. Handed
  BY <1>0, OneReceiverIsHanded DEF RxTyped
<1> DEFINE Kept == /\ Handed' /\ rx' \in {"start", "wait", "refused"}
                   /\ rx_running' \in BOOLEAN /\ in_busy' \in BOOLEAN
                   /\ rx_cb' \in BOOLEAN /\ plugged' \in BOOLEAN
<1>1. ASSUME UNCHANGED <<rxVars, plugged>> PROVE Kept
  BY <1>0, <1>h, <1>1 DEF rxVars, Handed
<1>2. ASSUME StartRx PROVE Kept
  BY <1>0, <1>h, <1>2 DEF StartRx, Handed, Exactly
<1>3. ASSUME RxWait PROVE Kept
  BY <1>0, <1>h, <1>3 DEF RxWait, Handed, Exactly
<1>4. ASSUME RxArrives PROVE Kept
  BY <1>0, <1>h, <1>4 DEF RxArrives, Handed, Exactly
<1>5. ASSUME RxSignal PROVE Kept
  BY <1>0, <1>h, <1>5 DEF RxSignal, Handed, Exactly
<1>6. ASSUME Unplug PROVE Kept
  BY <1>0, <1>h, <1>6 DEF Unplug, rxVars, Handed
<1>7. ASSUME NEW p \in Producer, TxQueue(p) PROVE UNCHANGED <<rxVars, plugged>>
  BY <1>7 DEF TxQueue
<1>8. ASSUME TxThread \/ TxComplete \/ StartRxPanics \/ UNCHANGED nicVars PROVE Kept
  BY <1>1, <1>8 DEF TxThread, TxPop, TxCopy, TxPanics, TxSend, TxComplete, StartRxPanics, nicVars
<1>9. Kept
  <2> HIDE DEF Kept
  <2> QED BY <1>1, <1>2, <1>3, <1>4, <1>5, <1>6, <1>7, <1>8 DEF NicNext
<1>10. OneReceiver'
  BY <1>9, OneReceiverIsHandedNext DEF RxTyped
<1> QED BY <1>9, <1>10

LEMMA NicInvariance == NicSpec => []NicInv
<1>1. NicInv /\ [NicNext]_nicVars => NicInv'
  <2> SUFFICES ASSUME NicInv, [NicNext]_nicVars PROVE NicInv'
    OBVIOUS
  <2>1. IInv' /\ TypeOK'
    BY QueueKept DEF IInv
  <2>2. NicTypeOK'
    BY <2>1, NicSending, NicReceiving DEF NicTypeOK
  <2> QED BY <2>1, <2>2, NicSending, NicReceiving DEF NicInv
<1> QED BY <1>1, NicInitInv, PTL DEF NicSpec

\* NicTypeOK: the adapter's state, and the queue's in it, keep their types.
THEOREM NicTyping == NicSpec => []NicTypeOK
<1>1. NicInv => NicTypeOK
  BY DEF NicInv
<1> QED BY <1>1, NicInvariance, PTL

\* nic_tx sends the packets in the order queued and without a gap, though its
\* buffer may be overwritten while it is sent: see SentInOrder.
THEOREM PacketsInOrder == NicSpec => []SentInOrder
<1>1. NicInv => SentInOrder
  BY DEF NicInv
<1> QED BY <1>1, NicInvariance, PTL

\* start_rx, rx_cb and nic_rx_thread hand rx_xfer round: it has one owner.
THEOREM OneReceiverAtATime == NicSpec => []OneReceiver
<1>1. NicInv => OneReceiver
  BY DEF NicInv
<1> QED BY <1>1, NicInvariance, PTL

\* With the stack, the USB thread and the transmit thread around it the queue
\* still implements AbstractFifo.
THEOREM NicRefinement == NicSpec => DeliversInOrder
<1>1. IInv /\ IInv' /\ [NicNext]_nicVars => [Fifo!Next]_<<Taken \o fifo, delivered, 0>>
  <2> SUFFICES ASSUME IInv, IInv', [NicNext]_nicVars
               PROVE  [Fifo!Next]_<<Taken \o fifo, delivered, 0>>
    OBVIOUS
  <2>1. CASE UNCHANGED QueueState
    BY <2>1 DEF QueueState, Taken
  <2>2. CASE [Next]_vars
    BY <2>2, RefinesStep
  <2> QED BY <2>1, <2>2, QueueOrNot
<1>2. NicInv => IInv
  BY DEF NicInv
<1>3. NicInit => Fifo!Init
  BY RefinesInit DEF NicInit
<1> QED BY <1>1, <1>2, <1>3, NicInvariance, PTL
    DEF NicSpec, DeliversInOrder, Fifo!Spec, Fifo!vars
-----------------------------------------------------------------------------
(* From the network stack to the wire *)

\* The packet the transmit thread has popped and not yet sent.
InThread == IF tx = "pop" THEN <<>> ELSE <<Packet>>

PacketsSent == [i \in DOMAIN sent |-> sent[i].packet]

Wire == INSTANCE AbstractFifo
          WITH Element <- Node, Capacity <- 0, waiting <- InThread \o (Taken \o fifo),
               delivered <- PacketsSent, refused <- 0

\* The adapter as a whole, from netif->linkoutput to the USB transfers, is one
\* fifo: a packet waits in the list, in fifo_pop or in the transmit thread.
SendsInOrder == Wire!Spec

\* A step that sends nothing is a step of the queue, seen from the list on.
LEMMA QueuePart ==
  ASSUME NicInv, NicInv', [NicNext]_nicVars, delivered' = delivered
  PROVE  \/ Taken' \o fifo' = Taken \o fifo
         \/ \E x \in Node : Taken' \o fifo' = Append(Taken \o fifo, x)
<1>0. delivered \in Seq(Node)
  BY DEF NicInv, NicTypeOK, TypeOK
<1>1. CASE UNCHANGED QueueState
  BY <1>1 DEF QueueState, Taken
<1>2. CASE [Next]_vars
  <2>1. Fifo!Next \/ Taken' \o fifo' = Taken \o fifo
    BY <1>2, RefinesStep DEF NicInv
  <2>2. \A x : Append(delivered, x) # delivered
    BY <1>0
  <2>3. ~Fifo!Deliver
    BY <2>2 DEF Fifo!Deliver
  <2> QED BY <2>1, <2>3 DEF Fifo!Next, Fifo!Put, Fifo!Refuse
<1> QED BY <1>1, <1>2, QueueOrNot

\* A sequence is determined by its length and its elements.
LEMMA SeqEqual ==
  ASSUME NEW S, NEW s \in Seq(S), NEW t \in Seq(S), Len(s) = Len(t),
         \A i \in 1 .. Len(s) : s[i] = t[i]
  PROVE  s = t
OBVIOUS

LEMMA WireStep ==
  NicInv /\ NicInv' /\ [NicNext]_nicVars => [Wire!Next]_<<InThread \o (Taken \o fifo), PacketsSent, 0>>
<1> SUFFICES ASSUME NicInv, NicInv', [NicNext]_nicVars
             PROVE  \/ Wire!Next
                    \/ /\ InThread' \o (Taken' \o fifo') = InThread \o (Taken \o fifo)
                       /\ PacketsSent' = PacketsSent
  OBVIOUS
<1> DEFINE w == Taken \o fifo
<1>0. /\ delivered \in Seq(Node) /\ sent \in Seq(Transfer) /\ fifo \in Seq(Node)
      /\ Taken \in Seq(Node) /\ n \in [Consumer -> Node \cup {None}]
      /\ tx \in {"pop", "copy", "send"}
  BY TakenFacts DEF NicInv, NicTypeOK, IInv, TypeOK
<1>1. w \in Seq(Node)
  BY <1>0
<1>2. tx # "pop" => Packet \in Node
  BY <1>0 DEF NicInv, InHand, Packet
<1>3. InThread \in Seq(Node)
  BY <1>2 DEF InThread
\* The transmit thread stays where it is: only the queue moves.
<1>4. CASE UNCHANGED <<delivered, tx, sent>>
  <2>1. InThread' = InThread /\ PacketsSent' = PacketsSent
    BY <1>4 DEF InThread, PacketsSent, Packet
  <2>2. CASE Taken' \o fifo' = w
    BY <2>1, <2>2
  <2>3. CASE \E x \in Node : Taken' \o fifo' = Append(w, x)
    <3>1. PICK x \in Node : Taken' \o fifo' = Append(w, x)
      BY <2>3
    <3> HIDE DEF w
    <3>2. InThread' \o (Taken' \o fifo') = Append(InThread \o w, x)
      BY <1>1, <1>3, <2>1, <3>1, ConcatAppend
    <3> USE DEF w
    <3> QED BY <2>1, <3>2 DEF Wire!Next, Wire!Put
  <2> QED BY <1>4, <2>2, <2>3, QueuePart
\* fifo_pop returns: the packet goes from the queue's hand to the thread's.
<1>5. CASE TxPop /\ PopReturn(Tx) /\ tx' = "copy"
  <2>1. /\ n[Tx] # None /\ n[Tx] \in Node /\ Taken = <<n[Tx]>> /\ fifo' = fifo
        /\ delivered' = Append(delivered, n[Tx]) /\ pop_lock' = None
        /\ sent' = sent /\ tx = "pop"
    BY <1>5, NicAssumption, TakenFacts DEF TxPop, PopReturn, NicInv
  <2>2. Taken' = <<>>
    BY <2>1, ListFifoAssumption DEF Taken
  <2>3. InThread = <<>> /\ InThread' = <<n[Tx]>>
    BY <1>0, <1>5, <2>1 DEF InThread, Packet
  <2>4. InThread' \o (Taken' \o fifo') = <<n[Tx]>> \o fifo
    BY <1>0, <2>1, <2>2, <2>3, EmptyConcat
  <2>5. InThread \o (Taken \o fifo) = <<n[Tx]>> \o fifo
    BY <1>0, <1>1, <2>1, <2>3, EmptyConcat
  <2> QED BY <2>1, <2>4, <2>5 DEF PacketsSent
\* The copy leaves the packets and their number alone.
<1>6. CASE TxCopy
  <2>1. /\ UNCHANGED <<fifo, delivered, pop_lock, n, out_busy>> /\ tx = "copy" /\ tx' = "send"
        /\ sent' = IF out_busy
                     THEN [sent EXCEPT ![Len(sent)].carries = @ \cup {tx_buffer'}]
                     ELSE sent
    BY <1>6 DEF TxCopy, vars
  <2>2. InThread' = InThread /\ Taken' = Taken
    BY <2>1 DEF InThread, Taken, Packet
  <2>3. CASE out_busy
    <3>1. Len(sent) \in DOMAIN sent
      BY <1>0, <2>3 DEF NicInv, InHand
    <3>2. sent[Len(sent)] \in Transfer
      BY <1>0, <3>1
    <3>3. DOMAIN sent' = DOMAIN sent /\ \A i \in DOMAIN sent : sent'[i].packet = sent[i].packet
      <4> DEFINE t == [sent[Len(sent)] EXCEPT !.carries = @ \cup {tx_buffer'}]
      <4>1. t.packet = sent[Len(sent)].packet
        BY <3>2 DEF Transfer
      <4>2. sent' = [sent EXCEPT ![Len(sent)] = t]
        BY <2>1, <2>3
      <4> HIDE DEF t
      <4> QED BY <1>0, <3>1, <4>1, <4>2
    <3>4. PacketsSent' = PacketsSent
      BY <3>3 DEF PacketsSent
    <3> QED BY <2>1, <2>2, <3>4
  <2>4. CASE ~out_busy
    BY <2>1, <2>2, <2>4 DEF PacketsSent
  <2> QED BY <2>3, <2>4
\* A transfer starts: the packet in the thread's hand is delivered.
<1>7. CASE TxSend
  <2>1. /\ tx = "send" /\ tx' = "pop" /\ UNCHANGED <<fifo, delivered, pop_lock, n>>
        /\ sent' = Append(sent, [packet |-> Packet, carries |-> {tx_buffer}])
    BY <1>7 DEF TxSend, vars
  <2>2. InThread = <<Packet>> /\ InThread' = <<>> /\ Taken' = Taken /\ Packet \in Node
    BY <1>2, <2>1 DEF InThread, Taken
  <2>3. /\ InThread \o w # <<>> /\ Head(InThread \o w) = Packet /\ Tail(InThread \o w) = w
    <3> HIDE DEF w
    <3> QED BY <1>1, <2>2, ConcatHead
  <2>4. InThread' \o (Taken' \o fifo') = w
    <3>1. Taken' \o fifo' = w
      BY <2>1, <2>2
    <3> HIDE DEF w
    <3> QED BY <1>1, <2>2, <3>1, EmptyConcat
  <2>5. PacketsSent' = Append(PacketsSent, Packet)
    <3> DEFINE r == [packet |-> Packet, carries |-> {tx_buffer}]
    <3>1. r.packet = Packet /\ sent' = Append(sent, r)
      BY <2>1
    <3> HIDE DEF r
    <3>2. /\ DOMAIN sent' = 1 .. Len(sent) + 1 /\ sent'[Len(sent) + 1] = r
          /\ \A i \in DOMAIN sent : sent'[i] = sent[i] /\ i \in 1 .. Len(sent)
          /\ DOMAIN sent = 1 .. Len(sent) /\ Len(sent) \in Nat
      BY <1>0, <3>1
    <3>3. \A i \in DOMAIN sent : sent[i].packet \in Node
      <4>1. \A t \in Transfer : t.packet \in Node
        BY DEF Transfer
      <4>2. \A i \in DOMAIN sent : sent[i] \in Transfer
        BY <1>0
      <4> QED BY <4>1, <4>2
    <3>4. PacketsSent \in Seq(Node) /\ Len(PacketsSent) = Len(sent)
      BY <3>2, <3>3 DEF PacketsSent
    <3>5. /\ Append(PacketsSent, Packet) \in Seq(Node)
          /\ DOMAIN Append(PacketsSent, Packet) = 1 .. Len(sent) + 1
          /\ Append(PacketsSent, Packet)[Len(sent) + 1] = Packet
          /\ \A i \in 1 .. Len(sent) : Append(PacketsSent, Packet)[i] = PacketsSent[i]
      BY <2>2, <3>2, <3>4
    <3>6. \A i \in 1 .. Len(sent) : PacketsSent[i] = sent[i].packet
      BY <3>2 DEF PacketsSent
    <3>7. \A i \in 1 .. Len(sent) + 1 : i \in 1 .. Len(sent) \/ i = Len(sent) + 1
      BY <3>2
    <3>8. PacketsSent' \in Seq(Node) /\ Len(PacketsSent') = Len(sent) + 1
      <4>1. \A i \in 1 .. Len(sent) + 1 : sent'[i].packet \in Node
        BY <2>2, <3>1, <3>2, <3>3, <3>7
      <4>2. PacketsSent' = [i \in 1 .. Len(sent) + 1 |-> sent'[i].packet]
        BY <3>2 DEF PacketsSent
      <4> QED BY <3>2, <4>1, <4>2
    <3>9. \A i \in 1 .. Len(sent) + 1 : PacketsSent'[i] = sent'[i].packet
      BY <3>2 DEF PacketsSent
    <3>10. \A i \in 1 .. Len(sent) + 1 : PacketsSent'[i] = Append(PacketsSent, Packet)[i]
      BY <3>1, <3>2, <3>5, <3>6, <3>7, <3>9
    <3> QED BY <3>2, <3>4, <3>5, <3>8, <3>10, SeqEqual
  <2> QED BY <2>3, <2>4, <2>5 DEF Wire!Next, Wire!Deliver
<1>8. ASSUME NEW p \in Producer, TxQueue(p) PROVE UNCHANGED <<delivered, tx, sent>>
  BY <1>8 DEF TxQueue, PushAdd, PushSignal, txVars
<1>9. ASSUME TxPop, UNCHANGED tx PROVE UNCHANGED <<delivered, tx, sent>>
  BY <1>9 DEF TxPop, PopLock, PopWait, PopRemove, PopPanics
<1>10. ASSUME \/ TxPanics \/ TxComplete \/ StartRx \/ StartRxPanics \/ RxWait \/ RxArrives
              \/ RxSignal \/ Unplug \/ UNCHANGED nicVars
       PROVE  UNCHANGED <<delivered, tx, sent>>
  BY <1>10 DEF TxPanics, TxComplete, StartRx, StartRxPanics, RxWait, RxArrives, RxSignal, Unplug,
               nicVars, vars, txVars
<1>11. TxPop => (TxPop /\ PopReturn(Tx) /\ tx' = "copy") \/ (TxPop /\ UNCHANGED tx)
  BY DEF TxPop
<1> HIDE DEF w
<1> QED BY <1>4, <1>5, <1>6, <1>7, <1>8, <1>9, <1>10, <1>11 DEF NicNext, TxThread

\* The adapter implements AbstractFifo end to end: see SendsInOrder.
THEOREM NicIsFifo == NicSpec => SendsInOrder
<1>1. NicInit => Wire!Init
  <2> SUFFICES ASSUME NicInit PROVE Wire!Init
    OBVIOUS
  <2>1. tx = "pop" /\ sent = <<>> /\ fifo = <<>> /\ pop_lock = None
    BY DEF NicInit, Init
  <2>2. Taken = <<>> /\ InThread = <<>>
    BY <2>1, ListFifoAssumption DEF Taken, InThread
  <2>3. PacketsSent = <<>>
    BY <2>1 DEF PacketsSent
  <2> QED BY <2>1, <2>2, <2>3 DEF Wire!Init
<1> QED BY <1>1, WireStep, NicInvariance, PTL DEF NicSpec, SendsInOrder, Wire!Spec, Wire!vars
=============================================================================
