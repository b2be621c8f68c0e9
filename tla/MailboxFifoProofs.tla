------------------------- MODULE MailboxFifoProofs -------------------------
(***************************************************************************)
(* Proofs about MailboxFifo, for a ring and a hardware FIFO of any size    *)
(* and any number of poppers: the event says whether the ring holds a      *)
(* word, the count the handler read stays covered, and ring, indices and   *)
(* event implement AbstractFifo across the wrap.                           *)
(***************************************************************************)
EXTENDS MailboxFifo, TLAPS

\* The slot of the i-th waiting word, and that it holds one.
Slot(i) == Modpow2(tail + i - 1)
SlotsFilled == \A i \in 1 .. Consumed : buf[Slot(i)] \in Word

IInv == TypeOK /\ EventMeansData /\ CountIsThere /\ SlotsFilled

-----------------------------------------------------------------------------
(* Index arithmetic *)

LEMMA ModSmall ==
  ASSUME NEW N \in Nat \ {0}, NEW v \in 0 .. N - 1 PROVE v % N = v
BY SMT

LEMMA ModOnce ==
  ASSUME NEW N \in Nat \ {0}, NEW v \in N .. 2 * N - 1 PROVE v % N = v - N
BY SMT

LEMMA ModNegative ==
  ASSUME NEW N \in Nat \ {0}, NEW v \in 0 - N .. 0 - 1 PROVE v % N = v + N
BY SMT

\* The wrapped difference and the wrapped sum of two indices.
LEMMA WrapDifference ==
  ASSUME NEW a \in 0 .. Size - 1, NEW b \in 0 .. Size - 1
  PROVE  Modpow2(a - b) = IF a >= b THEN a - b ELSE a - b + Size
<1> USE MailboxAssumption DEF Modpow2
<1>1. CASE a >= b
  BY <1>1, ModSmall
<1>2. CASE a < b
  <2>1. a - b \in 0 - Size .. 0 - 1
    BY <1>2
  <2> QED BY <1>2, <2>1, ModNegative
<1> QED BY <1>1, <1>2

LEMMA WrapSum ==
  ASSUME NEW a \in 0 .. Size - 1, NEW k \in 0 .. Size
  PROVE  Modpow2(a + k) = IF a + k < Size THEN a + k ELSE a + k - Size
<1> USE MailboxAssumption DEF Modpow2
<1>1. CASE a + k < Size
  BY <1>1, ModSmall
<1>2. CASE a + k >= Size
  <2>1. a + k \in Size .. 2 * Size - 1
    BY <1>2
  <2> QED BY <1>2, <2>1, ModOnce
<1> QED BY <1>1, <1>2

\* Consumed and Slot without the remainder.
LEMMA RingFacts ==
  ASSUME TypeOK
  PROVE  /\ Consumed = IF head >= tail THEN head - tail ELSE head - tail + Size
         /\ Consumed \in 0 .. Size - 1
         /\ \A i \in 1 .. Size :
              /\ Slot(i) = IF tail + i - 1 < Size THEN tail + i - 1 ELSE tail + i - 1 - Size
              /\ Slot(i) \in 0 .. Size - 1
<1> USE MailboxAssumption
<1>1. head \in 0 .. Size - 1 /\ tail \in 0 .. Size - 1
  BY DEF TypeOK
<1>2. Consumed = IF head >= tail THEN head - tail ELSE head - tail + Size
  BY <1>1, WrapDifference DEF Consumed
<1>3. ASSUME NEW i \in 1 .. Size
      PROVE  Slot(i) = IF tail + i - 1 < Size THEN tail + i - 1 ELSE tail + i - 1 - Size
  <2>1. i - 1 \in 0 .. Size /\ tail + (i - 1) = tail + i - 1
    BY <1>1
  <2> QED BY <1>1, <2>1, WrapSum DEF Slot
<1>4. ASSUME NEW i \in 1 .. Size PROVE Slot(i) \in 0 .. Size - 1
  BY <1>1, <1>3
<1> QED BY <1>1, <1>2, <1>3, <1>4

-----------------------------------------------------------------------------
(* The ring operations *)

\* A push that finds space: one word more waits, in the slot at the head.
LEMMA PushSpace ==
  ASSUME IInv, NEW w \in Word, SpaceAvail > 0,
         buf' = [buf EXCEPT ![head] = w], head' = Modpow2(head + 1), tail' = tail
  PROVE  /\ buf' \in [0 .. Size - 1 -> Word \cup {None}]
         /\ head' \in 0 .. Size - 1 /\ head' # tail
         /\ Consumed' = Consumed + 1
         /\ \A i \in Int : Slot(i)' = Slot(i)
         /\ \A i \in 1 .. Consumed : buf'[Slot(i)] = buf[Slot(i)]
         /\ buf'[Slot(Consumed + 1)] = w
<1> USE MailboxAssumption
<1>0. TypeOK /\ head \in 0 .. Size - 1 /\ tail \in 0 .. Size - 1
  BY DEF IInv, TypeOK
<1>1. head' = IF head + 1 < Size THEN head + 1 ELSE 0
  BY <1>0, WrapSum
<1>2. head' \in 0 .. Size - 1 /\ buf' \in [0 .. Size - 1 -> Word \cup {None}]
  BY <1>0, <1>1 DEF TypeOK
<1>3. Consumed < Size - 1 /\ Consumed \in 0 .. Size - 1
  BY <1>0, RingFacts DEF SpaceAvail
<1>4. Consumed = IF head >= tail THEN head - tail ELSE head - tail + Size
  BY <1>0, RingFacts
<1>5. Consumed' = IF head' >= tail THEN head' - tail ELSE head' - tail + Size
  BY <1>0, <1>2, WrapDifference DEF Consumed
<1>6. Consumed' = Consumed + 1 /\ head' # tail
  BY <1>0, <1>1, <1>3, <1>4, <1>5
<1>7. \A i \in Int : Slot(i)' = Slot(i)
  BY DEF Slot, Modpow2
<1>8. Slot(Consumed + 1) = head /\ Consumed + 1 \in 1 .. Size
  BY <1>0, <1>3, <1>4, RingFacts
<1>9. ASSUME NEW i \in 1 .. Consumed PROVE Slot(i) # head /\ Slot(i) \in 0 .. Size - 1 /\ i \in Int
  <2>1. i \in 1 .. Size
    BY <1>3
  <2>2. Slot(i) = IF tail + i - 1 < Size THEN tail + i - 1 ELSE tail + i - 1 - Size
    BY <1>0, <2>1, RingFacts
  <2> QED BY <1>0, <1>3, <1>4, <2>1, <2>2
<1>10. \A i \in 1 .. Consumed : buf'[Slot(i)] = buf[Slot(i)]
  BY <1>0, <1>9 DEF TypeOK
<1>11. buf'[Slot(Consumed + 1)] = w
  BY <1>0, <1>8 DEF TypeOK
<1> QED BY <1>2, <1>6, <1>7, <1>10, <1>11

\* A pop: one word less waits, and the others move up by one.
LEMMA PopShifts ==
  ASSUME IInv, tail # head, tail' = Modpow2(tail + 1), head' = head
  PROVE  /\ tail' \in 0 .. Size - 1
         /\ Consumed \in 1 .. Size - 1 /\ Consumed' = Consumed - 1
         /\ Slot(1) = tail
         /\ \A i \in 1 .. Consumed - 1 : Slot(i)' = Slot(i + 1)
<1> USE MailboxAssumption
<1>0. TypeOK /\ head \in 0 .. Size - 1 /\ tail \in 0 .. Size - 1
  BY DEF IInv, TypeOK
<1>1. tail' = IF tail + 1 < Size THEN tail + 1 ELSE 0
  BY <1>0, WrapSum
<1>2. tail' \in 0 .. Size - 1
  BY <1>0, <1>1
<1>3. Consumed = IF head >= tail THEN head - tail ELSE head - tail + Size
  BY <1>0, RingFacts
<1>4. Consumed' = IF head >= tail' THEN head - tail' ELSE head - tail' + Size
  BY <1>0, <1>2, WrapDifference DEF Consumed
<1>5. Consumed \in 1 .. Size - 1 /\ Consumed' = Consumed - 1
  BY <1>0, <1>1, <1>3, <1>4
<1>6. Slot(1) = tail
  BY <1>0, RingFacts
<1>7. ASSUME NEW i \in 1 .. Consumed - 1 PROVE Slot(i)' = Slot(i + 1)
  <2>1. i \in 1 .. Size /\ i + 1 \in 1 .. Size /\ i - 1 \in 0 .. Size
    BY <1>5
  <2>2. Slot(i + 1) = IF tail + i < Size THEN tail + i ELSE tail + i - Size
    BY <1>0, <2>1, RingFacts
  <2>3. Slot(i)' = Modpow2(tail' + (i - 1))
    BY <1>2, <2>1 DEF Slot, Modpow2
  <2>4. Slot(i)' = IF tail' + (i - 1) < Size THEN tail' + (i - 1) ELSE tail' + (i - 1) - Size
    BY <1>2, <2>1, <2>3, WrapSum
  <2> QED BY <1>0, <1>1, <1>5, <2>2, <2>4
<1> QED BY <1>2, <1>5, <1>6, <1>7

-----------------------------------------------------------------------------
(* The invariant *)

LEMMA InitIInv == Init => IInv
<1> SUFFICES ASSUME Init PROVE IInv
  OBVIOUS
<1> USE MailboxAssumption DEF Init
<1>1. TypeOK
  BY DEF TypeOK
<1>2. Consumed = 0
  BY <1>1, RingFacts
<1>3. SlotsFilled
  BY <1>2 DEF SlotsFilled
<1> QED BY <1>1, <1>3 DEF IInv, EventMeansData, CountIsThere

\* A step that leaves the ring alone.
LEMMA RingUntouched ==
  ASSUME IInv, UNCHANGED ringVars, TypeOK', CountIsThere'
  PROVE  IInv'
<1>1. buf' = buf /\ head' = head /\ tail' = tail /\ event' = event
  BY DEF ringVars
<1>2. Consumed' = Consumed /\ \A i \in Int : Slot(i)' = Slot(i)
  BY <1>1 DEF Consumed, Slot, Modpow2
<1>3. Consumed \in Nat
  BY RingFacts, MailboxAssumption DEF IInv
<1>4. SlotsFilled'
  <2> SUFFICES ASSUME NEW i \in 1 .. Consumed' PROVE buf'[Slot(i)'] \in Word
    BY DEF SlotsFilled
  <2>1. i \in 1 .. Consumed /\ i \in Int
    BY <1>2, <1>3
  <2> QED BY <2>1, <1>1, <1>2 DEF IInv, SlotsFilled
<1>5. EventMeansData'
  BY <1>1 DEF IInv, EventMeansData
<1> QED BY <1>4, <1>5 DEF IInv

LEMMA ArmWriteStep == ASSUME IInv, ArmWrite PROVE IInv'
<1> USE MailboxAssumption
<1>1. sent + 1 \in Word /\ sent' \in 0 .. MaxWords
  BY DEF IInv, TypeOK, ArmWrite, Word
<1>2. hw' \in Seq(Word) /\ Len(hw') = Len(hw) + 1 /\ Len(hw') <= HwDepth
  BY <1>1 DEF IInv, TypeOK, ArmWrite
<1>3. TypeOK'
  BY <1>1, <1>2 DEF IInv, TypeOK, ArmWrite, ringVars, popVars
<1>4. CountIsThere'
  BY <1>2 DEF IInv, TypeOK, CountIsThere, ArmWrite
<1> QED BY <1>3, <1>4, RingUntouched DEF ArmWrite

LEMMA IrqCountStep == ASSUME IInv, IrqEnter \/ IrqStatus PROVE IInv'
<1> USE MailboxAssumption
<1>1. Len(hw) \in 0 .. HwDepth
  BY DEF IInv, TypeOK
<1>2. TypeOK'
  BY <1>1 DEF IInv, TypeOK, IrqEnter, IrqStatus, ringVars, popVars
<1>3. CountIsThere'
  BY <1>1 DEF CountIsThere, IrqEnter, IrqStatus
<1> QED BY <1>2, <1>3, RingUntouched DEF IrqEnter, IrqStatus

LEMMA IrqDrainStep == ASSUME IInv, IrqDrain PROVE IInv'
<1> USE MailboxAssumption
<1>0. TypeOK
  BY DEF IInv
<1>1. /\ Head(hw) \in Word /\ hw' \in Seq(Word) /\ Len(hw') = Len(hw) - 1
      /\ Len(hw') <= HwDepth
  BY <1>0 DEF TypeOK, IrqDrain
<1>2. pending' \in 0 .. HwDepth /\ pending' = pending - 1
  BY <1>0 DEF TypeOK, IrqDrain
<1>3. CountIsThere'
  BY <1>0, <1>1, <1>2 DEF IInv, TypeOK, CountIsThere, IrqDrain
<1>4. CASE SpaceAvail = 0 /\ lost' = lost + 1 /\ UNCHANGED <<buf, head, tail, event>>
  <2>1. TypeOK'
    BY <1>0, <1>1, <1>2, <1>4 DEF TypeOK, IrqDrain, popVars
  <2>2. Consumed' = Consumed /\ \A i \in Int : Slot(i)' = Slot(i)
    BY <1>4 DEF Consumed, Slot, Modpow2
  <2>3. Consumed \in Nat
    BY <1>0, RingFacts
  <2>4. SlotsFilled'
    <3> SUFFICES ASSUME NEW i \in 1 .. Consumed' PROVE buf'[Slot(i)'] \in Word
      BY DEF SlotsFilled
    <3>1. i \in 1 .. Consumed /\ i \in Int
      BY <2>2, <2>3
    <3> QED BY <3>1, <1>4, <2>2 DEF IInv, SlotsFilled
  <2> QED BY <1>3, <1>4, <2>1, <2>4 DEF IInv, EventMeansData
<1>5. CASE /\ SpaceAvail > 0 /\ buf' = [buf EXCEPT ![head] = Head(hw)]
           /\ head' = Modpow2(head + 1) /\ event' = TRUE /\ UNCHANGED <<tail, lost>>
  <2>1. /\ buf' \in [0 .. Size - 1 -> Word \cup {None}]
        /\ head' \in 0 .. Size - 1 /\ head' # tail
        /\ Consumed' = Consumed + 1
        /\ \A i \in Int : Slot(i)' = Slot(i)
        /\ \A i \in 1 .. Consumed : buf'[Slot(i)] = buf[Slot(i)]
        /\ buf'[Slot(Consumed + 1)] = Head(hw)
    BY <1>1, <1>5, PushSpace
  <2>2. TypeOK'
    BY <1>0, <1>1, <1>2, <1>5, <2>1 DEF TypeOK, IrqDrain, popVars
  <2>3. SlotsFilled'
    <3> SUFFICES ASSUME NEW i \in 1 .. Consumed' PROVE buf'[Slot(i)'] \in Word
      BY DEF SlotsFilled
    <3>1. i \in Int /\ (i \in 1 .. Consumed \/ i = Consumed + 1)
      BY <1>0, <2>1, RingFacts
    <3> QED BY <3>1, <2>1, <1>1 DEF IInv, SlotsFilled
  <2> QED BY <1>3, <1>5, <2>1, <2>2, <2>3 DEF IInv, EventMeansData
<1> QED BY <1>4, <1>5 DEF IrqDrain, Push

LEMMA PopStep == ASSUME IInv, NEW t \in Popper, Pop(t) PROVE IInv'
<1> USE MailboxAssumption
<1>0. TypeOK
  BY DEF IInv
<1>1. CASE PopWait(t) \/ PopRetry(t)
  <2>1. TypeOK'
    BY <1>0, <1>1 DEF TypeOK, PopWait, PopRetry, ringVars, irqVars
  <2>2. CountIsThere'
    BY <1>1 DEF CountIsThere, PopWait, PopRetry, irqVars
  <2> QED BY <1>1, <2>1, <2>2, RingUntouched DEF PopWait, PopRetry
<1>2. CASE PopTake(t)
  <2>1. /\ tail # head /\ tail' = Modpow2(tail + 1) /\ buf' = buf /\ head' = head
        /\ delivered' = Append(delivered, buf[tail])
    BY <1>2 DEF PopTake
  <2>2. /\ tail' \in 0 .. Size - 1
        /\ Consumed \in 1 .. Size - 1 /\ Consumed' = Consumed - 1
        /\ Slot(1) = tail
        /\ \A i \in 1 .. Consumed - 1 : Slot(i)' = Slot(i + 1)
    BY <2>1, PopShifts
  <2>3. buf[tail] \in Word
    BY <2>2 DEF IInv, SlotsFilled
  <2>4. delivered' \in Seq(Word)
    BY <1>0, <2>1, <2>3 DEF TypeOK
  <2>5. TypeOK'
    BY <1>0, <1>2, <2>2, <2>4 DEF TypeOK, PopTake, irqVars
  <2>6. SlotsFilled'
    <3> SUFFICES ASSUME NEW i \in 1 .. Consumed' PROVE buf'[Slot(i)'] \in Word
      BY DEF SlotsFilled
    <3>1. i \in 1 .. Consumed - 1 /\ i + 1 \in 1 .. Consumed
      BY <2>2
    <3> QED BY <3>1, <2>1, <2>2 DEF IInv, SlotsFilled
  <2>7. EventMeansData'
    BY <1>2 DEF IInv, EventMeansData, PopTake
  <2>8. CountIsThere'
    BY <1>2 DEF IInv, CountIsThere, PopTake, irqVars
  <2> QED BY <2>5, <2>6, <2>7, <2>8 DEF IInv
<1> QED BY <1>1, <1>2 DEF Pop

LEMMA Inductive == IInv /\ [Next]_vars => IInv'
<1> SUFFICES ASSUME IInv, [Next]_vars PROVE IInv'
  OBVIOUS
<1>1. CASE UNCHANGED vars
  <2>1. TypeOK' /\ CountIsThere' /\ UNCHANGED ringVars
    BY <1>1 DEF IInv, TypeOK, CountIsThere, vars, irqVars, ringVars, popVars
  <2> QED BY <2>1, RingUntouched
<1> QED BY <1>1, ArmWriteStep, IrqCountStep, IrqDrainStep, PopStep DEF Next, Irq

LEMMA Invariance == Spec => []IInv
BY InitIInv, Inductive, PTL DEF Spec

\* TypeOK: the indices stay in the ring and every popped word is one the ARM wrote.
THEOREM Typing == Spec => []TypeOK
<1>1. IInv => TypeOK
  BY DEF IInv
<1> QED BY <1>1, Invariance, PTL

\* The event is signaled exactly while the ring holds a word.
THEOREM EventIsExact == Spec => []EventMeansData
<1>1. IInv => EventMeansData
  BY DEF IInv
<1> QED BY <1>1, Invariance, PTL

\* The count the handler has read never exceeds what the FIFO holds.
THEOREM CountCovered == Spec => []CountIsThere
<1>1. IInv => CountIsThere
  BY DEF IInv
<1> QED BY <1>1, Invariance, PTL

-----------------------------------------------------------------------------
(* Refinement *)

LEMMA WaitingIsSeq ==
  ASSUME IInv
  PROVE  /\ Waiting \in Seq(Word) /\ Len(Waiting) = Consumed /\ Consumed \in Nat
         /\ DOMAIN Waiting = 1 .. Consumed
         /\ \A i \in 1 .. Consumed : Waiting[i] = buf[Slot(i)]
<1>1. Consumed \in Nat
  BY RingFacts, MailboxAssumption DEF IInv
<1>2. DOMAIN Waiting = 1 .. Consumed /\ \A i \in 1 .. Consumed : Waiting[i] = buf[Slot(i)]
  BY DEF Waiting, Slot
<1>3. \A i \in 1 .. Consumed : Waiting[i] \in Word
  BY <1>2 DEF IInv, SlotsFilled
<1>4. Waiting = [i \in 1 .. Consumed |-> Waiting[i]]
  BY <1>2 DEF Waiting
<1>5. Waiting \in Seq(Word) /\ Len(Waiting) = Consumed
  BY <1>1, <1>3, <1>4
<1> QED BY <1>1, <1>2, <1>5

\* The same of the next state.
LEMMA NextWaitingIsSeq ==
  ASSUME IInv', Consumed' \in Nat
  PROVE  /\ Waiting' \in Seq(Word) /\ Len(Waiting') = Consumed'
         /\ \A i \in 1 .. Consumed' : Waiting'[i] = buf'[Slot(i)']
<1>1. DOMAIN Waiting' = 1 .. Consumed' /\ \A i \in 1 .. Consumed' : Waiting'[i] = buf'[Slot(i)']
  BY DEF Waiting, Slot
<1>2. \A i \in 1 .. Consumed' : Waiting'[i] \in Word
  BY <1>1 DEF IInv, SlotsFilled
<1>3. Waiting' = [i \in 1 .. Consumed' |-> Waiting'[i]]
  BY <1>1 DEF Waiting
<1>4. Waiting' \in Seq(Word) /\ Len(Waiting') = Consumed'
  BY <1>2, <1>3
<1> QED BY <1>1, <1>4

\* Two sequences with the same length and elements are equal.
LEMMA SameSeq ==
  ASSUME NEW S, NEW s \in Seq(S), NEW t \in Seq(S), Len(s) = Len(t),
         \A i \in 1 .. Len(s) : s[i] = t[i]
  PROVE  s = t
OBVIOUS

LEMMA WaitingUnchanged ==
  ASSUME UNCHANGED <<buf, head, tail>> PROVE Waiting' = Waiting
BY DEF Waiting, Consumed, Modpow2

\* A push that finds space appends the word to those that wait.
LEMMA PushAppends ==
  ASSUME IInv, IInv', NEW w \in Word, SpaceAvail > 0,
         buf' = [buf EXCEPT ![head] = w], head' = Modpow2(head + 1), tail' = tail
  PROVE  Waiting' = Append(Waiting, w)
<1>1. /\ Consumed' = Consumed + 1
      /\ \A i \in Int : Slot(i)' = Slot(i)
      /\ \A i \in 1 .. Consumed : buf'[Slot(i)] = buf[Slot(i)]
      /\ buf'[Slot(Consumed + 1)] = w
  BY PushSpace
<1>2. /\ Waiting \in Seq(Word) /\ Len(Waiting) = Consumed /\ Consumed \in Nat
      /\ \A i \in 1 .. Consumed : Waiting[i] = buf[Slot(i)]
  BY WaitingIsSeq
<1>3. /\ Waiting' \in Seq(Word) /\ Len(Waiting') = Consumed'
      /\ \A i \in 1 .. Consumed' : Waiting'[i] = buf'[Slot(i)']
  BY <1>1, <1>2, NextWaitingIsSeq
<1>4. /\ Append(Waiting, w) \in Seq(Word)
      /\ Len(Append(Waiting, w)) = Consumed + 1
      /\ \A i \in 1 .. Consumed : Append(Waiting, w)[i] = buf[Slot(i)]
      /\ Append(Waiting, w)[Consumed + 1] = w
  BY <1>2
<1>5. \A i \in 1 .. Consumed + 1 : Waiting'[i] = Append(Waiting, w)[i]
  <2> SUFFICES ASSUME NEW i \in 1 .. Consumed + 1
               PROVE  Waiting'[i] = Append(Waiting, w)[i]
    OBVIOUS
  <2>1. i \in Int /\ Waiting'[i] = buf'[Slot(i)]
    BY <1>1, <1>2, <1>3
  <2>2. i \in 1 .. Consumed \/ i = Consumed + 1
    BY <1>2
  <2> QED BY <2>1, <2>2, <1>1, <1>4
<1> QED BY <1>1, <1>3, <1>4, <1>5, SameSeq

\* A pop that finds a word takes the oldest.
LEMMA TakeRemoves ==
  ASSUME IInv, IInv', NEW t \in Popper, PopTake(t)
  PROVE  Waiting # <<>> /\ buf[tail] = Head(Waiting) /\ Waiting' = Tail(Waiting)
<1>1. /\ tail # head /\ tail' = Modpow2(tail + 1) /\ buf' = buf /\ head' = head
      /\ delivered' = Append(delivered, buf[tail]) /\ lost' = lost
  BY DEF PopTake
<1>2. /\ Consumed \in 1 .. Size - 1 /\ Consumed' = Consumed - 1
      /\ Slot(1) = tail
      /\ \A i \in 1 .. Consumed - 1 : Slot(i)' = Slot(i + 1)
  BY <1>1, PopShifts
<1>3. /\ Waiting \in Seq(Word) /\ Len(Waiting) = Consumed
      /\ \A i \in 1 .. Consumed : Waiting[i] = buf[Slot(i)]
  BY WaitingIsSeq
<1>4. /\ Waiting' \in Seq(Word) /\ Len(Waiting') = Consumed - 1
      /\ \A i \in 1 .. Consumed - 1 : Waiting'[i] = buf'[Slot(i)']
  BY <1>2, NextWaitingIsSeq
<1>5. Waiting # <<>> /\ Head(Waiting) = buf[tail]
  BY <1>2, <1>3
<1>6. /\ Tail(Waiting) \in Seq(Word) /\ Len(Tail(Waiting)) = Consumed - 1
      /\ \A i \in 1 .. Consumed - 1 : Tail(Waiting)[i] = Waiting[i + 1]
  BY <1>2, <1>3
<1>7. \A i \in 1 .. Consumed - 1 : Waiting'[i] = Tail(Waiting)[i]
  <2> SUFFICES ASSUME NEW i \in 1 .. Consumed - 1 PROVE Waiting'[i] = Tail(Waiting)[i]
    OBVIOUS
  <2>1. i + 1 \in 1 .. Consumed
    BY <1>2
  <2>2. Waiting'[i] = buf[Slot(i + 1)]
    BY <1>1, <1>2, <1>4
  <2>3. Tail(Waiting)[i] = buf[Slot(i + 1)]
    BY <1>3, <1>6, <2>1
  <2> QED BY <2>2, <2>3
<1>8. Waiting' = Tail(Waiting)
  BY <1>4, <1>6, <1>7, SameSeq
<1> QED BY <1>5, <1>8

LEMMA RefinesInit == Init => Fifo!Init
<1> SUFFICES ASSUME Init PROVE Waiting = <<>> /\ delivered = <<>> /\ lost = 0
  BY DEF Fifo!Init
<1>1. IInv
  BY InitIInv
<1>2. Consumed = 0
  BY <1>1, RingFacts DEF IInv, Init
<1>3. Waiting = <<>>
  BY <1>1, <1>2, WaitingIsSeq
<1> QED BY <1>3 DEF Init

LEMMA RefinesStep ==
  IInv /\ IInv' /\ [Next]_vars => [Fifo!Next]_<<Waiting, delivered, lost>>
<1> SUFFICES ASSUME IInv, IInv', [Next]_vars
             PROVE  Fifo!Next \/ (Waiting' = Waiting /\ delivered' = delivered /\ lost' = lost)
  OBVIOUS
<1> USE MailboxAssumption
<1>0. TypeOK
  BY DEF IInv
<1>1. CASE ArmWrite \/ IrqEnter \/ IrqStatus
  BY <1>1, WaitingUnchanged DEF ArmWrite, IrqEnter, IrqStatus, ringVars, popVars
<1>2. CASE IrqDrain
  <2>1. Head(hw) \in Word /\ delivered' = delivered
    BY <1>0, <1>2 DEF IrqDrain, TypeOK, popVars
  <2>2. CASE SpaceAvail = 0 /\ lost' = lost + 1 /\ UNCHANGED <<buf, head, tail, event>>
    <3>1. Waiting' = Waiting
      BY <2>2, WaitingUnchanged
    <3>2. Len(Waiting) = Size - 1 /\ Size - 1 # 0
      <4>1. Len(Waiting) = Size - 1
        BY <1>0, <2>2, WaitingIsSeq, RingFacts DEF SpaceAvail
      <4>2. Size # 1
        OBVIOUS
      <4> QED BY <4>1, <4>2
    <3> QED BY <2>1, <2>2, <3>1, <3>2 DEF Fifo!Next, Fifo!Refuse
  <2>3. CASE /\ SpaceAvail > 0 /\ buf' = [buf EXCEPT ![head] = Head(hw)]
             /\ head' = Modpow2(head + 1) /\ event' = TRUE /\ UNCHANGED <<tail, lost>>
    <3>6. Waiting' = Append(Waiting, Head(hw))
      BY <2>1, <2>3, PushAppends
    <3>7. Len(Waiting) < Size - 1
      BY <1>0, <2>3, WaitingIsSeq, RingFacts DEF SpaceAvail
    <3> QED BY <2>1, <2>3, <3>6, <3>7 DEF Fifo!Next, Fifo!Put
  <2> QED BY <1>2, <2>2, <2>3 DEF IrqDrain, Push
<1>3. ASSUME NEW t \in Popper, PopWait(t) \/ PopRetry(t)
      PROVE  Waiting' = Waiting /\ delivered' = delivered /\ lost' = lost
  BY <1>3, WaitingUnchanged DEF PopWait, PopRetry, ringVars, irqVars
<1>4. ASSUME NEW t \in Popper, PopTake(t) PROVE Fifo!Next
  <2>1. Waiting # <<>> /\ buf[tail] = Head(Waiting) /\ Waiting' = Tail(Waiting)
    BY <1>4, TakeRemoves
  <2> QED BY <1>4, <2>1 DEF PopTake, Fifo!Next, Fifo!Deliver
<1>5. CASE UNCHANGED vars
  BY <1>5, WaitingUnchanged DEF vars, ringVars, popVars
<1> QED BY <1>1, <1>2, <1>3, <1>4, <1>5 DEF Next, Irq, Pop

\* The mailbox ring implements AbstractFifo with room for Size - 1 words.
THEOREM Refinement == Spec => ImplementsFifo
BY RefinesInit, RefinesStep, Invariance, PTL
   DEF Spec, ImplementsFifo, Fifo!Spec, Fifo!vars

-----------------------------------------------------------------------------
(* From the ARM to the poppers *)

LEMMA ConcatIs ==
  ASSUME NEW s \in Seq(Word), NEW t \in Seq(Word)
  PROVE  /\ s \o t \in Seq(Word) /\ Len(s \o t) = Len(s) + Len(t)
         /\ Len(s) \in Nat /\ Len(t) \in Nat
         /\ \A i \in 1 .. Len(s) + Len(t) :
              (s \o t)[i] = IF i <= Len(s) THEN s[i] ELSE t[i - Len(s)]
OBVIOUS

LEMMA AppendIs ==
  ASSUME NEW s \in Seq(Word), NEW w \in Word
  PROVE  /\ Append(s, w) \in Seq(Word) /\ Len(Append(s, w)) = Len(s) + 1
         /\ Len(s) \in Nat /\ DOMAIN s = 1 .. Len(s)
         /\ DOMAIN Append(s, w) = 1 .. Len(s) + 1
         /\ Append(s, w)[Len(s) + 1] = w
         /\ \A i \in 1 .. Len(s) : Append(s, w)[i] = s[i]
OBVIOUS

\* A word that goes from the head of one queue to the end of the one before it
\* stays where it is in the two together.
LEMMA MovedOn ==
  ASSUME NEW s \in Seq(Word), NEW t \in Seq(Word), t # <<>>
  PROVE  Append(s, Head(t)) \o Tail(t) = s \o t
<1> DEFINE a == Append(s, Head(t))
           b == Tail(t)
<1>1. /\ a \in Seq(Word) /\ b \in Seq(Word)
      /\ Len(a) = Len(s) + 1 /\ Len(b) = Len(t) - 1 /\ Len(s) \in Nat /\ Len(t) \in Nat
      /\ \A i \in 1 .. Len(s) : a[i] = s[i]
      /\ a[Len(s) + 1] = t[1]
      /\ \A i \in 1 .. Len(t) - 1 : b[i] = t[i + 1]
  OBVIOUS
<1> HIDE DEF a, b
<1>2. /\ a \o b \in Seq(Word) /\ Len(a \o b) = Len(s) + Len(t)
      /\ s \o t \in Seq(Word) /\ Len(s \o t) = Len(s) + Len(t)
  <2>1. a \o b \in Seq(Word) /\ Len(a \o b) = Len(a) + Len(b)
    BY <1>1, ConcatIs
  <2>2. s \o t \in Seq(Word) /\ Len(s \o t) = Len(s) + Len(t)
    BY ConcatIs
  <2>3. (Len(s) + 1) + (Len(t) - 1) = Len(s) + Len(t)
    BY <1>1
  <2> QED BY <1>1, <2>1, <2>2, <2>3
<1>3. ASSUME NEW i \in 1 .. Len(s) + Len(t) PROVE (a \o b)[i] = (s \o t)[i]
  <2>1. /\ (a \o b)[i] = IF i <= Len(a) THEN a[i] ELSE b[i - Len(a)]
        /\ (s \o t)[i] = IF i <= Len(s) THEN s[i] ELSE t[i - Len(s)]
    BY <1>1, ConcatIs
  <2>2. CASE i <= Len(s)
    BY <1>1, <2>1, <2>2
  <2>3. CASE i = Len(s) + 1
    BY <1>1, <2>1, <2>3
  <2>4. CASE i > Len(s) + 1
    <3>1. i - Len(a) \in 1 .. Len(t) - 1 /\ (i - Len(a)) + 1 = i - Len(s)
      BY <1>1, <2>4
    <3> QED BY <1>1, <2>1, <2>4, <3>1
  <2> QED BY <1>1, <2>2, <2>3, <2>4
<1>4. \A i \in 1 .. Len(a \o b) : (a \o b)[i] = (s \o t)[i]
  BY <1>2, <1>3
<1>5. a \o b = s \o t
  BY <1>2, <1>4, SameSeq
<1> QED BY <1>5 DEF a, b

LEMMA AppendedLast ==
  ASSUME NEW s \in Seq(Word), NEW t \in Seq(Word), NEW w \in Word
  PROVE  s \o Append(t, w) = Append(s \o t, w)
<1> DEFINE a == Append(t, w)
           c == s \o t
           d == Append(c, w)
<1>1. /\ a \in Seq(Word) /\ Len(a) = Len(t) + 1 /\ a[Len(t) + 1] = w
      /\ \A i \in 1 .. Len(t) : a[i] = t[i]
      /\ Len(s) \in Nat /\ Len(t) \in Nat
  OBVIOUS
<1>2. /\ c \in Seq(Word) /\ Len(c) = Len(s) + Len(t)
      /\ \A i \in 1 .. Len(s) + Len(t) : c[i] = IF i <= Len(s) THEN s[i] ELSE t[i - Len(s)]
  BY ConcatIs
<1> HIDE DEF a, c
<1>3. /\ d \in Seq(Word) /\ Len(d) = Len(c) + 1 /\ d[Len(c) + 1] = w
      /\ \A i \in 1 .. Len(c) : d[i] = c[i]
  BY <1>2, AppendIs
<1>4. /\ s \o a \in Seq(Word) /\ Len(s \o a) = Len(s) + Len(a)
      /\ \A i \in 1 .. Len(s) + Len(a) : (s \o a)[i] = IF i <= Len(s) THEN s[i] ELSE a[i - Len(s)]
  BY <1>1, ConcatIs
<1> HIDE DEF d
<1>5. ASSUME NEW i \in 1 .. Len(s) + Len(t) + 1 PROVE (s \o a)[i] = d[i]
  <2>0. i \in 1 .. Len(s) + Len(a)
    BY <1>1
  <2>1. (s \o a)[i] = IF i <= Len(s) THEN s[i] ELSE a[i - Len(s)]
    BY <1>4, <2>0
  <2>2. CASE i <= Len(s)
    <3>1. i \in 1 .. Len(s) + Len(t) /\ i \in 1 .. Len(c)
      BY <1>1, <1>2, <2>2
    <3>2. c[i] = s[i] /\ d[i] = c[i]
      BY <1>2, <1>3, <2>2, <3>1
    <3> QED BY <2>1, <2>2, <3>2
  <2>3. CASE i > Len(s) /\ i <= Len(s) + Len(t)
    <3>1. i - Len(s) \in 1 .. Len(t) /\ ~(i <= Len(s)) /\ i \in 1 .. Len(s) + Len(t)
      BY <1>1, <2>3
    <3>2. c[i] = t[i - Len(s)] /\ d[i] = c[i]
      BY <1>2, <1>3, <3>1
    <3>3. a[i - Len(s)] = t[i - Len(s)]
      BY <1>1, <3>1
    <3> QED BY <2>1, <3>1, <3>2, <3>3
  <2>4. CASE i = Len(s) + Len(t) + 1
    <3>1. i - Len(s) = Len(t) + 1 /\ i = Len(c) + 1 /\ ~(i <= Len(s))
      BY <1>1, <1>2, <2>4
    <3> QED BY <1>1, <1>3, <2>1, <3>1
  <2>5. i <= Len(s) \/ (i > Len(s) /\ i <= Len(s) + Len(t)) \/ i = Len(s) + Len(t) + 1
    BY <1>1
  <2> QED BY <2>2, <2>3, <2>4, <2>5
<1>6. Len(s \o a) = Len(d) /\ Len(d) = Len(s) + Len(t) + 1
  BY <1>1, <1>2, <1>3, <1>4
<1>7. s \o a = d
  BY <1>3, <1>4, <1>5, <1>6, SameSeq
<1> QED BY <1>7 DEF a, c, d

\* What a queue of words in order is, with all below a bound.
Orderly(s, n) == Increasing(s) /\ \A i \in DOMAIN s : s[i] <= n

LEMMA NewestLast ==
  ASSUME NEW s \in Seq(Word), NEW n \in Nat, n + 1 \in Word, Orderly(s, n)
  PROVE  Orderly(Append(s, n + 1), n + 1)
<1> DEFINE a == Append(s, n + 1)
<1>1. /\ DOMAIN a = 1 .. Len(s) + 1 /\ Len(s) \in Nat /\ DOMAIN s = 1 .. Len(s)
      /\ \A i \in 1 .. Len(s) : a[i] = s[i] /\ s[i] \in Nat
      /\ a[Len(s) + 1] = n + 1
  <2>1. \A i \in 1 .. Len(s) : s[i] \in Word
    OBVIOUS
  <2>2. Word \subseteq Nat
    BY MailboxAssumption DEF Word
  <2> QED BY <2>1, <2>2, AppendIs
<1> HIDE DEF a
<1>2. ASSUME NEW i \in DOMAIN a PROVE a[i] <= n + 1 /\ (i <= Len(s) => a[i] <= n)
  BY <1>1 DEF Orderly
<1>3. ASSUME NEW i \in DOMAIN a, NEW j \in DOMAIN a, i < j PROVE a[i] < a[j]
  <2>1. CASE j <= Len(s)
    BY <1>1, <1>3, <2>1 DEF Orderly, Increasing
  <2>2. CASE j = Len(s) + 1
    BY <1>1, <1>2, <1>3, <2>2
  <2> QED BY <1>1, <2>1, <2>2
<1>4. Orderly(a, n + 1)
  BY <1>2, <1>3 DEF Orderly, Increasing
<1> QED BY <1>4 DEF a

\* A word that is dropped leaves the others in order.
LEMMA DroppedFirst ==
  ASSUME NEW s \in Seq(Word), NEW t \in Seq(Word), t # <<>>, NEW n \in Nat, Orderly(s \o t, n)
  PROVE  Orderly(s \o Tail(t), n) /\ Len(s \o Tail(t)) = Len(s \o t) - 1
<1> DEFINE b == Tail(t)
           From(i) == IF i <= Len(s) THEN i ELSE i + 1
<1>1. /\ b \in Seq(Word) /\ Len(b) = Len(t) - 1 /\ Len(s) \in Nat /\ Len(t) \in Nat
      /\ \A i \in 1 .. Len(t) - 1 : b[i] = t[i + 1]
  OBVIOUS
<1> HIDE DEF b
<1>2. /\ DOMAIN (s \o b) = 1 .. Len(s) + Len(t) - 1 /\ DOMAIN (s \o t) = 1 .. Len(s) + Len(t)
      /\ Len(s \o b) = Len(s) + Len(t) - 1 /\ Len(s \o t) = Len(s) + Len(t)
  <2>1. s \o b \in Seq(Word) /\ Len(s \o b) = Len(s) + Len(b)
    BY <1>1, ConcatIs
  <2>2. s \o t \in Seq(Word) /\ Len(s \o t) = Len(s) + Len(t)
    BY ConcatIs
  <2>3. Len(s) + (Len(t) - 1) = Len(s) + Len(t) - 1
    BY <1>1
  <2>4. DOMAIN (s \o b) = 1 .. Len(s \o b) /\ DOMAIN (s \o t) = 1 .. Len(s \o t)
    BY <2>1, <2>2
  <2> QED BY <1>1, <2>1, <2>2, <2>3, <2>4
<1>3. ASSUME NEW i \in DOMAIN (s \o b)
      PROVE  From(i) \in DOMAIN (s \o t) /\ (s \o b)[i] = (s \o t)[From(i)]
  <2>1. /\ (s \o b)[i] = IF i <= Len(s) THEN s[i] ELSE b[i - Len(s)]
        /\ From(i) \in 1 .. Len(s) + Len(t)
    BY <1>1, <1>2, ConcatIs
  <2>2. (s \o t)[From(i)] = IF From(i) <= Len(s) THEN s[From(i)] ELSE t[From(i) - Len(s)]
    BY <2>1, ConcatIs
  <2>3. CASE i <= Len(s)
    BY <1>2, <2>1, <2>2, <2>3
  <2>4. CASE i > Len(s)
    <3>1. i - Len(s) \in 1 .. Len(t) - 1 /\ (i + 1) - Len(s) = (i - Len(s)) + 1
          /\ ~(i <= Len(s)) /\ ~(i + 1 <= Len(s))
      BY <1>1, <1>2, <2>4
    <3> QED BY <1>1, <1>2, <2>1, <2>2, <3>1
  <2> QED BY <1>1, <1>2, <2>1, <2>3, <2>4
<1>4. \A i, j \in DOMAIN (s \o b) : i < j => From(i) < From(j)
  BY <1>1, <1>2
<1> HIDE DEF From
<1>5. Orderly(s \o b, n)
  BY <1>3, <1>4 DEF Orderly, Increasing
<1> QED BY <1>2, <1>5 DEF b

LEMMA NoneOvertakenStep ==
  IInv /\ IInv' /\ NoneOvertaken /\ [Next]_vars => NoneOvertaken'
<1> SUFFICES ASSUME IInv, IInv', NoneOvertaken, [Next]_vars PROVE NoneOvertaken'
  OBVIOUS
<1> DEFINE all == delivered \o Waiting
<1>1. /\ delivered \in Seq(Word) /\ hw \in Seq(Word) /\ sent \in Nat /\ lost \in Nat
      /\ Waiting \in Seq(Word) /\ all \in Seq(Word) /\ Arrived \in Seq(Word)
  BY WaitingIsSeq, ConcatIs, MailboxAssumption DEF IInv, TypeOK, Arrived
<1>2. Orderly(Arrived, sent) /\ Len(Arrived) + lost = sent
  BY DEF NoneOvertaken, Orderly
<1>3. SUFFICES Orderly(Arrived', sent') /\ Len(Arrived') + lost' = sent'
  BY DEF NoneOvertaken, Orderly, Increasing
<1>4. ASSUME Arrived' = Arrived, UNCHANGED <<sent, lost>>
      PROVE  Orderly(Arrived', sent') /\ Len(Arrived') + lost' = sent'
  BY <1>2, <1>4
<1>5. CASE ArmWrite
  <2>1. /\ sent' = sent + 1 /\ hw' = Append(hw, sent + 1) /\ lost' = lost
        /\ delivered' = delivered /\ Waiting' = Waiting
    BY <1>5, WaitingUnchanged DEF ArmWrite, ringVars, popVars
  <2>2. sent + 1 \in Word
    BY <1>1, <1>5, MailboxAssumption DEF ArmWrite, Word
  <2>3. Arrived' = Append(Arrived, sent + 1)
    BY <1>1, <2>1, <2>2, AppendedLast DEF Arrived
  <2>4. Orderly(Arrived', sent')
    BY <1>1, <1>2, <2>1, <2>2, <2>3, NewestLast
  <2> QED BY <1>1, <1>2, <2>1, <2>3, <2>4
<1>6. CASE IrqEnter \/ IrqStatus \/ UNCHANGED vars \/ \E t \in Popper : PopWait(t) \/ PopRetry(t)
  <2>1. UNCHANGED <<buf, head, tail, lost, delivered, hw, sent>>
    BY <1>6 DEF IrqEnter, IrqStatus, PopWait, PopRetry, vars, ringVars, irqVars, popVars
  <2>2. Waiting' = Waiting
    BY <2>1, WaitingUnchanged
  <2> QED BY <1>4, <2>1, <2>2 DEF Arrived
<1>7. CASE \E t \in Popper : PopTake(t)
  <2>1. PICK t \in Popper : PopTake(t)
    BY <1>7
  <2>2. /\ Waiting # <<>> /\ Waiting' = Tail(Waiting)
        /\ delivered' = Append(delivered, Head(Waiting)) /\ UNCHANGED <<hw, sent, lost>>
    BY <2>1, TakeRemoves DEF PopTake, irqVars
  <2>3. delivered' \o Waiting' = delivered \o Waiting
    BY <1>1, <2>2, MovedOn
  <2> QED BY <1>4, <2>2, <2>3 DEF Arrived
<1>8. CASE IrqDrain
  <2>1. /\ hw # <<>> /\ hw' = Tail(hw) /\ delivered' = delivered /\ sent' = sent
        /\ Head(hw) \in Word /\ Push(Head(hw))
    BY <1>1, <1>8 DEF IrqDrain, popVars
  <2>2. CASE SpaceAvail = 0 /\ lost' = lost + 1 /\ UNCHANGED <<buf, head, tail, event>>
    <3>1. Arrived' = all \o Tail(hw)
      BY <2>1, <2>2, WaitingUnchanged DEF Arrived
    <3>2. Orderly(Arrived', sent) /\ Len(Arrived') = Len(Arrived) - 1
      BY <1>1, <1>2, <2>1, <3>1, DroppedFirst DEF Arrived
    <3>3. Len(Arrived) \in Nat
      BY <1>1
    <3>4. \A k, m \in Nat : (k - 1) + (m + 1) = k + m
      OBVIOUS
    <3>5. Len(Arrived') + lost' = Len(Arrived) + lost
      BY <1>1, <2>2, <3>2, <3>3, <3>4
    <3>6. Orderly(Arrived', sent')
      BY <2>1, <3>2
    <3> QED BY <1>2, <2>1, <3>5, <3>6
  <2>3. CASE /\ SpaceAvail > 0 /\ buf' = [buf EXCEPT ![head] = Head(hw)]
             /\ head' = Modpow2(head + 1) /\ event' = TRUE /\ UNCHANGED <<tail, lost>>
    <3>1. Waiting' = Append(Waiting, Head(hw))
      BY <2>1, <2>3, PushAppends
    <3>2. delivered' \o Waiting' = Append(all, Head(hw))
      BY <1>1, <2>1, <3>1, AppendedLast
    <3>3. Arrived' = all \o hw
      BY <1>1, <2>1, <3>2, MovedOn DEF Arrived
    <3> QED BY <1>4, <2>1, <2>3, <3>3 DEF Arrived
  <2> QED BY <2>1, <2>2, <2>3 DEF Push
<1> QED BY <1>5, <1>6, <1>7, <1>8 DEF Next, Irq, Pop

\* No word overtakes another or comes twice on its way through hardware FIFO, ring
\* and threads, and each one written is delivered, on its way or counted as lost.
THEOREM OrderKept == Spec => []NoneOvertaken
<1>1. Init => NoneOvertaken
  <2> SUFFICES ASSUME Init PROVE NoneOvertaken
    OBVIOUS
  <2>1. Waiting = <<>> /\ delivered = <<>> /\ lost = 0
    BY RefinesInit DEF Fifo!Init
  <2>2. hw = <<>> /\ sent = 0
    BY DEF Init
  <2>3. Arrived = <<>>
    BY <2>1, <2>2 DEF Arrived
  <2> QED BY <2>1, <2>2, <2>3 DEF NoneOvertaken, Increasing
<1> QED BY <1>1, NoneOvertakenStep, Invariance, PTL DEF Spec
=============================================================================
