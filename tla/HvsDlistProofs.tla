--------------------------- MODULE HvsDlistProofs ---------------------------
(***************************************************************************)
(* Proofs about HvsDlist, for a list memory of any size, any layers and    *)
(* any number of channels, threads and updates, when the threads that      *)
(* update lists share one channel or there is one of them (OneUpdater).    *)
(* The locks of two channels do not exclude each other: the violation run  *)
(* HvsTwoUpdaters shows what happens without the hypothesis.               *)
(***************************************************************************)
EXTENDS HvsDlist, TLAPS

OneUpdater ==
  \A t, u \in Thread : t # u =>
    \A c \in MayUpdate[t], d \in MayUpdate[u] : c = d

-----------------------------------------------------------------------------
(* The inductive invariant *)

Busy(t) == pc[t] \in {"begin", "writing"}

\* A thread in hvs_update_dlist holds the lock of its channel, and has a later
\* number than all that was shown there.
LockInv ==
  /\ \A t \in Thread : Busy(t) =>
       chan[t] \in MayUpdate[t] /\ chan[t] \in Channel /\ lock[chan[t]] = t
  /\ \A t, u \in Thread : Busy(t) /\ Busy(u) => t = u

NumberInv ==
  /\ \A c \in Channel :
       displist[c].update <= dlist_target[c].update /\ dlist_target[c].update <= updates
  /\ \A t \in Thread : Busy(t) =>
       number[t] <= updates /\ dlist_target[chan[t]].update < number[t]

\* Between updates the next list starts at WrapAt or before it.
SlotInv ==
  /\ (\A t \in Thread : ~Busy(t)) => display_slot <= WrapAt
  /\ \A t \in Thread : Busy(t) => len[t] <= longest
  /\ \A t \in Thread : pc[t] = "begin" => display_slot <= WrapAt
  /\ \A t \in Thread : pc[t] = "writing" =>
       /\ list_start[t] <= WrapAt
       /\ left[t] <= len[t]
       /\ display_slot = list_start[t] + (len[t] - left[t])
       /\ \A s \in Slot : list_start[t] <= s /\ s < display_slot => mem[s] = number[t]

\* Where the next word goes, seen from a list since whose end w words were
\* written: w slots behind it, or in front of it once slot 0 came in between.
Placed(l) ==
  LET w == total - l.upto
  IN /\ w >= 0 /\ l.start + l.len <= Slots
     /\ \/ display_slot = l.start + l.len + w
        \/ display_slot + WrapAt + 1 <= l.start + l.len + w
     /\ w <= WrapAt + 1 - l.len => Intact(l)

PlacedInv ==
  \A c \in Channel : Placed(dlist_target[c]) /\ Placed(displist[c])

KernelInv == KernelIntact

IInv == TypeOK /\ LockInv /\ NumberInv /\ SlotInv /\ PlacedInv /\ KernelInv

-----------------------------------------------------------------------------
(* The initial states *)

LEMMA InitIInv == Init => IInv
<1> SUFFICES ASSUME Init PROVE IInv
  OBVIOUS
<1> USE DEF Init
<1> USE SlotAssumption
<1>1. Wiped \in List /\ Wiped.start = 0 /\ Wiped.len = FirstSlot
      /\ Wiped.update = 0 /\ Wiped.upto = 0
  BY DEF Wiped, List
<1>2. TypeOK
  BY <1>1 DEF TypeOK, Slot
<1>3. LockInv /\ NumberInv
  BY <1>1 DEF LockInv, NumberInv, Busy
<1>4. SlotInv
  BY DEF SlotInv, Busy
<1>5. Placed(Wiped)
  BY <1>1 DEF Placed, Intact, Slot
<1>6. PlacedInv
  BY <1>5 DEF PlacedInv
<1>7. KernelInv
  BY DEF KernelInv, KernelIntact, Slot
<1> QED BY <1>2, <1>3, <1>4, <1>6, <1>7 DEF IInv

-----------------------------------------------------------------------------
(* The steps *)

\* A step that writes no word, and leaves the next slot or goes round to slot 0.
NoWord ==
  /\ mem' = mem /\ total' = total
  /\ display_slot' = display_slot \/ (display_slot > WrapAt /\ display_slot' = 0)

LEMMA PlacedKept ==
  ASSUME TypeOK, NoWord
  PROVE  \A l \in List : Placed(l) => Placed(l)'
BY SlotAssumption DEF TypeOK, NoWord, Placed, Intact, List

\* Writing a word moves every list a slot away, and overwrites none that the
\* bound still protects.
LEMMA PlacedMoves ==
  ASSUME TypeOK, NEW t \in Thread, WriteWord(t)
  PROVE  \A l \in List : Placed(l) => Placed(l)'
<1> SUFFICES ASSUME NEW l \in List, Placed(l) PROVE Placed(l)'
  OBVIOUS
<1> DEFINE w == total - l.upto
<1>1. /\ l.start \in Nat /\ l.len \in Nat /\ l.upto \in Nat /\ display_slot \in Nat
      /\ total \in Nat /\ total' = total + 1 /\ display_slot' = display_slot + 1
  BY DEF TypeOK, List, WriteWord
<1>2. ASSUME w + 1 <= WrapAt + 1 - l.len PROVE Intact(l)'
  <2>1. Intact(l)
    BY <1>1, <1>2, SlotAssumption DEF Placed
  <2>2. ASSUME NEW s \in l.start .. l.start + l.len - 1 PROVE s # display_slot
    BY <1>1, <1>2, <2>2, SlotAssumption DEF Placed
  <2>3. ASSUME NEW s \in l.start .. l.start + l.len - 1
        PROVE  s \in Slot /\ mem'[s] = l.update
    BY <2>1, <2>2, <2>3 DEF Intact, WriteWord, TypeOK
  <2> QED BY <2>3 DEF Intact
<1> QED BY <1>1, <1>2, SlotAssumption DEF Placed

\* What the lists published keep of their place.
LEMMA PlacedInvKept ==
  ASSUME TypeOK, PlacedInv, \A l \in List : Placed(l) => Placed(l)',
         dlist_target' = dlist_target,
         \A c \in Channel : displist'[c] \in {displist[c], dlist_target[c]}
  PROVE  PlacedInv'
<1> SUFFICES ASSUME NEW c \in Channel PROVE Placed(dlist_target[c])' /\ Placed(displist[c])'
  BY DEF PlacedInv
<1>1. PICK l \in List : l = dlist_target[c]
  BY DEF TypeOK
<1>2. PICK m \in List : m = displist[c]
  BY DEF TypeOK
<1>3. Placed(l)' /\ Placed(m)'
  BY <1>1, <1>2 DEF PlacedInv
<1>4. dlist_target'[c] = l /\ displist'[c] \in {l, m}
  BY <1>1, <1>2
<1> QED BY <1>3, <1>4 DEF Placed, Intact

LEMMA AcquireStep ==
  ASSUME OneUpdater, IInv, NEW t \in Thread, NEW c \in MayUpdate[t], NEW n \in Lens,
         Acquire(t, c, n)
  PROVE  IInv'
<1> USE DEF Acquire
<1>1. c \in Channel /\ n \in Nat /\ updates \in Nat /\ longest \in Nat
  <2>1. MayUpdate[t] \subseteq Channel
    BY UpdateAssumption
  <2>2. n \in Nat
    BY LensAssumption, SlotAssumption
  <2> QED BY <2>1, <2>2 DEF IInv, TypeOK
<1>2. TypeOK'
  BY <1>1 DEF IInv, TypeOK
<1>3. ASSUME NEW u \in Thread PROVE ~Busy(u)
  <2> SUFFICES ASSUME Busy(u) PROVE FALSE
    OBVIOUS
  <2>1. chan[u] \in MayUpdate[u] /\ lock[chan[u]] = u
    BY DEF IInv, LockInv
  <2>2. u # t
    BY DEF Busy
  <2>3. chan[u] = c
    BY <2>1, <2>2 DEF OneUpdater
  <2> QED BY <2>1, <2>3, NoneAssumption
<1>4. /\ pc'[t] = "begin" /\ chan'[t] = c /\ len'[t] = n /\ number'[t] = updates + 1
      /\ \A u \in Thread : u # t => pc'[u] = pc[u]
  BY DEF IInv, TypeOK
<1>5. \A u \in Thread : Busy(u)' <=> u = t
  BY <1>3, <1>4 DEF Busy
<1>6. LockInv'
  BY <1>1, <1>4, <1>5 DEF LockInv, IInv, TypeOK
<1>7. NumberInv'
  BY <1>1, <1>4, <1>5 DEF NumberInv, IInv, TypeOK, List
<1>8. SlotInv'
  <2>1. display_slot <= WrapAt
    BY <1>3 DEF SlotInv, IInv
  <2>2. longest' >= n
    BY <1>1
  <2> QED BY <1>4, <1>5, <2>1, <2>2 DEF SlotInv, Busy
<1>9. PlacedInv'
  BY PlacedKept, PlacedInvKept DEF NoWord, IInv
<1>10. KernelInv'
  BY <1>1, SlotAssumption DEF KernelInv, KernelIntact, IInv
<1> QED BY <1>2, <1>6, <1>7, <1>8, <1>9, <1>10 DEF IInv

LEMMA BeginStep ==
  ASSUME IInv, NEW t \in Thread, Begin(t)
  PROVE  IInv'
<1> USE DEF Begin
<1> TypeOK
  BY DEF IInv
<1>1. TypeOK'
  BY DEF TypeOK
<1>2. \A u \in Thread : Busy(u)' <=> Busy(u)
  BY DEF Busy, TypeOK
<1>3. LockInv' /\ NumberInv'
  BY <1>2 DEF LockInv, NumberInv, IInv
<1>4. SlotInv'
  <2>1. \A u \in Thread : Busy(u) <=> u = t
    BY DEF IInv, LockInv, Busy
  <2>2. pc'[t] = "writing" /\ list_start'[t] = display_slot /\ left'[t] = len[t]
        /\ display_slot <= WrapAt /\ len[t] \in Nat /\ display_slot \in Nat
    BY DEF TypeOK, IInv, SlotInv
  <2>3. \A u \in Thread : pc'[u] = "writing" => u = t
    BY <1>2, <2>1 DEF Busy
  <2>4. \A u \in Thread : pc'[u] # "begin"
    BY <1>2, <2>1, <2>2 DEF Busy
  <2>5. \A u \in Thread : Busy(u)' => len'[u] <= longest'
    BY <1>2 DEF IInv, SlotInv
  <2>6. \E u \in Thread : Busy(u)'
    BY <1>2, <2>1
  <2> QED BY <2>2, <2>3, <2>4, <2>5, <2>6 DEF SlotInv, Slot
<1>5. PlacedInv'
  BY PlacedKept, PlacedInvKept DEF NoWord, IInv
<1>6. KernelInv'
  BY DEF KernelInv, KernelIntact, IInv
<1> QED BY <1>1, <1>3, <1>4, <1>5, <1>6 DEF IInv

LEMMA WriteStep ==
  ASSUME IInv, NEW t \in Thread, WriteWord(t)
  PROVE  IInv'
<1> USE DEF WriteWord
<1> TypeOK
  BY DEF IInv
<1>1. /\ left[t] \in Nat /\ left[t] > 0 /\ len[t] \in Nat /\ total \in Nat
      /\ display_slot \in Nat /\ number[t] \in Nat /\ list_start[t] \in Nat
      /\ left'[t] = left[t] - 1 /\ longest \in Nat
  BY DEF TypeOK
<1>2. TypeOK'
  BY <1>1 DEF TypeOK
<1>3. \A u \in Thread : Busy(u)' <=> Busy(u)
  BY DEF Busy
<1>4. LockInv' /\ NumberInv'
  BY <1>3 DEF LockInv, NumberInv, IInv
<1>5. \A u \in Thread : Busy(u) <=> u = t
  BY DEF IInv, LockInv, Busy
<1>6. /\ list_start[t] <= WrapAt /\ left[t] <= len[t] /\ len[t] <= longest
      /\ display_slot = list_start[t] + (len[t] - left[t])
      /\ \A s \in Slot : list_start[t] <= s /\ s < display_slot => mem[s] = number[t]
  BY <1>5 DEF IInv, SlotInv
<1>7. SlotInv'
  <2>1. \A s \in Slot : list_start[t] <= s /\ s < display_slot + 1 => mem'[s] = number[t]
    BY <1>1, <1>6 DEF TypeOK, Slot
  <2>2. left[t] - 1 <= len[t] /\ display_slot + 1 = list_start[t] + (len[t] - (left[t] - 1))
    BY <1>1, <1>6
  <2>3. \A u \in Thread : pc[u] = "writing" => u = t
    BY <1>5 DEF Busy
  <2>4. \A u \in Thread : pc[u] # "begin"
    BY <1>5 DEF Busy
  <2> QED BY <1>1, <1>3, <1>5, <1>6, <2>1, <2>2, <2>3, <2>4 DEF SlotInv
<1>8. PlacedInv'
  BY PlacedMoves, PlacedInvKept DEF IInv
<1>9. KernelInv'
  <2> SUFFICES ASSUME longest <= KernelAt - WrapAt, NEW s \in KernelAt .. KernelEnd
               PROVE  mem'[s] = KernelWord
    BY DEF KernelInv, KernelIntact
  <2>1. mem[s] = KernelWord
    BY DEF IInv, KernelInv, KernelIntact
  <2>2. display_slot < KernelAt
    BY <1>1, <1>6, SlotAssumption
  <2>3. s # display_slot
    BY <1>1, <2>2, SlotAssumption
  <2>4. s \in Slot
    BY SlotAssumption DEF Slot
  <2> QED BY <2>1, <2>3, <2>4 DEF TypeOK
<1> QED BY <1>2, <1>4, <1>7, <1>8, <1>9 DEF IInv

LEMMA OverflowStep ==
  ASSUME IInv, NEW t \in Thread, Overflow(t)
  PROVE  IInv'
<1> USE DEF Overflow, Written
<1> TypeOK
  BY DEF IInv
<1>1. TypeOK'
  BY DEF TypeOK
<1>2. \A u \in Thread : Busy(u)' <=> Busy(u)
  BY DEF Busy, TypeOK
<1>3. LockInv' /\ NumberInv'
  BY <1>2 DEF LockInv, NumberInv, IInv
<1>4. SlotInv'
  <2>1. \A u \in Thread : Busy(u) <=> u = t
    BY DEF IInv, LockInv, Busy
  <2>2. \A u \in Thread : pc'[u] # "writing"
    BY <2>1 DEF Busy, TypeOK
  <2>3. \A u \in Thread : Busy(u)' => len'[u] <= longest'
    BY <1>2 DEF IInv, SlotInv
  <2> QED BY <2>2, <2>3, SlotAssumption DEF SlotInv
<1>5. PlacedInv'
  <2>1. display_slot > WrapAt
    BY SlotAssumption DEF TypeOK
  <2> QED BY <2>1, PlacedKept, PlacedInvKept DEF NoWord, IInv
<1>6. KernelInv'
  BY DEF KernelInv, KernelIntact, IInv
<1> QED BY <1>1, <1>3, <1>4, <1>5, <1>6 DEF IInv

\* The list is published behind its last word, where it is whole.
LEMMA FinishStep ==
  ASSUME IInv, NEW t \in Thread, Finish(t)
  PROVE  IInv'
<1> USE DEF Finish, Written
<1> TypeOK
  BY DEF IInv
<1> DEFINE c == chan[t]
           l == [start |-> list_start[t], len |-> len[t], update |-> number[t],
                 upto |-> total]
<1>1. \A u \in Thread : Busy(u) <=> u = t
  BY DEF IInv, LockInv, Busy
<1>2. c \in Channel
  BY <1>1 DEF IInv, LockInv
<1>3. /\ l \in List /\ l.start = list_start[t] /\ l.len = len[t]
      /\ l.update = number[t] /\ l.upto = total /\ l.start <= WrapAt
      /\ dlist_target' = [dlist_target EXCEPT ![c] = l]
  BY DEF TypeOK, List, IInv, SlotInv
<1> HIDE DEF c, l
<1>4. display_slot \in Nat /\ display_slot' \in Nat /\ display_slot' <= WrapAt
      /\ (display_slot' = display_slot \/ (display_slot > WrapAt /\ display_slot' = 0))
  BY SlotAssumption DEF TypeOK, NextSlot
<1>5. TypeOK'
  BY <1>3, <1>4 DEF TypeOK
<1>6. \A u \in Thread : ~Busy(u)'
  BY <1>1 DEF Busy, TypeOK
<1>7. LockInv'
  BY <1>6 DEF LockInv
<1>8. NumberInv'
  <2>1. number[t] <= updates /\ dlist_target[c].update < number[t]
        /\ displist[c].update <= dlist_target[c].update
    BY <1>1, <1>2 DEF IInv, NumberInv, c
  <2>2. /\ number[t] \in Nat /\ updates \in Nat
        /\ \A d \in Channel : dlist_target[d].update \in Nat /\ displist[d].update \in Nat
    BY DEF TypeOK, List
  <2>3. \A d \in Channel :
          dlist_target'[d].update = IF d = c THEN number[t] ELSE dlist_target[d].update
    BY <1>2, <1>3 DEF TypeOK
  <2> QED BY <1>6, <2>1, <2>2, <2>3 DEF NumberInv, IInv
<1>9. SlotInv'
  BY <1>4, <1>6 DEF SlotInv, Busy
<1>10. Placed(l)'
  <2>1. /\ display_slot = list_start[t] + len[t] /\ display_slot <= Slots
        /\ list_start[t] \in Nat /\ len[t] \in Nat /\ total \in Nat
        /\ \A s \in Slot : list_start[t] <= s /\ s < display_slot => mem[s] = number[t]
    BY DEF TypeOK, IInv, SlotInv
  <2>2. Intact(l)
    BY <1>3, <2>1, SlotAssumption DEF Intact, Slot
  <2>3. Placed(l)
    BY <1>3, <2>1, <2>2 DEF Placed
  <2>4. NoWord
    BY <1>4 DEF NoWord
  <2>5. ASSUME NEW m \in List, m = l PROVE Placed(m)'
    <3>1. Placed(m)
      BY <2>3, <2>5
    <3> QED BY <2>4, <3>1, PlacedKept
  <2>6. PICK m \in List : m = l
    BY <1>3
  <2>7. Placed(m)'
    BY <2>5, <2>6
  <2>8. l' = l
    BY DEF l
  <2> QED BY <2>6, <2>7, <2>8 DEF Placed, Intact
<1>11. PlacedInv'
  <2>1. NoWord
    BY <1>4 DEF NoWord
  <2>2. ASSUME NEW d \in Channel PROVE Placed(displist[d])'
    <3>1. PICK m \in List : m = displist[d]
      BY DEF TypeOK
    <3>2. Placed(m)'
      BY <2>1, <3>1, PlacedKept DEF PlacedInv, IInv
    <3> QED BY <3>1, <3>2 DEF Placed, Intact
  <2>3. ASSUME NEW d \in Channel, d # c PROVE Placed(dlist_target[d])'
    <3>1. PICK m \in List : m = dlist_target[d]
      BY DEF TypeOK
    <3>2. Placed(m)'
      BY <2>1, <3>1, PlacedKept DEF PlacedInv, IInv
    <3>3. dlist_target'[d] = m
      BY <1>3, <2>3, <3>1 DEF TypeOK
    <3> QED BY <3>2, <3>3 DEF Placed, Intact
  <2>4. PICK m \in List : m = l
    BY <1>3
  <2>5. Placed(m)'
    <3>1. l' = l
      BY DEF l
    <3> QED BY <1>10, <2>4, <3>1 DEF Placed, Intact
  <2>6. dlist_target'[c] = m
    BY <1>2, <1>3, <2>4 DEF TypeOK
  <2>7. ASSUME NEW d \in Channel, d = c PROVE Placed(dlist_target[d])'
    BY <2>5, <2>6, <2>7 DEF Placed, Intact
  <2> QED BY <2>2, <2>3, <2>7 DEF PlacedInv
<1>12. KernelInv'
  BY DEF KernelInv, KernelIntact, IInv
<1> QED BY <1>5, <1>7, <1>8, <1>9, <1>11, <1>12 DEF IInv

LEMMA WaitStep ==
  ASSUME IInv, NEW t \in Thread, NEW c \in MayUpdate[t], WaitVsync(t, c)
  PROVE  IInv'
<1> USE DEF WaitVsync
<1> TypeOK
  BY DEF IInv
<1>1. TypeOK'
  BY UpdateAssumption DEF TypeOK
<1>2. \A u \in Thread : /\ Busy(u)' <=> Busy(u)
                        /\ Busy(u) => chan'[u] = chan[u] /\ pc'[u] = pc[u]
  BY DEF Busy, TypeOK
<1>3. LockInv' /\ NumberInv'
  BY <1>2 DEF LockInv, NumberInv, IInv
<1>4. SlotInv'
  BY <1>2 DEF SlotInv, IInv, Busy
<1>5. PlacedInv'
  BY PlacedKept, PlacedInvKept DEF NoWord, IInv
<1>6. KernelInv'
  BY DEF KernelInv, KernelIntact, IInv
<1> QED BY <1>1, <1>3, <1>4, <1>5, <1>6 DEF IInv

LEMMA VfpStep ==
  ASSUME IInv, NEW c \in Channel, VfpStart(c)
  PROVE  IInv'
<1> USE DEF VfpStart
<1> TypeOK
  BY DEF IInv
<1>1. TypeOK'
  BY DEF TypeOK
<1>2. \A u \in Thread : /\ Busy(u)' <=> Busy(u)
                        /\ Busy(u) => chan'[u] = chan[u] /\ pc'[u] = pc[u]
  BY DEF Busy, Waiters
<1>3. \A d \in Channel : displist'[d] \in {displist[d], dlist_target[d]}
  BY DEF TypeOK
<1>4. LockInv'
  BY <1>2 DEF LockInv, IInv
<1>5. NumberInv'
  BY <1>2, <1>3 DEF NumberInv, IInv, TypeOK, List
<1>6. SlotInv'
  BY <1>2 DEF SlotInv, IInv, Busy
<1>7. PlacedInv'
  BY <1>3, PlacedKept, PlacedInvKept DEF NoWord, IInv
<1>8. KernelInv'
  BY DEF KernelInv, KernelIntact, IInv
<1> QED BY <1>1, <1>4, <1>5, <1>6, <1>7, <1>8 DEF IInv

LEMMA Inductive == ASSUME OneUpdater PROVE IInv /\ [Next]_vars => IInv'
<1> SUFFICES ASSUME IInv, [Next]_vars PROVE IInv'
  OBVIOUS
<1>1. ASSUME NEW t \in Thread, NEW c \in MayUpdate[t], WaitVsync(t, c) PROVE IInv'
  BY <1>1, WaitStep
<1>2. ASSUME NEW t \in Thread, NEW c \in MayUpdate[t], NEW n \in Lens, Acquire(t, c, n)
      PROVE  IInv'
  BY <1>2, AcquireStep
<1>3. ASSUME NEW t \in Thread, Begin(t) \/ WriteWord(t) \/ Overflow(t) \/ Finish(t)
      PROVE  IInv'
  BY <1>3, BeginStep, WriteStep, OverflowStep, FinishStep
<1>4. ASSUME NEW c \in Channel, VfpStart(c) PROVE IInv'
  BY <1>4, VfpStep
<1>5. CASE UNCHANGED vars
  <2> USE <1>5 DEF vars, threadVars
  <2>1. TypeOK' /\ LockInv' /\ NumberInv' /\ SlotInv' /\ KernelInv'
    BY DEF IInv, TypeOK, LockInv, NumberInv, SlotInv, KernelInv, KernelIntact, Busy
  <2>2. PlacedInv'
    BY DEF IInv, PlacedInv, Placed, Intact
  <2> QED BY <2>1, <2>2 DEF IInv
<1> QED BY <1>1, <1>2, <1>3, <1>4, <1>5 DEF Next

LEMMA Invariance == ASSUME OneUpdater PROVE Spec => []IInv
BY InitIInv, Inductive, PTL DEF Spec

\* What a step does to the lists of a channel.
LEMMA ListStep ==
  ASSUME IInv, [Next]_vars, NEW c \in Channel
  PROVE  \/ displist'[c] = displist[c] /\ dlist_target'[c] = dlist_target[c]
         \/ displist'[c] = displist[c] /\ dlist_target'[c].update > dlist_target[c].update
         \/ displist'[c] = dlist_target[c] /\ dlist_target'[c] = dlist_target[c]
<1>1. ASSUME NEW t \in Thread, Finish(t)
      PROVE  /\ displist' = displist
             /\ \/ dlist_target'[c] = dlist_target[c]
                \/ dlist_target'[c].update > dlist_target[c].update
  <2>1. Busy(t)
    BY <1>1 DEF Finish, Written, Busy
  <2>2. /\ dlist_target[chan[t]].update < number[t] /\ number[t] \in Nat
        /\ dlist_target[c] \in List
    BY <2>1 DEF IInv, NumberInv, TypeOK
  <2>3. c # chan[t] => dlist_target'[c] = dlist_target[c]
    BY <1>1 DEF Finish, IInv, TypeOK
  <2>4. c = chan[t] => dlist_target'[c].update = number[t]
    BY <1>1 DEF Finish, IInv, TypeOK
  <2> QED BY <1>1, <2>2, <2>3, <2>4 DEF Finish, List
<1>2. ASSUME NEW d \in Channel, VfpStart(d)
      PROVE  displist'[c] \in {displist[c], dlist_target[c]} /\ dlist_target' = dlist_target
  BY <1>2 DEF VfpStart, IInv, TypeOK
<1>3. CASE UNCHANGED <<displist, dlist_target>>
  BY <1>3
<1> QED BY <1>1, <1>2, <1>3
        DEF Next, vars, WaitVsync, Acquire, Begin, WriteWord, Overflow

\* Only the vsync of its channel lets a waiting thread go on.
LEMMA WokenByVsync ==
  ASSUME TypeOK, [Next]_vars, NEW c \in Channel, NEW t \in Waiters(c), pc'[t] # "waiting"
  PROVE  VfpStart(c)
<1>1. t \in Thread /\ pc[t] = "waiting" /\ chan[t] = c
  BY DEF Waiters
<1>2. ASSUME NEW u \in Thread, pc[u] # "waiting", NEW p, pc' = [pc EXCEPT ![u] = p]
      PROVE  FALSE
  BY <1>1, <1>2 DEF TypeOK
<1>3. ASSUME NEW u \in Thread, NEW d, WaitVsync(u, d) \/ \E n \in Lens : Acquire(u, d, n)
      PROVE  FALSE
  BY <1>2, <1>3 DEF WaitVsync, Acquire
<1>4. ASSUME NEW u \in Thread, Begin(u) \/ Overflow(u) \/ Finish(u) PROVE FALSE
  BY <1>2, <1>4 DEF Begin, Overflow, Finish, Written
<1>5. ASSUME (\E u \in Thread : WriteWord(u)) \/ UNCHANGED vars PROVE FALSE
  BY <1>1, <1>5 DEF WriteWord, vars, threadVars
<1>6. ASSUME NEW d \in Channel, VfpStart(d) PROVE d = c
  BY <1>1, <1>6 DEF VfpStart, Waiters
<1> QED BY <1>3, <1>4, <1>5, <1>6 DEF Next

-----------------------------------------------------------------------------
(* The theorems *)

\* TypeOK: no list starts behind WrapAt.
THEOREM Typing == ASSUME OneUpdater PROVE Spec => []TypeOK
<1>1. IInv => TypeOK
  BY DEF IInv
<1> QED BY <1>1, Invariance, PTL

\* A scanned list stays whole while WrapAt + 1 words, less its own, are written:
\* the test at 3000 in hvs_update_dlist is all that keeps the lists apart.
THEOREM ScannedListsIntact == ASSUME OneUpdater PROVE Spec => []ScannedIntact
<1>1. IInv => ScannedIntact
  BY DEF IInv, PlacedInv, Placed, ScannedIntact, WithinLap
<1> QED BY <1>1, Invariance, PTL

\* Lists of up to 1080 words never reach the scaling kernel.
THEOREM KernelKept == ASSUME OneUpdater PROVE Spec => []KernelIntact
<1>1. IInv => KernelIntact
  BY DEF IInv, KernelInv
<1> QED BY <1>1, Invariance, PTL

\* The frames of a channel show its updates in their order, and pv_irq the last
\* that is finished.
THEOREM UpdatesInOrder == ASSUME OneUpdater PROVE Spec => NeverOlder
<1> DEFINE InOrder(c) ==
             /\ displist'[c].update >= displist[c].update
             /\ dlist_target'[c].update >= dlist_target[c].update
             /\ displist'[c] \in {displist[c], dlist_target[c]}
             /\ VfpStart(c) \/ (\E t \in Waiters(c) : pc'[t] # "waiting")
                  => displist'[c] = dlist_target[c]
<1>1. ASSUME IInv, [Next]_vars, NEW c \in Channel PROVE InOrder(c)
  <2>1. /\ dlist_target[c].update \in Nat /\ displist[c].update \in Nat
        /\ displist[c].update <= dlist_target[c].update
    BY <1>1 DEF IInv, TypeOK, List, NumberInv
  <2>2. dlist_target'[c].update \in Nat
    BY <1>1, Inductive DEF IInv, TypeOK, List
  <2>3. /\ displist'[c].update >= displist[c].update
        /\ dlist_target'[c].update >= dlist_target[c].update
        /\ displist'[c] \in {displist[c], dlist_target[c]}
    BY <1>1, <2>1, <2>2, ListStep
  <2>4. VfpStart(c) => displist'[c] = dlist_target[c]
    BY <1>1 DEF VfpStart, IInv, TypeOK
  <2>5. ASSUME NEW t \in Waiters(c), pc'[t] # "waiting" PROVE VfpStart(c)
    BY <1>1, <2>5, WokenByVsync DEF IInv
  <2> QED BY <2>3, <2>4, <2>5
<1>2. IInv /\ [Next]_vars => [\A c \in Channel : InOrder(c)]_vars
  BY <1>1
<1> QED BY <1>2, Invariance, PTL DEF Spec, NeverOlder

-----------------------------------------------------------------------------
(* The memory that all lists share, as good as one for each *)

\* The picture of a list that is whole.
Whole(l) == [update |-> l.update, words |-> [i \in 0 .. l.len - 1 |-> l.update]]

LEMMA IntactPicture ==
  ASSUME NEW l \in List, Intact(l)
  PROVE  PictureOf(l) = Whole(l)
<1>1. \A i \in 0 .. l.len - 1 : l.start + i \in l.start .. l.start + l.len - 1
  BY DEF List
<1>2. \A i \in 0 .. l.len - 1 : mem[l.start + i] = l.update
  BY <1>1 DEF Intact
<1> QED BY <1>2 DEF PictureOf, Whole

LEMMA WholePictures ==
  ASSUME IInv, NEW c \in Channel, LapKept(c)
  PROVE  /\ PictureOf(dlist_target[c]) = Whole(dlist_target[c])
         /\ PictureOf(displist[c]) = Whole(displist[c])
<1>1. dlist_target[c] \in List /\ displist[c] \in List
  BY DEF IInv, TypeOK
<1>2. Intact(dlist_target[c]) /\ Intact(displist[c])
  BY DEF IInv, PlacedInv, Placed, LapKept, WithinLap
<1> QED BY <1>1, <1>2, IntactPicture

LEMMA WholePicturesNext ==
  ASSUME IInv', NEW c \in Channel, LapKept(c)'
  PROVE  /\ PictureOf(dlist_target[c])' = Whole(dlist_target'[c])
         /\ PictureOf(displist[c])' = Whole(displist'[c])
<1>1. dlist_target'[c] \in List /\ displist'[c] \in List
  BY DEF IInv, TypeOK
<1>2. \A l \in List : Intact(l)' => PictureOf(l)' = Whole(l)
  BY DEF Intact, PictureOf, Whole, List
<1>3. PICK l \in List, m \in List : l = dlist_target'[c] /\ m = displist'[c]
  BY <1>1
<1> QED BY <1>1, <1>2 DEF IInv, PlacedInv, Placed, LapKept, WithinLap

LEMMA DisplayStep ==
  ASSUME IInv, IInv', [Next]_vars, NEW c \in Channel, LapKept(c), LapKept(c)'
  PROVE  [Display(c)!Compose \/ Display(c)!Flip]_(Display(c)!displayVars)
<1>1. /\ PictureOf(dlist_target[c]) = Whole(dlist_target[c])
      /\ PictureOf(displist[c]) = Whole(displist[c])
  BY WholePictures
<1>2. /\ PictureOf(dlist_target[c])' = Whole(dlist_target'[c])
      /\ PictureOf(displist[c])' = Whole(displist'[c])
  BY WholePicturesNext
<1>3. Display(c)!OfOneUpdate(PictureOf(dlist_target[c]))'
  BY <1>2 DEF Display!OfOneUpdate, Whole
<1>4. CASE displist'[c] = displist[c] /\ dlist_target'[c] = dlist_target[c]
  BY <1>1, <1>2, <1>4 DEF Display!displayVars
<1>5. CASE displist'[c] = displist[c] /\ dlist_target'[c].update > dlist_target[c].update
  <2>1. PictureOf(dlist_target[c])'.update > PictureOf(dlist_target[c]).update
    BY <1>1, <1>2, <1>5 DEF Whole
  <2> QED BY <1>1, <1>2, <1>3, <1>5, <2>1 DEF Display!Compose
<1>6. CASE displist'[c] = dlist_target[c] /\ dlist_target'[c] = dlist_target[c]
  BY <1>1, <1>2, <1>6 DEF Display!Flip
<1> QED BY <1>4, <1>5, <1>6, ListStep

\* A channel whose lists are replaced within a lap of the shared memory shows whole
\* updates and never an older one, as if each list had a memory of its own: what is
\* written there meanwhile, for this channel and the others, changes no word of the
\* list that is shown nor of the one that waits for the vsync.
THEOREM DisplayRefinement == ASSUME OneUpdater PROVE Spec => ShowsWholeUpdates
<1> SUFFICES ASSUME NEW c \in Channel
             PROVE  Spec /\ []LapKept(c) => Display(c)!Spec
  BY DEF ShowsWholeUpdates
<1>1. Init => Display(c)!DisplayInit
  <2> SUFFICES ASSUME Init PROVE Display(c)!DisplayInit
    OBVIOUS
  <2>1. IInv
    BY InitIInv
  <2>2. dlist_target[c] = Wiped /\ displist[c] = Wiped /\ total = 0
    BY DEF Init
  <2>3. LapKept(c)
    BY <2>2, SlotAssumption DEF LapKept, WithinLap, Wiped
  <2>4. PictureOf(dlist_target[c]) = Whole(dlist_target[c])
    BY <2>1, <2>3, WholePictures
  <2> QED BY <2>2, <2>4 DEF Display!DisplayInit, Display!OfOneUpdate, Whole
<1>2. IInv /\ IInv' /\ [Next]_vars /\ LapKept(c) /\ LapKept(c)'
        => [Display(c)!Compose \/ Display(c)!Flip]_(Display(c)!displayVars)
  BY DisplayStep
<1> QED BY <1>1, <1>2, Invariance, PTL DEF Spec, Display!Spec
=============================================================================
