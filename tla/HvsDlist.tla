------------------------------ MODULE HvsDlist ------------------------------
(***************************************************************************)
(* The display lists of platform/bcm28xx/hvs/hvs.c.                        *)
(*                                                                         *)
(* The HVS scans out, for every channel, the list of words it finds in its *)
(* list memory from the slot in DISPLISTn up to an end word.  All channels *)
(* share the memory and the slot the next list goes to, display_slot;      *)
(* lists are written one behind the other, and from slot 0 again once past *)
(* slot 3000.  Nothing says which lists are still scanned.  Behind the     *)
(* lists, at slot 4080, is the scaling kernel that the lists refer to.     *)
(*                                                                         *)
(* hvs_update_dlist writes the list of a channel under the lock of that    *)
(* channel, and pv_irq, at the end of a frame, has the HVS scan the last   *)
(* one written.  The words of a list are abstracted to the number of the   *)
(* update that wrote them, a layer to the number of its words.             *)
(***************************************************************************)
EXTENDS Integers

CONSTANTS
  Channel, Thread,
  MayUpdate,   \* the channels whose lists a thread updates
  Slots,       \* 4096
  WrapAt,      \* 3000: a list behind this slot is the last before slot 0
  FirstSlot,   \* 11
  KernelAt,    \* scaling_kernel, 4080; the kernel fills the slots up to KernelEnd
  KernelEnd,   \* 4090
  Lens,        \* how many words the layers of a channel take, with the end word
  MaxUpdates,  \* BOUND: calls of hvs_update_dlist in a behaviour
  KernelWord, None

ASSUME SlotAssumption ==
  /\ Slots \in Nat /\ WrapAt \in Nat /\ FirstSlot \in Nat \ {0}
  /\ KernelAt \in Nat /\ KernelEnd \in Nat
  /\ FirstSlot <= WrapAt /\ WrapAt < KernelAt
  /\ KernelAt <= KernelEnd /\ KernelEnd < Slots

\* A list of more than Slots words is never finished: the overflow branch of
\* hvs_update_dlist calls it again without end.
ASSUME LensAssumption == Lens \subseteq 1 .. Slots

ASSUME UpdateAssumption ==
  MayUpdate \in [Thread -> SUBSET Channel] /\ MaxUpdates \in Nat

ASSUME NoneAssumption == None \notin Thread \cup Channel /\ KernelWord \notin Nat

VARIABLES
  mem,          \* dlist_memory
  display_slot,
  dlist_target, \* channels[].dlist_target, and the list that was written there
  displist,     \* DISPLISTn, and the same of the list scanned
  lock,         \* channels[].lock
  pc,           \* where a thread is
  chan,         \* the channel it has locked
  list_start,   \* list_start in hvs_update_dlist
  len, left,    \* words of the list, words not written yet
  number,       \* which update this is
  updates,      \* updates started
  total,        \* words written, ever
  longest       \* history: words of the longest list

threadVars == <<pc, chan, list_start, len, left, number>>
vars == <<mem, display_slot, dlist_target, displist, lock, threadVars,
          updates, total, longest>>

Slot == 0 .. Slots - 1

\* A list: where it is, how long, the update that wrote it, and how many words
\* had been written when it was finished.
List == [start : Nat, len : Nat, update : Nat, upto : Nat]

TypeOK ==
  /\ mem \in [Slot -> Nat \cup {KernelWord}]
  /\ display_slot \in Nat
  /\ dlist_target \in [Channel -> List] /\ displist \in [Channel -> List]
  /\ lock \in [Channel -> Thread \cup {None}]
  /\ pc \in [Thread -> {"idle", "waiting", "begin", "writing"}]
  /\ chan \in [Thread -> Channel \cup {None}]
  /\ list_start \in [Thread -> Nat]
  /\ len \in [Thread -> Nat] /\ left \in [Thread -> Nat]
  /\ number \in [Thread -> Nat]
  /\ updates \in Nat /\ total \in Nat /\ longest \in Nat
  /\ \A c \in Channel : dlist_target[c].start <= WrapAt

\* hvs_wipe_displaylist leaves end words, which are a list of no layers that
\* every channel starts with.
Wiped == [start |-> 0, len |-> FirstSlot, update |-> 0, upto |-> 0]

\* hvs_initialize and hvs_configure_channel
Init ==
  /\ mem = [s \in Slot |-> IF s \in KernelAt .. KernelEnd THEN KernelWord ELSE 0]
  /\ display_slot = FirstSlot
  /\ dlist_target = [c \in Channel |-> Wiped] /\ displist = dlist_target
  /\ lock = [c \in Channel |-> None]
  /\ pc = [t \in Thread |-> "idle"] /\ chan = [t \in Thread |-> None]
  /\ list_start = [t \in Thread |-> 0]
  /\ len = [t \in Thread |-> 0] /\ left = [t \in Thread |-> 0]
  /\ number = [t \in Thread |-> 0]
  /\ updates = 0 /\ total = 0 /\ longest = 0

-----------------------------------------------------------------------------
(* Updating the list of a channel *)

\* BUG: the caller does not take the lock.
BugAcquire(t, c, n) ==
  /\ pc[t] = "idle" /\ updates < MaxUpdates
  /\ pc' = [pc EXCEPT ![t] = "begin"] /\ chan' = [chan EXCEPT ![t] = c]
  /\ len' = [len EXCEPT ![t] = n]
  /\ updates' = updates + 1 /\ number' = [number EXCEPT ![t] = updates']
  /\ longest' = (IF n > longest THEN n ELSE longest)
  /\ UNCHANGED <<mem, display_slot, dlist_target, displist, lock, list_start, left, total>>

\* mutex_acquire(&channels[c].lock), for layers that take n words
Acquire(t, c, n) ==
  /\ pc[t] = "idle" /\ lock[c] = None /\ updates < MaxUpdates
  /\ lock' = [lock EXCEPT ![c] = t]
  /\ pc' = [pc EXCEPT ![t] = "begin"] /\ chan' = [chan EXCEPT ![t] = c]
  /\ len' = [len EXCEPT ![t] = n]
  /\ updates' = updates + 1 /\ number' = [number EXCEPT ![t] = updates']
  /\ longest' = (IF n > longest THEN n ELSE longest)
  /\ UNCHANGED <<mem, display_slot, dlist_target, displist, list_start, left, total>>

\* hvs_update_dlist is entered, by its caller or by itself.
Begin(t) ==
  /\ pc[t] = "begin"
  /\ pc' = [pc EXCEPT ![t] = "writing"]
  /\ list_start' = [list_start EXCEPT ![t] = display_slot]
  /\ left' = [left EXCEPT ![t] = len[t]]
  /\ UNCHANGED <<mem, display_slot, dlist_target, displist, lock, chan, len, number,
                 updates, total, longest>>

\* dlist_memory[display_slot++] = ..., of a layer or the end word; what is
\* written behind the list memory is lost.
WriteWord(t) ==
  /\ pc[t] = "writing" /\ left[t] > 0
  /\ mem' = (IF display_slot \in Slot THEN [mem EXCEPT ![display_slot] = number[t]] ELSE mem)
  /\ display_slot' = display_slot + 1
  /\ left' = [left EXCEPT ![t] = @ - 1]
  /\ total' = total + 1
  /\ UNCHANGED <<dlist_target, displist, lock, pc, chan, list_start, len, number,
                 updates, longest>>

Written(t) == pc[t] = "writing" /\ left[t] = 0

\* "dlist overflow!!!": the list is written again, from slot 0.
Overflow(t) ==
  /\ Written(t) /\ display_slot > Slots
  /\ display_slot' = 0
  /\ pc' = [pc EXCEPT ![t] = "begin"]
  /\ UNCHANGED <<mem, dlist_target, displist, lock, chan, list_start, len, left, number,
                 updates, total, longest>>

\* BUG: the lists go on up to the end of the memory.
BugNextSlot(slot) == IF slot >= Slots THEN 0 ELSE slot

\* Where the list behind one that ends before a slot goes.
NextSlot(slot) == IF slot > WrapAt THEN 0 ELSE slot

\* BUG: the target is set from display_slot, which has moved on.
BugFinish(t) ==
  /\ Written(t) /\ display_slot <= Slots
  /\ display_slot' = NextSlot(display_slot)
  /\ dlist_target' = [dlist_target EXCEPT ![chan[t]] =
       [start |-> display_slot', len |-> len[t], update |-> number[t], upto |-> total]]
  /\ lock' = [lock EXCEPT ![chan[t]] = None]
  /\ pc' = [pc EXCEPT ![t] = "idle"] /\ chan' = [chan EXCEPT ![t] = None]
  /\ UNCHANGED <<mem, displist, list_start, len, left, number, updates, total, longest>>

\* The list is to be scanned from the next frame on; mutex_release.
Finish(t) ==
  /\ Written(t) /\ display_slot <= Slots
  /\ display_slot' = NextSlot(display_slot)
  /\ dlist_target' = [dlist_target EXCEPT ![chan[t]] =
       [start |-> list_start[t], len |-> len[t], update |-> number[t], upto |-> total]]
  /\ lock' = [lock EXCEPT ![chan[t]] = None]
  /\ pc' = [pc EXCEPT ![t] = "idle"] /\ chan' = [chan EXCEPT ![t] = None]
  /\ UNCHANGED <<mem, displist, list_start, len, left, number, updates, total, longest>>

-----------------------------------------------------------------------------
(* The end of a frame *)

\* hvs_wait_vsync
WaitVsync(t, c) ==
  /\ pc[t] = "idle"
  /\ pc' = [pc EXCEPT ![t] = "waiting"] /\ chan' = [chan EXCEPT ![t] = c]
  /\ UNCHANGED <<mem, display_slot, dlist_target, displist, lock, list_start, len, left,
                 number, updates, total, longest>>

Waiters(c) == {t \in Thread : pc[t] = "waiting" /\ chan[t] = c}

\* pv_irq with PV_INTEN_VFP_START: the page is flipped, all waiters are woken.
VfpStart(c) ==
  /\ displist' = [displist EXCEPT ![c] = dlist_target[c]]
  /\ pc' = [t \in Thread |-> IF t \in Waiters(c) THEN "idle" ELSE pc[t]]
  /\ chan' = [t \in Thread |-> IF t \in Waiters(c) THEN None ELSE chan[t]]
  /\ UNCHANGED <<mem, display_slot, dlist_target, lock, list_start, len, left, number,
                 updates, total, longest>>

Next ==
  \/ \E t \in Thread : \E c \in MayUpdate[t] :
       WaitVsync(t, c) \/ \E n \in Lens : Acquire(t, c, n)
  \/ \E t \in Thread : Begin(t) \/ WriteWord(t) \/ Overflow(t) \/ Finish(t)
  \/ \E c \in Channel : VfpStart(c)

Spec == Init /\ [][Next]_vars

-----------------------------------------------------------------------------
(* Properties *)

Intact(l) == \A s \in l.start .. l.start + l.len - 1 : s \in Slot /\ mem[s] = l.update

\* Since the list was finished no more words were written than there are from its
\* end round to its start.
WithinLap(l) == total - l.upto <= WrapAt + 1 - l.len

\* The list a channel scans is the one an update wrote, whole, as long as no more
\* than a lap of the memory was written since.  So much may be written in a frame;
\* "can be called multiple times per frame".
ScannedIntact == \A c \in Channel : WithinLap(displist[c]) => Intact(displist[c])

\* Lists that fit between WrapAt and the kernel never reach the kernel, wherever
\* they start.
KernelIntact ==
  longest <= KernelAt - WrapAt =>
    \A s \in KernelAt .. KernelEnd : mem[s] = KernelWord

\* "only the last state will be applied": what a channel scans changes only to its
\* last finished update, which is never older than the one before, and a thread that
\* waited for the vsync goes on only when the channel scans the last update that was
\* finished: its own, if it made one, or a later one.
NeverOlder ==
  [][\A c \in Channel :
       /\ displist'[c].update >= displist[c].update
       /\ dlist_target'[c].update >= dlist_target[c].update
       /\ displist'[c] \in {displist[c], dlist_target[c]}
       /\ VfpStart(c) \/ (\E t \in Waiters(c) : pc'[t] # "waiting")
            => displist'[c] = dlist_target[c]]_vars

\* The words of a list as they are in the memory.
PictureOf(l) ==
  [update |-> l.update, words |-> [i \in 0 .. l.len - 1 |-> mem[l.start + i]]]

Display(c) == INSTANCE AbstractDisplay WITH
  latest <- PictureOf(dlist_target[c]), shown <- PictureOf(displist[c])

\* Neither the list a channel shows nor the one it shows next is older than a lap.
LapKept(c) == WithinLap(dlist_target[c]) /\ WithinLap(displist[c])

\* For a channel whose lists are replaced within a lap the memory that all lists
\* share is as good as one for each list: no word of a list that is shown or waits
\* for its vsync changes, whatever is written meanwhile, for this channel or another.
ShowsWholeUpdates == \A c \in Channel : []LapKept(c) => Display(c)!Spec
=============================================================================
