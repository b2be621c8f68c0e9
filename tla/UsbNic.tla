------------------------------- MODULE UsbNic -------------------------------
(***************************************************************************)
(* lib/rpi-usb-nic/nic.c: the network adapter on USB, between the network  *)
(* stack, whose packets go through the queue of ListFifo to a transmit     *)
(* thread, and the USB stack, which has one transfer at a time on each     *)
(* endpoint and calls back from its own thread.  A received packet is      *)
(* handed to the network stack in that callback, so that the USB thread    *)
(* sends packets too.                                                      *)
(*                                                                         *)
(* External: lwIP, TinyUSB, the adapter.                                   *)
(***************************************************************************)
EXTENDS ListFifo

CONSTANTS
  Tx,      \* nic_tx_thread, the one consumer
  Usb,     \* the USB thread, one of the producers
  Garbage  \* what a pbuf holds once the stack has freed it

ASSUME NicAssumption == Consumer = {Tx} /\ Usb \in Producer /\ Garbage \notin Node

VARIABLES
  tx,          \* where the transmit thread is
  tx_buffer,   \* what it has copied
  out_busy,    \* does a transfer run on endpoint 2?
  sent,        \* history: the transfers started there, see Transfer
  freed_twice, \* history: the adapter and the stack have both freed a pbuf
  rx,          \* where nic_rx_thread is
  rx_running,  \* the event
  in_busy,     \* does a transfer, rx_xfer, run on endpoint 0x81?
  rx_cb,       \* is the USB thread in rx_cb?
  plugged

txVars == <<tx, tx_buffer, out_busy, sent, freed_twice>>
rxVars == <<rx, rx_running, in_busy, rx_cb>>
nicVars == <<vars, txVars, rxVars, plugged>>

\* The packet a transfer is for, and those whose bytes its buffer held while it ran.
Transfer == [packet : Node, carries : SUBSET (Node \cup {Garbage})]

NicTypeOK ==
  /\ TypeOK
  /\ tx \in {"pop", "copy", "send"}
  /\ tx_buffer \in Node \cup {Garbage, None}
  /\ out_busy \in BOOLEAN /\ sent \in Seq(Transfer) /\ freed_twice \in BOOLEAN
  /\ rx \in {"start", "wait", "refused"}
  /\ rx_running \in BOOLEAN /\ in_busy \in BOOLEAN /\ rx_cb \in BOOLEAN
  /\ plugged \in BOOLEAN

\* nic_start_thread
NicInit ==
  /\ Init
  /\ tx = "pop" /\ tx_buffer = None /\ out_busy = FALSE /\ sent = <<>> /\ freed_twice = FALSE
  /\ rx = "start" /\ rx_running = FALSE /\ in_busy = FALSE /\ rx_cb = FALSE
  /\ plugged = TRUE

-----------------------------------------------------------------------------
(* nic_tx_queue: called by the stack, and by the USB thread from rx_cb and from *)
(* nic_int_cb, which starts DHCP when the link has come up                     *)

TxQueue(p) ==
  /\ PushAdd(p) \/ PushSignal(p)
  /\ UNCHANGED <<txVars, rxVars, plugged>>

-----------------------------------------------------------------------------
(* nic_tx_thread *)

TxPop ==
  /\ tx = "pop"
  /\ \/ (PopLock(Tx) \/ PopWait(Tx) \/ PopRemove(Tx) \/ PopPanics(Tx)) /\ UNCHANGED tx
     \/ PopReturn(Tx) /\ tx' = "copy"
  /\ UNCHANGED <<tx_buffer, out_busy, sent, freed_twice, rxVars, plugged>>

Packet == delivered[Len(delivered)]

\* The packet is copied, whether or not a transfer still runs from the buffer:
\* tx_busy is never set.  Then the pbuf is freed, to which nic_tx_queue has taken
\* no reference: the stack frees it too.  From then on the pool of pbufs is broken,
\* and the memory of a packet may be another's.
TxCopy ==
  /\ ~panic /\ tx = "copy" /\ tx' = "send"
  /\ freed_twice' \in {freed_twice, TRUE}
  /\ tx_buffer' \in {Packet} \cup {g \in {Garbage} : freed_twice'}
  /\ sent' = IF out_busy
               THEN [sent EXCEPT ![Len(sent)].carries = @ \cup {tx_buffer'}]
               ELSE sent
  /\ UNCHANGED <<vars, out_busy, rxVars, plugged>>

\* assert(p->len == p->tot_len), or lwIP's that the pbuf is not free already
TxPanics ==
  /\ ~panic /\ tx = "copy"
  /\ panic' = TRUE
  /\ UNCHANGED <<fifo, evt, pop_lock, pushed, pc, n, delivered, txVars, rxVars, plugged>>

\* BUG: a packet that meets a transfer is dropped.
BugTxSend ==
  /\ ~panic /\ tx = "send"
  /\ tx' = "pop" /\ out_busy' = (plugged \/ out_busy)
  /\ sent' = IF plugged /\ ~out_busy
               THEN Append(sent, [packet |-> Packet, carries |-> {tx_buffer}])
               ELSE sent
  /\ UNCHANGED <<vars, tx_buffer, freed_twice, rxVars, plugged>>

\* tuh_edpt_xfer, tried again as long as it is refused.
TxSend ==
  /\ ~panic /\ tx = "send" /\ plugged /\ ~out_busy
  /\ tx' = "pop" /\ out_busy' = TRUE
  /\ sent' = Append(sent, [packet |-> Packet, carries |-> {tx_buffer}])
  /\ UNCHANGED <<vars, tx_buffer, freed_twice, rxVars, plugged>>

TxThread == TxPop \/ TxCopy \/ TxPanics \/ TxSend

\* Is the USB thread in no callback?
UsbFree == ~rx_cb /\ pc[Usb] = "ready"

\* The USB thread learns that the transfer is done, and calls nic_tx_complete.
TxComplete ==
  /\ ~panic /\ out_busy /\ plugged /\ UsbFree
  /\ out_busy' = FALSE
  /\ UNCHANGED <<vars, tx, tx_buffer, sent, freed_twice, rxVars, plugged>>

-----------------------------------------------------------------------------
(* nic_rx_thread *)

\* start_rx gets no pbuf, which it does not look at, or assert(p->len == 1600) fails.
StartRxPanics ==
  /\ ~panic /\ rx = "start"
  /\ panic' = TRUE
  /\ UNCHANGED <<fifo, evt, pop_lock, pushed, pc, n, delivered, txVars, rxVars, plugged>>

\* start_rx, which does not look whether the transfer was refused
StartRx ==
  /\ ~panic /\ rx = "start"
  /\ rx' = (IF plugged /\ ~in_busy THEN "wait" ELSE "refused")
  /\ in_busy' = (plugged \/ in_busy)
  /\ UNCHANGED <<vars, txVars, rx_running, rx_cb, plugged>>

\* event_wait; the event unsignals itself.
RxWait ==
  /\ ~panic /\ rx = "wait" /\ rx_running
  /\ rx' = "start" /\ rx_running' = FALSE
  /\ UNCHANGED <<vars, txVars, in_busy, rx_cb, plugged>>

\* BUG: the event is signaled before the packet is handed on.
BugRxArrives ==
  /\ ~panic /\ in_busy /\ plugged /\ UsbFree
  /\ in_busy' = FALSE /\ rx_cb' = TRUE /\ rx_running' = TRUE
  /\ UNCHANGED <<vars, txVars, rx, plugged>>

\* rx_cb is called; a packet is handed to the stack.
RxArrives ==
  /\ ~panic /\ in_busy /\ plugged /\ UsbFree
  /\ in_busy' = FALSE /\ rx_cb' = TRUE
  /\ UNCHANGED <<vars, txVars, rx, rx_running, plugged>>

\* event_signal, when the stack has done all it had to.
RxSignal ==
  /\ ~panic /\ rx_cb /\ pc[Usb] = "ready"
  /\ rx_cb' = FALSE /\ rx_running' = TRUE
  /\ UNCHANGED <<vars, txVars, rx, in_busy, plugged>>

\* Transfers that run are not called back any more, others are refused.
Unplug ==
  /\ ~panic /\ plugged
  /\ plugged' = FALSE
  /\ UNCHANGED <<vars, txVars, rxVars>>

NicNext ==
  \/ \E p \in Producer : TxQueue(p)
  \/ TxThread \/ TxComplete
  \/ StartRx \/ StartRxPanics \/ RxWait \/ RxArrives \/ RxSignal
  \/ Unplug

NicSpec == NicInit /\ [][NicNext]_nicVars

\* Threads that can run are scheduled; neither packets nor the ends of transfers
\* need come.
NicFairSpec ==
  /\ NicSpec
  /\ \A p \in Producer : WF_nicVars(PushSignal(p) /\ TxQueue(p))
  /\ WF_nicVars(TxThread) /\ WF_nicVars(StartRx \/ StartRxPanics \/ RxWait) /\ WF_nicVars(RxSignal)

-----------------------------------------------------------------------------
(* Properties *)

\* The bytes that transfer number i, of packet delivered[i], may carry.
MayCarry(i) ==
  {delivered[j] : j \in {i, i + 1} \cap DOMAIN delivered} \cup {g \in {Garbage} : freed_twice}

\* The transfers are those of the packets the stack has queued, in that order and
\* without a gap, although the endpoint refuses while it is busy; and of a
\* buffer that is overwritten while it is sent, the bytes are at worst those of
\* the next packet, as long as no pbuf was freed twice.
SentInOrder ==
  /\ Len(sent) <= Len(delivered) /\ Len(delivered) <= Len(sent) + 1
  /\ \A i \in DOMAIN sent :
       sent[i].packet = delivered[i] /\ sent[i].carries \subseteq MayCarry(i)

\* rx_xfer and its pbuf have one owner: the receive thread about to start a
\* transfer, the transfer, the callback, or the event on its way to the thread;
\* so nothing overwrites it and receiving goes on, until a transfer was refused.
OneReceiver ==
  LET Owners == {o \in {"thread", "transfer", "callback", "event"} :
                   \/ o = "thread"   /\ rx = "start"
                   \/ o = "transfer" /\ in_busy
                   \/ o = "callback" /\ rx_cb
                   \/ o = "event"    /\ rx_running}
  IN IF rx = "refused" THEN Owners = {} /\ ~plugged
                       ELSE \E o \in Owners : Owners = {o}

\* Every packet queued is sent, or something stops them all: an assertion, the
\* adapter pulled, or a transfer that never ends.
AllSent ==
  \A p \in Producer : \A k \in 1 .. MaxPush :
    pushed[p] = k ~> \/ \E i \in DOMAIN sent : sent[i].packet = <<p, k>>
                     \/ panic \/ ~plugged
                     \/ [](out_busy)
=============================================================================
