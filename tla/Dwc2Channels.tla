---------------------------- MODULE Dwc2Channels ----------------------------
(***************************************************************************)
(* The host-channel allocator of the DWC2 USB host controller driver,      *)
(* platform/bcm28xx/dwc2/dwc2.c: the list of idle channels, the open       *)
(* endpoint structures with their retry timers, the transfers that threads *)
(* and timer callbacks start on channels, and the channel interrupt that   *)
(* completes, retries or fails them.                                       *)
(*                                                                         *)
(* The hcd_* entry points that take a channel, and the timer callback, run *)
(* under the spinlock channel_setup with interrupts off, and on the        *)
(* single-core VPU build the interrupt handler runs to its end, so each of *)
(* them (the handler: each turn of its channel loop) is one step.  A       *)
(* failed assert() stops the firmware: panic records which one failed, and *)
(* nothing happens after it.                                               *)
(*                                                                         *)
(* External: the USB stack above (src/lib/tinyusb/upstream is a submodule) *)
(* and the controller hardware below.  The stack opens a pipe once per     *)
(* connection, has one transfer outstanding per pipe, and forgets a device *)
(* when it closes it.                                                      *)
(***************************************************************************)
EXTENDS Integers, Sequences

CONSTANTS
  ChannelCount, \* host channels the controller reports in GHWCFG2
  MaxObjects,   \* BOUND: open_endpoint_t objects malloc returns in a behaviour
  Device,       \* device addresses
  Pipe,         \* endpoint descriptors a device has
  Fault,        \* abnormal channel events the devices of an instance produce
  ReuseBusy,    \* may an address be reused while an old transfer to it lives?
  None          \* the null pointer

Faults == {"stall", "xacterr", "frmovrun"}

ASSUME CountAssumption == ChannelCount \in Nat \ {0} /\ MaxObjects \in Nat

ASSUME PipeAssumption ==
  Pipe \subseteq [num  : Nat,
                  type : {"control", "bulk", "interrupt"},
                  dir  : {"both", "in", "out"}]

\* Endpoint 0 is the control endpoint of a device.
ASSUME ControlAssumption ==
  \A p \in Pipe : p.num = 0 => p.type = "control" /\ p.dir = "both"

ASSUME FaultAssumption == Fault \subseteq Faults /\ ReuseBusy \in BOOLEAN

ASSUME NoneAssumption ==
  None \notin Nat /\ None \notin Device /\ None \notin Pipe

Channel  == 0 .. ChannelCount - 1
Endpoint == 1 .. MaxObjects      \* in the order malloc returned them

VARIABLES
  idle,      \* dwc_state.idle_channels, a list used as a queue
  opened,    \* dwc_state.open_endpoints; its order is the order of allocation
  dev,       \* open_endpoint_t.dev_addr
  pipe,      \* open_endpoint_t.ep_addr and ep_type: the descriptor opened
  ic,        \* open_endpoint_t.ic: the idle_channel_t taken last
  armed,     \* the endpoints whose retry timer is set
  owner,     \* dwc_state.channels[c].opep
  hcchar,    \* the enable and disable bits of HCCHARn
  dir,       \* the direction programmed in HCCHARn
  hcint,     \* HCINTn: what the controller reports and is not yet acked
  claimed,   \* the stack's record of the pipes with a transfer outstanding
  inflight,  \* history: endpoints with a transfer not yet reported back
  started,   \* history: how the stack started the transfer of an endpoint in flight
  faulted,   \* history: has a device or the bus produced a fault?
  panic      \* the check that failed, or "none"

endpointVars == <<opened, dev, pipe>>
stackVars    == <<claimed, inflight, started>>
chanVars     == <<owner, hcchar, dir, hcint>>
vars == <<idle, endpointVars, ic, armed, chanVars, stackVars, faulted, panic>>

Flag == {"xfercompl", "chhltd", "nak"} \cup Faults

TypeOK ==
  /\ idle \in Seq(Channel)
  /\ opened \subseteq Endpoint
  /\ dev  \in [Endpoint -> Device \cup {None}]
  /\ pipe \in [Endpoint -> Pipe \cup {None}]
  /\ ic   \in [Endpoint -> Channel \cup {None}]
  /\ armed \subseteq Endpoint
  /\ owner  \in [Channel -> Endpoint \cup {None}]
  /\ hcchar \in [Channel -> {"disabled", "enabled", "halting"}]
  /\ dir    \in [Channel -> {"setup", "in", "out"}]
  /\ hcint  \in [Channel -> SUBSET Flag]
  /\ claimed \subseteq Device \X Pipe
  /\ inflight \subseteq Endpoint
  /\ started \in [Endpoint -> {"setup", "in", "out", None}]
  /\ faulted \in BOOLEAN
  /\ panic \in {"none", "no_idle_channel", "channel_enabled",
                "returned_twice", "timer_armed"}

\* BUG: the channels are numbered from 1.
BugInitFromOne ==
  /\ idle = [i \in 1 .. ChannelCount |-> i]
  /\ opened = {} /\ armed = {} /\ inflight = {} /\ claimed = {}
  /\ dev = [e \in Endpoint |-> None] /\ pipe = dev /\ ic = dev /\ started = dev
  /\ owner  = [c \in Channel |-> None]
  /\ hcchar = [c \in Channel |-> "disabled"]
  /\ dir    = [c \in Channel |-> "out"]
  /\ hcint  = [c \in Channel |-> {}]
  /\ faulted = FALSE /\ panic = "none"

\* dwc2_init_hook and hcd_init: no endpoint is open, every channel is idle.
Init ==
  /\ idle = [i \in 1 .. ChannelCount |-> i - 1]
  /\ opened = {} /\ armed = {} /\ inflight = {} /\ claimed = {}
  /\ dev  = [e \in Endpoint |-> None]
  /\ pipe = [e \in Endpoint |-> None]
  /\ ic   = [e \in Endpoint |-> None]
  /\ started = [e \in Endpoint |-> None]
  /\ owner  = [c \in Channel |-> None]
  /\ hcchar = [c \in Channel |-> "disabled"]
  /\ dir    = [c \in Channel |-> "out"]
  /\ hcint  = [c \in Channel |-> {}]
  /\ faulted = FALSE /\ panic = "none"

-----------------------------------------------------------------------------
(* Helpers *)

\* The channels on the idle list.
IdleChannels == {idle[i] : i \in DOMAIN idle}

\* Directions in which the stack may transfer on pipe p.
Dirs(p) == IF p.dir = "both" THEN {"in", "out"} ELSE {p.dir}

\* get_open_ep: e is the first open endpoint of device d with number n.
\* The lookup ignores the direction bit.
FirstOpen(e, d, n) ==
  LET Match(f) == f \in opened /\ dev[f] = d /\ pipe[f].num = n
  IN  Match(e) /\ \A f \in opened : Match(f) => e <= f

Fail(check) ==
  panic' = check /\ UNCHANGED <<idle, endpointVars, faulted, ic, armed, chanVars, stackVars>>

\* BUG: channels[c].opep is not set when a transfer starts.
BugStartNoOwner(e, how) ==
  LET c == Head(idle)
  IN  /\ idle # <<>>
      /\ how = "in" \/ hcchar[c] = "disabled"
      /\ idle'  = Tail(idle)
      /\ ic'    = [ic EXCEPT ![e] = c]
      /\ armed' = armed \ {e}
      /\ dir'   = [dir EXCEPT ![c] = how]
      /\ hcint' = [hcint EXCEPT ![c] = {}]
      /\ hcchar' = [hcchar EXCEPT ![c] = "enabled"]
      /\ inflight' = inflight \cup {e}
      /\ UNCHANGED <<endpointVars, faulted, owner, panic>>

\* dwc_find_idle_channel, then dwc_send_setup, dwc_host_in or dwc_host_out:
\* a transfer of e starts on the first idle channel.  dwc_host_in is the one
\* that does not assert that the channel is off; started on a channel that is
\* still halting, the new enable may be taken or lost.
StartOK(e, how) ==
  LET c == Head(idle)
  IN  /\ idle # <<>>
      /\ how = "in" \/ hcchar[c] = "disabled"
      /\ idle'  = Tail(idle)
      /\ ic'    = [ic EXCEPT ![e] = c]
      /\ armed' = armed \ {e}
      /\ owner' = [owner EXCEPT ![c] = e]
      /\ dir'   = [dir EXCEPT ![c] = how]
      /\ hcint' = [hcint EXCEPT ![c] = {}]
      /\ \E h \in {"enabled", "halting"} :
           /\ h = "halting" => hcchar[c] = "halting"
           /\ hcchar' = [hcchar EXCEPT ![c] = h]
      /\ inflight' = inflight \cup {e}
      /\ UNCHANGED <<endpointVars, faulted, panic>>

StartFails(how) ==
  \/ idle = <<>> /\ Fail("no_idle_channel")
  \/ /\ idle # <<>> /\ how # "in" /\ hcchar[Head(idle)] # "disabled"
     /\ Fail("channel_enabled")

-----------------------------------------------------------------------------
(* The entry points the stack calls *)

\* hcd_edpt_open of a pipe the stack has not opened on this connection.
\* Unless ReuseBusy, the stack gets an address again only when no transfer
\* to the device that had it is left in the driver.
Open(d, p) ==
  /\ panic = "none"
  /\ \A e \in opened : ~(dev[e] = d /\ pipe[e] = p)
  /\ ReuseBusy \/ \A e \in inflight \ opened : dev[e] # d
  /\ \E e \in Endpoint :
       /\ \A f \in Endpoint : dev[f] = None <=> f >= e  \* malloc's next object
       /\ dev'  = [dev  EXCEPT ![e] = d]
       /\ pipe' = [pipe EXCEPT ![e] = p]
       /\ opened' = opened \cup {e}
  /\ UNCHANGED <<idle, ic, armed, chanVars, stackVars, faulted, panic>>

\* hcd_device_close: the objects leave the list; their timers stay armed and
\* their channels stay busy.
Close(d) ==
  /\ panic = "none"
  /\ \E e \in opened : dev[e] = d
  /\ opened'  = {e \in opened : dev[e] # d}
  /\ claimed' = {q \in claimed : q[1] # d}
  /\ UNCHANGED <<idle, dev, pipe, ic, armed, chanVars, inflight, started, faulted, panic>>

\* hcd_setup_send: the setup stage of a control transfer.
SetupSend(d, p) ==
  /\ panic = "none"
  /\ p.num = 0
  /\ <<d, p>> \notin claimed
  /\ \E e \in opened :
       /\ FirstOpen(e, d, 0)
       /\ \/ /\ StartOK(e, "setup")
             /\ claimed' = claimed \cup {<<d, p>>}
             /\ started' = [started EXCEPT ![e] = "setup"]
          \/ StartFails("setup")

\* hcd_edpt_xfer: a transfer in direction how on pipe p, which the stack has
\* opened; the driver looks the endpoint up by number alone.
EdptXfer(d, p, how) ==
  /\ panic = "none"
  /\ how \in Dirs(p)
  /\ \E e \in opened : dev[e] = d /\ pipe[e] = p
  /\ <<d, p>> \notin claimed
  /\ \E e \in opened :
       /\ FirstOpen(e, d, p.num)
       /\ \/ /\ StartOK(e, how)
             /\ claimed' = claimed \cup {<<d, p>>}
             /\ started' = [started EXCEPT ![e] = how]
          \/ StartFails(how)

\* dwc_in_retry: the one-shot timer of e fires; whatever the transfer was, it
\* is started again as an IN transfer.
RetryFires(e) ==
  /\ panic = "none"
  /\ e \in armed
  /\ \/ StartOK(e, "in") /\ UNCHANGED <<claimed, started>>
     \/ StartFails("in")

-----------------------------------------------------------------------------
(* dwc_check_interrupt, one turn of the channel loop *)

\* HAINT: channel c has an unmasked flag.  IN transfers mask the NAK flag.
Pending(c) == hcint[c] \ (IF dir[c] = "in" THEN {"nak"} ELSE {}) # {}

\* The transfer type in HCCHARn: OUT and SETUP are programmed as control, and
\* so reads a channel whose HCCHARn was overwritten by a halt request.
TypeField(c) == IF dir[c] = "in" THEN pipe[owner[c]].type ELSE "control"

\* BUG: any NAK is taken for the end of a poll.
BugIsAnyNak(c) == "nak" \in hcint[c]

IsNakHalt(c) == hcint[c] = {"nak", "chhltd"} /\ TypeField(c) = "interrupt"

\* BUG: the flags read are not written back.
BugNoAck(c) == hcint' = hcint

Ack(c) == hcint' = [hcint EXCEPT ![c] = {}]

\* list_add_tail(&idle_channels, &opep->ic->node).  Adding a node that is on
\* the list already would corrupt the list, so the model stops there.
Return(e) == ic[e] \notin IdleChannels /\ idle' = Append(idle, ic[e])
ReturnFails(e) == ic[e] \in IdleChannels /\ Fail("returned_twice")

\* timer_set_oneshot, which panics on a timer that is already set (external).
Arm(e) == e \notin armed /\ armed' = armed \cup {e}
ArmFails(e) == e \in armed /\ Fail("timer_armed")

\* BUG: the direction bit of the endpoint address is the wrong way round.
BugReportOtherWay(c) ==
  LET e == owner[c]
      how == IF dir[c] = "in" THEN "out" ELSE "in"
  IN  /\ inflight' = inflight \ {e}
      /\ claimed'  = {q \in claimed : ~(/\ q[1] = dev[e]
                                        /\ q[2].num = pipe[e].num
                                        /\ how \in Dirs(q[2]))}
      /\ started' = [started EXCEPT ![e] = None]

\* hcd_event_xfer_complete(devaddr, epnr | in): the stack ends its transfer on
\* the pipe the channel's HCCHARn names.
Report(c) ==
  LET e == owner[c]
      how == IF dir[c] = "in" THEN "in" ELSE "out"
  IN  /\ inflight' = inflight \ {e}
      /\ claimed'  = {q \in claimed : ~(/\ q[1] = dev[e]
                                        /\ q[2].num = pipe[e].num
                                        /\ how \in Dirs(q[2]))}
      /\ started' = [started EXCEPT ![e] = None]

\* chan->hcchar = BIT(31) | BIT(30): ask for a halt; the other fields read 0.
Halt(c) ==
  /\ hcchar' = [hcchar EXCEPT ![c] = "halting"]
  /\ dir' = [dir EXCEPT ![c] = "out"]

\* No transfer owns the channel: acknowledge and go on.
IrqUnowned(c) ==
  /\ panic = "none" /\ Pending(c) /\ owner[c] = None
  /\ Ack(c)
  /\ UNCHANGED <<idle, endpointVars, faulted, ic, armed, owner, hcchar, dir, stackVars, panic>>

\* BUG: the retry timer is not set.
BugNakHaltNoRetry(c) ==
  /\ panic = "none" /\ Pending(c) /\ owner[c] # None /\ IsNakHalt(c)
  /\ Return(owner[c])
  /\ Ack(c)
  /\ UNCHANGED <<endpointVars, faulted, ic, armed, owner, hcchar, dir, stackVars, panic>>

\* An interrupt endpoint had nothing to say: give the channel back, poll later.
IrqNakHalt(c) ==
  /\ panic = "none" /\ Pending(c) /\ owner[c] # None /\ IsNakHalt(c)
  /\ \/ /\ Arm(owner[c])
        /\ Return(owner[c])
        /\ Ack(c)
        /\ UNCHANGED <<endpointVars, faulted, ic, owner, hcchar, dir, stackVars, panic>>
     \/ ArmFails(owner[c])
     \/ owner[c] \notin armed /\ ReturnFails(owner[c])

\* BUG: the channel is not put back on the idle list.
BugCompleteLeaks(c) ==
  /\ panic = "none" /\ Pending(c) /\ owner[c] # None /\ "xfercompl" \in hcint[c]
  /\ armed' = armed \ {owner[c]}
  /\ owner' = [owner EXCEPT ![c] = None]
  /\ Report(c)
  /\ Ack(c)
  /\ UNCHANGED <<idle, endpointVars, faulted, ic, hcchar, dir, panic>>

\* Transfer completed.
IrqComplete(c) ==
  /\ panic = "none" /\ Pending(c) /\ owner[c] # None /\ "xfercompl" \in hcint[c]
  /\ \/ /\ armed' = armed \ {owner[c]}
        /\ owner' = [owner EXCEPT ![c] = None]
        /\ Return(owner[c])
        /\ Report(c)
        /\ Ack(c)
        /\ UNCHANGED <<endpointVars, faulted, ic, hcchar, dir, panic>>
     \/ ReturnFails(owner[c])

\* A NAK the controller retries by itself, or flags no branch looks at (STALL
\* among them): nothing but the acknowledgement.
IrqIgnored(c) ==
  /\ panic = "none" /\ Pending(c) /\ owner[c] # None
  /\ ~IsNakHalt(c) /\ "xfercompl" \notin hcint[c]
  /\ "nak" \in hcint[c] \/ hcint[c] \cap {"frmovrun", "xacterr"} = {}
  /\ Ack(c)
  /\ UNCHANGED <<idle, endpointVars, faulted, ic, armed, owner, hcchar, dir, stackVars, panic>>

\* Frame overrun: arm the retry, ask for a halt, give the channel back.
IrqOverrun(c) ==
  /\ panic = "none" /\ Pending(c) /\ owner[c] # None
  /\ hcint[c] \cap {"xfercompl", "nak"} = {} /\ "frmovrun" \in hcint[c]
  /\ \/ /\ Arm(owner[c])
        /\ Return(owner[c])
        /\ Halt(c)
        /\ Ack(c)
        /\ UNCHANGED <<endpointVars, faulted, ic, owner, stackVars, panic>>
     \/ ArmFails(owner[c])
     \/ owner[c] \notin armed /\ ReturnFails(owner[c])

\* BUG: the channel is not put back on the idle list.
BugXactErrLeaks(c) ==
  /\ panic = "none" /\ Pending(c) /\ owner[c] # None
  /\ hcint[c] \cap {"xfercompl", "nak", "frmovrun"} = {} /\ "xacterr" \in hcint[c]
  /\ Halt(c) /\ Report(c) /\ Ack(c)
  /\ UNCHANGED <<idle, endpointVars, faulted, ic, armed, owner, panic>>

\* Transaction error: give the channel back, ask for a halt, report a failure.
IrqXactErr(c) ==
  /\ panic = "none" /\ Pending(c) /\ owner[c] # None
  /\ hcint[c] \cap {"xfercompl", "nak", "frmovrun"} = {} /\ "xacterr" \in hcint[c]
  /\ \/ /\ Return(owner[c])
        /\ Halt(c)
        /\ Report(c)
        /\ Ack(c)
        /\ UNCHANGED <<endpointVars, faulted, ic, armed, owner, panic>>
     \/ ReturnFails(owner[c])

Irq(c) ==
  \/ IrqUnowned(c) \/ IrqNakHalt(c) \/ IrqComplete(c)
  \/ IrqIgnored(c) \/ IrqOverrun(c) \/ IrqXactErr(c)

-----------------------------------------------------------------------------
(* The controller (external) *)

\* Channel c reports the flags F and is left in state h.
HwReport(c, F, h) ==
  /\ hcint' = [hcint EXCEPT ![c] = @ \cup F]
  /\ hcchar' = [hcchar EXCEPT ![c] = h]
  /\ faulted' = (faulted \/ F \cap Faults # {})
  /\ UNCHANGED <<idle, endpointVars, ic, armed, owner, dir, stackVars, panic>>

Enabled(c) == panic = "none" /\ hcchar[c] = "enabled"
Periodic(c) == dir[c] = "in" /\ pipe[owner[c]].type = "interrupt"

\* The device answers; the halt may be reported with the completion or later.
HwComplete(c) == Enabled(c) /\ HwReport(c, {"xfercompl"}, "disabled")

\* The device answers NAK: a polled endpoint halts, the others are retried by
\* the controller.
HwNakHalt(c) == Enabled(c) /\ Periodic(c) /\ HwReport(c, {"nak", "chhltd"}, "disabled")
HwNak(c) == Enabled(c) /\ ~Periodic(c) /\ HwReport(c, {"nak"}, "enabled")

HwStall(c) ==
  "stall" \in Fault /\ Enabled(c) /\ HwReport(c, {"stall", "chhltd"}, "disabled")
HwXactErr(c) ==
  "xacterr" \in Fault /\ Enabled(c) /\ HwReport(c, {"xacterr", "chhltd"}, "disabled")
HwOverrun(c) ==
  /\ "frmovrun" \in Fault /\ Enabled(c) /\ Periodic(c)
  /\ HwReport(c, {"frmovrun", "chhltd"}, "disabled")

\* A halt the driver asked for is done.
HwHalted(c) ==
  panic = "none" /\ hcchar[c] = "halting" /\ HwReport(c, {"chhltd"}, "disabled")

\* The halt interrupt "seems to sometimes fire twice".
HwHaltAgain(c) ==
  /\ panic = "none" /\ hcchar[c] = "disabled" /\ "chhltd" \notin hcint[c]
  /\ HwReport(c, {"chhltd"}, "disabled")

Hw(c) ==
  \/ HwComplete(c) \/ HwNakHalt(c) \/ HwNak(c)
  \/ HwStall(c) \/ HwXactErr(c) \/ HwOverrun(c)
  \/ HwHalted(c) \/ HwHaltAgain(c)

-----------------------------------------------------------------------------
Next ==
  \/ \E d \in Device, p \in Pipe :
       \/ Open(d, p)
       \/ SetupSend(d, p)
       \/ \E how \in {"in", "out"} : EdptXfer(d, p, how)
  \/ \E d \in Device : Close(d)
  \/ \E e \in Endpoint : RetryFires(e)
  \/ \E c \in Channel : Irq(c) \/ Hw(c)

Spec == Init /\ [][Next]_vars

\* The interrupt and the timer are served, halts finish, and a pipe of a device
\* that is asked again and again answers in the end.
Answers(d, p) ==
  \E c \in Channel :
    /\ owner[c] # None /\ dev[owner[c]] = d /\ pipe[owner[c]] = p
    /\ HwComplete(c)

Fairness ==
  /\ \A c \in Channel : WF_vars(Irq(c))
  /\ \A e \in Endpoint : WF_vars(RetryFires(e))
  /\ \A d \in Device, p \in Pipe :
       IF p.type = "interrupt" THEN SF_vars(Answers(d, p)) ELSE WF_vars(Answers(d, p))

FairSpec == Spec /\ Fairness

-----------------------------------------------------------------------------
(* Properties *)

\* The transfers that hold a channel; the others in flight wait for a timer.
Running == inflight \ armed

\* A held channel is at work: the controller runs its transfer, or its interrupt
\* is about to end the transfer or to put it on the timer.
AtWork(c) == hcchar[c] = "enabled" \/ "xfercompl" \in hcint[c] \/ IsNakHalt(c)

\* No channel is on the idle list twice, and every channel that is off the
\* list is held by the running transfer whose structure points back at it: the
\* returns scattered over the interrupt branches duplicate none and forget none.
\* Until a fault happens each held channel is also at work, so that it comes
\* back: nothing leaks.  After a fault it may be held for ever by a transfer no
\* branch ends, which is what IdleChannelFound is violated by.
ChannelsAccounted ==
  /\ \A i, j \in DOMAIN idle : idle[i] = idle[j] => i = j
  /\ \A c \in Channel \ IdleChannels :
       /\ owner[c] \in Running /\ ic[owner[c]] = c
       /\ AtWork(c) \/ faulted

\* Every running transfer is the owner of a channel no other start can take,
\* so the interrupt of that channel finds it.
TransferTracked ==
  \A e \in Running :
    /\ ic[e] \in Channel \ IdleChannels
    /\ owner[ic[e]] = e

\* The controller moves no data on a channel that was given back: its DMA
\* would go to a buffer the stack has reused.
IdleIsQuiet == \A c \in IdleChannels : hcchar[c] # "enabled"

\* Driver and stack agree on what is outstanding: exactly the claimed pipes
\* of open devices have a transfer in the driver, so that no completion is
\* lost and none is reported twice.
ClaimBacked ==
  \A d \in Device, p \in Pipe :
    <<d, p>> \in claimed
      <=> \E e \in opened \cap inflight : dev[e] = d /\ pipe[e] = p

\* The retry callback starts whatever it is given as an IN transfer: it is armed
\* only for a transfer that is in flight and that the stack started as an IN, never
\* for a SETUP or an OUT of a control pipe, whose data the device would not get.
RetriedAsIn == \A e \in armed : e \in inflight /\ started[e] = "in"

\* No channel is given back twice and no timer is set twice.
NoDoubleReturn == panic \notin {"returned_twice", "timer_armed"}

\* dwc_find_idle_channel, assert(ic): a start always finds an idle channel.
IdleChannelFound == panic # "no_idle_channel"

\* dwc_send_setup and dwc_host_out, assert((hcchar & ENABLE) == 0): a channel
\* taken from the idle list is off.
StartedOnOff == panic # "channel_enabled"

\* With as many channels as pipes it takes a fault to fail an assertion: neither
\* late halts, nor polls that answer NAK, nor a device that is closed and opened
\* again use up the channels or hand out one that is still on.
NoAssertFails == panic = "none" \/ faulted

\* Every transfer the stack has outstanding on a pipe is reported back to it in
\* the end, a poll that is answered NAK again and again included, unless the
\* device is closed or a fault happened.
TransferEnds ==
  \A d \in Device, p \in Pipe :
    <<d, p>> \in claimed ~> <<d, p>> \notin claimed \/ faulted

Host == INSTANCE AbstractHost WITH outstanding <- claimed

\* Each report of the driver, which names an address, a number and a direction, ends
\* one transfer, of a pipe that has one; no step ends two or begins one by itself.
EndsOneByOne == Host!Spec
=============================================================================
