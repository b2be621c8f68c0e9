------------------------------- MODULE SdHost -------------------------------
(***************************************************************************)
(* platform/bcm28xx/sdhost/sdhost_impl.cpp: reading blocks from an SD card *)
(* word by word through the FIFO of the controller.  A read that met an    *)
(* error is tried again while the controller may still be moving data of   *)
(* the attempt before: STOP is sent, but nobody waits for it there.        *)
(*                                                                         *)
(* A word is known by its block, its place in the block, and whether it    *)
(* came through undamaged.  A wait that gives up is a step that is always  *)
(* possible while the controller has not answered.                         *)
(*                                                                         *)
(* External: the controller and the card.                                  *)
(***************************************************************************)
EXTENDS Integers, Sequences

CONSTANTS
  Blocks,      \* BOUND: the card's blocks
  BlockWords,  \* words in a block, 128
  FifoDepth,   \* words in the FIFO of the controller, 16
  Retries,     \* attempts of sdhost_read_block_wrap, 64
  Junk         \* a word left over from the initialisation

ASSUME SdAssumption ==
  /\ Blocks \in Nat \ {0} /\ BlockWords \in Nat \ {0}
  /\ FifoDepth \in Nat \ {0} /\ Retries \in Nat \ {0}

CardWord == [block : 0 .. Blocks - 1, at : 1 .. BlockWords, good : BOOLEAN]

ASSUME JunkAssumption == Junk \notin CardWord

Request == {r \in [block : 0 .. Blocks - 1, count : 1 .. Blocks] : r.block + r.count <= Blocks}

\* Before the first read.
NoRequest == [block |-> 0, count |-> 0]

\* What the controller executes: a read of a request, STOP, or nothing.
Idle == [op |-> "none"]
Stop == [op |-> "stop"]
ReadCmd(r) == [op |-> "read", block |-> r.block, count |-> r.count]
Command == {Idle, Stop} \cup {ReadCmd(r) : r \in Request}

\* What the card sends: words up to the end of block last, the next one is the
\* one at place at of block; was one damaged so far in this block?
Quiet == [on |-> FALSE]
Transfer == {Quiet} \cup [on : {TRUE}, block : 0 .. Blocks - 1, last : 0 .. Blocks - 1,
                          at : 1 .. BlockWords + 1, damaged : BOOLEAN]

VARIABLES
  cmd,      \* SH_CMD while its NEW flag is set
  card,     \* the transfer
  fifo,     \* SH_DATA
  hsts,     \* is an error bit set in SH_HSTS?
  sd,       \* where the driver is
  req,      \* its arguments: sector and count
  buf,      \* the caller's buffer, filled up to the word the driver is at
  tries,    \* attempts left
  failed,   \* hsts_err of the attempt
  early,    \* history: the attempt ended in a FIFO timeout
  gaveUp    \* history: a wait for the end of a command gave up

hwVars == <<cmd, card, fifo, hsts>>
sdVars == <<sd, req, buf, tries, failed, early, gaveUp>>

SdTypeOK ==
  /\ cmd \in Command /\ card \in Transfer
  /\ fifo \in Seq(CardWord \cup {Junk}) /\ hsts \in BOOLEAN
  /\ sd \in {"idle", "wait", "drain", "command", "answer", "data", "stop"}
  /\ req \in Request \cup {NoRequest}
  /\ buf \in Seq(CardWord \cup {Junk}) /\ Len(buf) <= req.count * BlockWords
  /\ tries \in 0 .. Retries
  /\ failed \in BOOLEAN /\ early \in BOOLEAN /\ gaveUp \in BOOLEAN

SdInit ==
  /\ cmd = Idle /\ card = Quiet /\ fifo = <<>> /\ hsts = FALSE
  /\ sd = "idle" /\ req = NoRequest /\ buf = <<>> /\ tries = 0
  /\ failed = FALSE /\ early = FALSE /\ gaveUp = FALSE

-----------------------------------------------------------------------------
(* The controller and the card *)

HwCommand ==
  /\ cmd # Idle /\ cmd' = Idle
  /\ \/ /\ cmd.op = "read" /\ UNCHANGED hsts
        /\ card' = [on |-> TRUE, block |-> cmd.block, last |-> cmd.block + cmd.count - 1,
                    at |-> 1, damaged |-> FALSE]
     \/ /\ cmd.op = "read" /\ hsts' = TRUE
        /\ UNCHANGED card
     \/ /\ cmd.op = "stop" /\ card' = Quiet
        /\ hsts' \in {hsts, TRUE}
  /\ UNCHANGED fifo

\* A word arrives.
HwWord ==
  /\ card.on /\ card.at <= BlockWords /\ Len(fifo) < FifoDepth
  /\ \E good \in BOOLEAN :
       /\ fifo' = Append(fifo, [block |-> card.block, at |-> card.at, good |-> good])
       /\ card' = [card EXCEPT !.at = @ + 1, !.damaged = @ \/ ~good]
  /\ UNCHANGED <<cmd, hsts>>

\* The checksum of a block is checked behind its last word.
HwBlockEnd ==
  /\ card.on /\ card.at = BlockWords + 1
  /\ hsts' = (hsts \/ card.damaged)
  /\ card' = IF card.block = card.last
               THEN Quiet
               ELSE [card EXCEPT !.block = @ + 1, !.at = 1, !.damaged = FALSE]
  /\ UNCHANGED <<cmd, fifo>>

\* The card stops sending, or the FIFO reports an error.
HwError ==
  /\ card.on /\ ~hsts
  /\ hsts' = TRUE /\ card' \in {card, Quiet}
  /\ UNCHANGED <<cmd, fifo>>

SdHardware == (HwCommand \/ HwWord \/ HwBlockEnd \/ HwError) /\ UNCHANGED sdVars

-----------------------------------------------------------------------------
(* real_read_block *)

\* A call: n attempts.
StartRead(r, n) ==
  /\ sd = "idle" /\ sd' = "wait"
  /\ req' = r /\ tries' = n - 1
  /\ buf' = <<>> /\ failed' = FALSE /\ early' = FALSE
  /\ UNCHANGED <<hwVars, gaveUp>>

\* wait, whose result nobody looks at: the command is done, or it gives up.
Waited == gaveUp' = (gaveUp \/ cmd # Idle)

\* drain_fifo
DrainWait ==
  /\ sd = "wait" /\ Waited
  /\ sd' = "drain"
  /\ UNCHANGED <<hwVars, req, buf, tries, failed, early>>

\* BUG: junk is left in the FIFO.
BugDrainFifo ==
  /\ sd = "drain" /\ sd' = "command"
  /\ UNCHANGED <<hwVars, req, buf, tries, failed, early, gaveUp>>

DrainFifo ==
  /\ sd = "drain"
  /\ IF fifo = <<>> THEN sd' = "command" /\ UNCHANGED fifo
                    ELSE fifo' = Tail(fifo) /\ UNCHANGED sd
  /\ UNCHANGED <<cmd, card, hsts, req, buf, tries, failed, early, gaveUp>>

\* send_raw: the error bits are cleared, the command is written; one that is
\* still executed goes on or is replaced.
SendRaw(c) ==
  /\ Waited
  /\ cmd' \in (IF cmd = Idle THEN {c} ELSE {cmd, c})
  /\ hsts' = FALSE
  /\ UNCHANGED <<card, fifo>>

SendRead ==
  /\ sd = "command" /\ SendRaw(ReadCmd(req))
  /\ sd' = "answer"
  /\ UNCHANGED <<req, buf, tries, failed, early>>

ReadAnswer ==
  /\ sd = "answer" /\ Waited
  /\ sd' = "data"
  /\ UNCHANGED <<hwVars, req, buf, tries, failed, early>>

\* The loop over the words: one more, an error bit, or no word for 100 ms, which
\* ends the loop and is no error.
ReadWord ==
  /\ sd = "data" /\ Len(buf) < req.count * BlockWords
  /\ fifo # <<>> /\ ~hsts
  /\ buf' = Append(buf, Head(fifo)) /\ fifo' = Tail(fifo)
  /\ UNCHANGED <<cmd, card, hsts, sd, req, tries, failed, early, gaveUp>>

\* BUG: the error is not remembered.
BugReadError ==
  /\ sd = "data" /\ Len(buf) < req.count * BlockWords
  /\ fifo # <<>> /\ hsts
  /\ sd' = "stop"
  /\ UNCHANGED <<hwVars, req, buf, tries, failed, early, gaveUp>>

ReadError ==
  /\ sd = "data" /\ Len(buf) < req.count * BlockWords
  /\ fifo # <<>> /\ hsts
  /\ failed' = TRUE /\ sd' = "stop"
  /\ UNCHANGED <<hwVars, req, buf, tries, early, gaveUp>>

ReadTimeout ==
  /\ sd = "data" /\ Len(buf) < req.count * BlockWords
  /\ fifo = <<>>
  /\ early' = TRUE /\ sd' = "stop"
  /\ UNCHANGED <<hwVars, req, buf, tries, failed, gaveUp>>

ReadDone ==
  /\ sd = "data" /\ Len(buf) = req.count * BlockWords
  /\ sd' = "stop"
  /\ UNCHANGED <<hwVars, req, buf, tries, failed, early, gaveUp>>

\* BUG: a failed read is tried again without end.
BugAgainOrReturn ==
  IF failed
    THEN sd' = "wait" /\ buf' = <<>> /\ failed' = FALSE /\ early' = FALSE /\ UNCHANGED tries
    ELSE sd' = "idle" /\ UNCHANGED <<buf, tries, failed, early>>

\* BUG: one attempt too many.
BugTriesLeft ==
  IF failed /\ tries >= 0
    THEN sd' = "wait" /\ tries' = tries - 1 /\ buf' = <<>> /\ failed' = FALSE /\ early' = FALSE
    ELSE sd' = "idle" /\ UNCHANGED <<buf, tries, failed, early>>

\* The loop of sdhost_read_block_wrap.
AgainOrReturn ==
  IF failed /\ tries > 0
    THEN sd' = "wait" /\ tries' = tries - 1 /\ buf' = <<>> /\ failed' = FALSE /\ early' = FALSE
    ELSE sd' = "idle" /\ UNCHANGED <<buf, tries, failed, early>>

\* STOP is sent, whatever happened, and the attempt returns without waiting.
SendStop ==
  /\ sd = "stop" /\ SendRaw(Stop)
  /\ AgainOrReturn
  /\ UNCHANGED req

\* The caller is done with the read.
Forget ==
  /\ req' = NoRequest /\ buf' = <<>> /\ tries' = 0
  /\ failed' = FALSE /\ early' = FALSE
  /\ UNCHANGED <<hwVars, sd, gaveUp>>

SdDriver ==
  \/ DrainWait \/ DrainFifo \/ SendRead \/ ReadAnswer
  \/ ReadWord \/ ReadError \/ ReadTimeout \/ ReadDone \/ SendStop

-----------------------------------------------------------------------------
(* Properties *)

\* The i-th word of a request.
Wanted(r, i) == [block |-> r.block + ((i - 1) \div BlockWords), at |-> 1 + ((i - 1) % BlockWords)]
Place(w) == [block |-> w.block, at |-> w.at]

\* The caller has all words, as they are on the card.
Whole ==
  /\ ~failed /\ Len(buf) = req.count * BlockWords
  /\ \A i \in DOMAIN buf : buf[i] # Junk /\ Place(buf[i]) = Wanted(req, i) /\ buf[i].good

\* As long as no command took longer than the driver waits, a read hands over
\* words of the blocks that were asked for, each at its place, and nothing left
\* over from another read or another attempt.  A read that is not cut short by a
\* FIFO timeout hands over all of them.  They are undamaged but for those of the
\* last block it read, behind which nobody looks at the checksum.
ReadIsExact ==
  sd = "idle" /\ ~failed /\ ~gaveUp =>
    /\ \A i \in DOMAIN buf :
         /\ buf[i] # Junk
         /\ Place(buf[i]) = Wanted(req, i)
         /\ buf[i].good \/ buf[i].block = buf[Len(buf)].block
    /\ early \/ Len(buf) = req.count * BlockWords

\* What is left of a read: attempts, then the stage of the attempt, then what the
\* stage itself waits for, words to drain or words to store.  Due is what the
\* controller can still put into the FIFO.
Commanded == IF cmd.op = "read" THEN cmd.count * BlockWords ELSE 0
Sending   == IF card.on THEN (card.last - card.block) * BlockWords + (BlockWords + 1 - card.at) ELSE 0
Due       == Commanded + Sending

Stages == [wait |-> 6, drain |-> 5, command |-> 4, answer |-> 3, data |-> 2, stop |-> 1, idle |-> 0]

Left ==
  CASE sd = "drain" -> 2 * Due + Len(fifo)
    [] sd = "data"  -> req.count * BlockWords - Len(buf)
    [] OTHER        -> 0

Remaining == <<tries, Stages[sd], Left>>

Below(a, b) ==
  \/ a[1] < b[1]
  \/ a[1] = b[1] /\ a[2] < b[2]
  \/ a[1] = b[1] /\ a[2] = b[2] /\ a[3] < b[3]

\* A read comes to an end, whatever the controller and the card do: each step of the
\* driver lowers what is left, nothing else raises it, and it cannot fall forever.
\* Words of the attempt before, arriving while the FIFO is drained, are the danger.
ReadAdvances ==
  [][sd # "idle" =>
       /\ Remaining \in Nat \X (1 .. 6) \X Nat
       /\ sd' = "idle" \/ Remaining' = Remaining \/ Below(Remaining', Remaining)
       /\ SdDriver => sd' = "idle" \/ Below(Remaining', Remaining)]_<<hwVars, sdVars>>
=============================================================================
