--------------------------- MODULE PropertyServer ---------------------------
(***************************************************************************)
(* app/mailbox-property-server/server.c over the mailbox FIFO: the ARM     *)
(* hands the address of a message to the VPU, a thread of the server walks *)
(* the tags of the message, writes the answers into it and hands the       *)
(* address back through the mailbox of the other direction.                *)
(*                                                                         *)
(* A message is a buffer in memory that both sides see; it belongs to one  *)
(* of them at a time.  A tag is abstracted to whether the server answers   *)
(* it, and the answer is taken to fit the value buffer of its tag.         *)
(*                                                                         *)
(* External: the ARM, which does not use a message again before its answer *)
(* came, and the hardware FIFO to the ARM, which drops a word when full.   *)
(***************************************************************************)
EXTENDS MailboxFifo

CONSTANTS
  Buffer,      \* the messages
  MessageOf,   \* the message each word is the address of (channel 8), or None:
               \* a word of another channel
  Messages,    \* BOUND: the lists of tags that the ARM asks for
  ReplyDepth   \* words in the hardware FIFO to the ARM

TagKind == {"answered", "refused"}

ASSUME ServerAssumption ==
  /\ None \notin Buffer
  /\ MessageOf \in [Word -> Buffer \cup {None}]
  /\ Messages \subseteq Seq(TagKind)
  /\ ReplyDepth \in Nat \ {0}

VARIABLES
  asked,      \* the messages the ARM waits for
  tags,       \* the tags of each message
  answered,   \* how many of its tags were looked at, message by message
  code,       \* message[1]: request, or one of the two response codes
  stage,      \* where each thread is in property_entry
  msg,        \* its local: the word it popped
  error,      \* its local
  reply,      \* the hardware FIFO to the ARM
  dropped     \* history: messages whose answer met a full FIFO

memory     == <<tags, answered, code>>
threads    == <<stage, msg, error>>
serverVars == <<asked, memory, threads, reply, dropped>>
allVars    == <<vars, serverVars>>

ServerTypeOK ==
  /\ TypeOK
  /\ asked \in SUBSET Buffer
  /\ tags \in [Buffer -> Messages \cup {<<>>}]
  /\ answered \in [Buffer -> Nat]
  /\ code \in [Buffer -> {"request", "success", "error"}]
  /\ stage \in [Popper -> {"pop", "tags", "send"}]
  /\ msg \in [Popper -> Word \cup {None}]
  /\ error \in [Popper -> BOOLEAN]
  /\ reply \in Seq(Word) /\ Len(reply) <= ReplyDepth
  /\ dropped \in SUBSET Buffer

ServerInit ==
  /\ Init
  /\ asked = {}
  /\ tags = [b \in Buffer |-> <<>>]
  /\ answered = [b \in Buffer |-> 0]
  /\ code = [b \in Buffer |-> "request"]
  /\ stage = [t \in Popper |-> "pop"]
  /\ msg = [t \in Popper |-> None]
  /\ error = [t \in Popper |-> FALSE]
  /\ reply = <<>> /\ dropped = {}

-----------------------------------------------------------------------------
(* The ARM *)

\* A word of another channel.
ArmOther ==
  /\ ArmWrite /\ MessageOf[sent + 1] = None
  /\ UNCHANGED serverVars

\* A message is filled in and its address written.
ArmAsk ==
  /\ ArmWrite
  /\ \E b \in Buffer \ asked, m \in Messages :
       /\ MessageOf[sent + 1] = b
       /\ asked' = asked \cup {b}
       /\ tags' = [tags EXCEPT ![b] = m]
  /\ UNCHANGED <<answered, code, threads, reply, dropped>>

\* The answer is taken from the FIFO; the message is the ARM's again, who reads
\* and forgets it.
ArmAnswered ==
  /\ reply # <<>>
  /\ LET b == MessageOf[Head(reply)]
     IN /\ asked' = asked \ {b}
        /\ tags' = [tags EXCEPT ![b] = <<>>]
        /\ answered' = [answered EXCEPT ![b] = 0]
        /\ code' = [code EXCEPT ![b] = "request"]
  /\ reply' = Tail(reply)
  /\ UNCHANGED <<vars, threads, dropped>>

-----------------------------------------------------------------------------
(* property_entry *)

ServerWait(t) ==
  /\ stage[t] = "pop" /\ PopWait(t)
  /\ UNCHANGED serverVars

ServerRetry(t) ==
  /\ stage[t] = "pop" /\ PopRetry(t)
  /\ UNCHANGED serverVars

\* A word of another channel is only printed.
ServerTake(t) ==
  /\ stage[t] = "pop" /\ PopTake(t)
  /\ \/ /\ MessageOf[buf[tail]] = None
        /\ UNCHANGED threads
     \/ /\ MessageOf[buf[tail]] # None
        /\ msg' = [msg EXCEPT ![t] = buf[tail]]
        /\ error' = [error EXCEPT ![t] = FALSE]
        /\ stage' = [stage EXCEPT ![t] = "tags"]
  /\ UNCHANGED <<asked, memory, reply, dropped>>

\* BUG: the last tag decides.
BugHandleTag(t) ==
  LET b == MessageOf[msg[t]]
  IN /\ irq = "off" /\ stage[t] = "tags" /\ answered[b] < Len(tags[b])
     /\ error' = [error EXCEPT ![t] = tags[b][answered[b] + 1] = "refused"]
     /\ answered' = [answered EXCEPT ![b] = @ + 1]
     /\ UNCHANGED <<vars, asked, tags, code, stage, msg, reply, dropped>>

\* One turn of the loop of handle_property_message, with handle_property_tag.
HandleTag(t) ==
  LET b == MessageOf[msg[t]]
  IN /\ irq = "off" /\ stage[t] = "tags" /\ answered[b] < Len(tags[b])
     /\ error' = [error EXCEPT ![t] = @ \/ tags[b][answered[b] + 1] = "refused"]
     /\ answered' = [answered EXCEPT ![b] = @ + 1]
     /\ UNCHANGED <<vars, asked, tags, code, stage, msg, reply, dropped>>

\* The end of the message, or a tag 0: the response code is written.
SetCode(t) ==
  LET b == MessageOf[msg[t]]
  IN /\ irq = "off" /\ stage[t] = "tags" /\ answered[b] >= Len(tags[b])
     /\ code' = [code EXCEPT ![b] = IF error[t] THEN "error" ELSE "success"]
     /\ stage' = [stage EXCEPT ![t] = "send"]
     /\ UNCHANGED <<vars, asked, tags, answered, msg, error, reply, dropped>>

\* BUG: a full mailbox is waited for, without end.
BugMailboxWaits(t) ==
  /\ irq = "off" /\ stage[t] = "send" /\ Len(reply) < ReplyDepth
  /\ reply' = Append(reply, msg[t])
  /\ stage' = [stage EXCEPT ![t] = "pop"]
  /\ msg' = [msg EXCEPT ![t] = None]
  /\ UNCHANGED <<vars, asked, memory, error, dropped>>

\* mailbox_send, which does not look whether there is room.
MailboxSend(t) ==
  /\ irq = "off" /\ stage[t] = "send"
  /\ \/ /\ Len(reply) < ReplyDepth
        /\ reply' = Append(reply, msg[t])
        /\ UNCHANGED dropped
     \/ /\ Len(reply) = ReplyDepth
        /\ dropped' = dropped \cup {MessageOf[msg[t]]}
        /\ UNCHANGED reply
  /\ stage' = [stage EXCEPT ![t] = "pop"]
  /\ msg' = [msg EXCEPT ![t] = None]
  /\ UNCHANGED <<vars, asked, memory, error>>

Server(t) ==
  \/ ServerWait(t) \/ ServerRetry(t) \/ ServerTake(t)
  \/ HandleTag(t) \/ SetCode(t) \/ MailboxSend(t)

Interrupt == Irq /\ UNCHANGED serverVars

ServerNext ==
  \/ ArmOther \/ ArmAsk \/ ArmAnswered
  \/ Interrupt
  \/ \E t \in Popper : Server(t)

ServerSpec == ServerInit /\ [][ServerNext]_allVars

\* The interrupt is served and the threads are scheduled.  The ARM does as it
\* likes: it need not ask, nor take its answers.
FairServerSpec ==
  /\ ServerSpec
  /\ WF_allVars(Interrupt)
  /\ \A t \in Popper : WF_allVars(Server(t))

-----------------------------------------------------------------------------
(* Properties *)

\* Where the address of a message is.
InHw(b)   == {i \in DOMAIN hw : MessageOf[hw[i]] = b}
InRing(b) == {i \in DOMAIN Waiting : MessageOf[Waiting[i]] = b}
Held(b)   == {t \in Popper : msg[t] # None /\ MessageOf[msg[t]] = b}
Sent(b)   == {i \in DOMAIN reply : MessageOf[reply[i]] = b}

Places(b) ==
  {<<"hw", i>> : i \in InHw(b)} \cup {<<"ring", i>> : i \in InRing(b)}
  \cup {<<"thread", t>> : t \in Held(b)} \cup {<<"reply", i>> : i \in Sent(b)}

\* A message the ARM waits for is at one place on its way, and the only messages
\* that get lost are those that meet a full ring or a full reply mailbox; one that
\* the ARM does not wait for is nowhere, so that nobody writes into it.
OneHolder ==
  \A b \in Buffer :
    /\ \A p, q \in Places(b) : p = q
    /\ b \notin asked => Places(b) = {}
    /\ b \in asked => Places(b) # {} \/ b \in dropped \/ lost > 0

\* When the ARM can see an answer, every tag was looked at, and the code says
\* whether one of them was refused.
AnswerIsComplete ==
  \A i \in DOMAIN reply :
    LET b == MessageOf[reply[i]]
    IN /\ answered[b] = Len(tags[b])
       /\ code[b] = IF "refused" \in {tags[b][k] : k \in DOMAIN tags[b]}
                      THEN "error" ELSE "success"

\* What the ARM can see of its messages.
Status ==
  [b \in Buffer |->
     CASE b \notin asked -> "free"
       [] b \in asked /\ Sent(b) # {} -> code[b]
       [] b \in asked /\ Sent(b) = {} /\ Places(b) # {} -> "asked"
       [] b \in asked /\ Places(b) = {} -> "lost"]

Service == INSTANCE AbstractServer WITH status <- Status, request <- tags

\* Through the hardware FIFO, the ring, several threads and the mailbox back, a
\* request is answered once, with the code its tags call for, or it is lost once and
\* for all: no answer comes for a lost one, none twice, none of another message.
AnswersOnce == Service!Spec

\* Every message is answered, unless it was lost on the way.
EveryRequestAnswered ==
  \A b \in Buffer : b \in asked ~> (Sent(b) # {} \/ b \notin asked \/ Places(b) = {})
=============================================================================
