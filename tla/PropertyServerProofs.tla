------------------------ MODULE PropertyServerProofs ------------------------
(***************************************************************************)
(* Proofs about PropertyServer, for any messages, words, threads and       *)
(* sizes: the server, its threads and the ARM use the mailbox as           *)
(* MailboxFifo says, a message has one holder at a time, an answer is      *)
(* complete when the ARM can see it, and none is dropped when the mailbox  *)
(* to the ARM has room for every message.                                  *)
(***************************************************************************)
EXTENDS PropertyServer, MailboxFifoProofs, FiniteSetTheorems

\* Is a word of message b in the sequence s, and is there only one?
In(s, b)   == \E i \in DOMAIN s : MessageOf[s[i]] = b
Once(s, b) == \A i, j \in DOMAIN s : MessageOf[s[i]] = b /\ MessageOf[s[j]] = b => i = j

\* Thread t holds message b.
Holds(t, b) == msg[t] # None /\ MessageOf[msg[t]] = b

Single(b) ==
  /\ Once(hw, b) /\ Once(Waiting, b) /\ Once(reply, b)
  /\ \A t, u \in Popper : Holds(t, b) /\ Holds(u, b) => t = u
  /\ ~(In(hw, b) /\ In(Waiting, b))
  /\ ~(In(hw, b) /\ In(reply, b))
  /\ ~(In(Waiting, b) /\ In(reply, b))
  /\ \A t \in Popper : Holds(t, b) => ~In(hw, b) /\ ~In(Waiting, b) /\ ~In(reply, b)

Nowhere(b) ==
  /\ ~In(hw, b) /\ ~In(Waiting, b) /\ ~In(reply, b)
  /\ \A t \in Popper : ~Holds(t, b)

\* A message the ARM does not wait for is nowhere; one it waits for is lost only
\* in one of two ways; one that the server has not taken has no tag looked at.
Owned(b) ==
  /\ b \notin asked => Nowhere(b)
  /\ b \in asked => ~Nowhere(b) \/ b \in dropped \/ lost > 0
  /\ b \notin asked \/ In(hw, b) \/ In(Waiting, b) => answered[b] = 0

Refused(b, n) == \E k \in 1 .. n : tags[b][k] = "refused"

Complete(b) ==
  /\ answered[b] = Len(tags[b])
  /\ code[b] = IF Refused(b, Len(tags[b])) THEN "error" ELSE "success"

\* What a thread knows of the message it works on.
Working(t) ==
  /\ stage[t] = "pop" <=> msg[t] = None
  /\ msg[t] # None => MessageOf[msg[t]] \in Buffer
  /\ stage[t] = "tags" =>
       LET b == MessageOf[msg[t]]
       IN answered[b] <= Len(tags[b]) /\ (error[t] <=> Refused(b, answered[b]))
  /\ stage[t] = "send" => Complete(MessageOf[msg[t]])

Answers ==
  \A i \in DOMAIN reply : MessageOf[reply[i]] \in Buffer /\ Complete(MessageOf[reply[i]])

Flow == \A b \in Buffer : Single(b) /\ Owned(b)
Work == \A t \in Popper : Working(t)

SInv == IInv /\ ServerTypeOK /\ Flow /\ Work /\ Answers

-----------------------------------------------------------------------------
(* Words in a sequence *)

LEMMA InAppend ==
  ASSUME NEW s \in Seq(Word), NEW w \in Word, NEW b
  PROVE  /\ In(Append(s, w), b) <=> In(s, b) \/ MessageOf[w] = b
         /\ Once(s, b) /\ ~(In(s, b) /\ MessageOf[w] = b) => Once(Append(s, w), b)
<1> DEFINE r == Append(s, w)
<1>1. /\ r \in Seq(Word) /\ DOMAIN s = 1 .. Len(s) /\ DOMAIN r = 1 .. Len(s) + 1
      /\ Len(s) \in Nat /\ \A i \in 1 .. Len(s) : r[i] = s[i]
      /\ r[Len(s) + 1] = w
  OBVIOUS
<1>2. \A i \in DOMAIN r : i \in DOMAIN s \/ i = Len(s) + 1
  BY <1>1
<1>3. DOMAIN s \subseteq DOMAIN r /\ Len(s) + 1 \in DOMAIN r
  BY <1>1
<1> HIDE DEF r
<1>4. In(r, b) <=> In(s, b) \/ MessageOf[w] = b
  BY <1>1, <1>2, <1>3 DEF In
<1>5. Once(s, b) /\ ~(In(s, b) /\ MessageOf[w] = b) => Once(r, b)
  BY <1>1, <1>2, <1>3 DEF In, Once
<1> QED BY <1>4, <1>5 DEF r

LEMMA InTail ==
  ASSUME NEW s \in Seq(Word), s # <<>>, NEW b
  PROVE  /\ In(s, b) <=> In(Tail(s), b) \/ MessageOf[Head(s)] = b
         /\ Once(s, b) => /\ Once(Tail(s), b)
                          /\ ~(In(Tail(s), b) /\ MessageOf[Head(s)] = b)
<1> DEFINE r == Tail(s)
<1>1. /\ r \in Seq(Word) /\ DOMAIN s = 1 .. Len(s) /\ DOMAIN r = 1 .. Len(s) - 1
      /\ Len(s) \in Nat \ {0} /\ \A i \in 1 .. Len(s) - 1 : r[i] = s[i + 1]
      /\ Head(s) = s[1]
  OBVIOUS
<1>2. \A i \in DOMAIN s : i = 1 \/ (i - 1 \in DOMAIN r /\ s[i] = r[i - 1])
  BY <1>1
<1>3. 1 \in DOMAIN s /\ \A i \in DOMAIN r : i + 1 \in DOMAIN s /\ r[i] = s[i + 1] /\ i + 1 # 1
  BY <1>1
<1> HIDE DEF r
<1>4. In(s, b) <=> In(r, b) \/ MessageOf[Head(s)] = b
  BY <1>1, <1>2, <1>3 DEF In
<1>5. ASSUME Once(s, b) PROVE Once(r, b)
  <2> SUFFICES ASSUME NEW i \in DOMAIN r, NEW j \in DOMAIN r,
                      MessageOf[r[i]] = b, MessageOf[r[j]] = b
               PROVE  i = j
    BY DEF Once
  <2>1. i + 1 = j + 1
    BY <1>3, <1>5 DEF Once
  <2> QED BY <1>1, <2>1
<1>6. ASSUME Once(s, b), In(r, b), MessageOf[Head(s)] = b PROVE FALSE
  BY <1>1, <1>3, <1>6 DEF In, Once
<1> QED BY <1>4, <1>5, <1>6 DEF r

LEMMA InNothing == \A b : ~In(<<>>, b) /\ Once(<<>>, b)
BY DEF In, Once

-----------------------------------------------------------------------------
(* The mailbox under the server *)

LEMMA UsesMailbox == ServerNext => [Next]_vars
<1> SUFFICES ASSUME ServerNext PROVE Next \/ UNCHANGED vars
  BY DEF vars
<1> QED BY DEF ServerNext, Next, ArmOther, ArmAsk, ArmAnswered, Interrupt, Server, Pop,
               ServerWait, ServerRetry, ServerTake, HandleTag, SetCode, MailboxSend

\* The server uses the mailbox as MailboxFifo says: what is proved there holds here.
THEOREM ServerUsesMailbox == ServerSpec => Spec
<1>1. ServerInit => Init
  BY DEF ServerInit
<1>2. [ServerNext]_allVars => [Next]_vars
  BY UsesMailbox DEF allVars
<1> QED BY <1>1, <1>2, PTL DEF ServerSpec, Spec

-----------------------------------------------------------------------------
(* The invariant: initial states *)

LEMMA InitSInv == ServerInit => SInv
<1> SUFFICES ASSUME ServerInit PROVE SInv
  OBVIOUS
<1> USE ServerAssumption DEF ServerInit
<1>1. IInv
  BY InitIInv
<1>2. ServerTypeOK
  BY <1>1 DEF ServerTypeOK, IInv
<1>3. hw = <<>> /\ Waiting = <<>>
  BY RefinesInit DEF Init, Fifo!Init
<1>4. \A b \in Buffer : Nowhere(b) /\ Single(b)
  BY <1>3, InNothing DEF Nowhere, Single, Holds
<1>5. Flow
  BY <1>4 DEF Flow, Owned
<1>6. Work /\ Answers
  BY DEF Work, Working, Answers
<1> QED BY <1>1, <1>2, <1>5, <1>6 DEF SInv

-----------------------------------------------------------------------------
(* The invariant: steps *)

\* Steps that move no message and touch no memory.
LEMMA NothingMoves ==
  ASSUME SInv, IInv', UNCHANGED <<hw, buf, head, tail, lost, serverVars>>
  PROVE  SInv'
<1>1. Waiting' = Waiting
  BY WaitingUnchanged
<1>2. ServerTypeOK'
  BY DEF SInv, ServerTypeOK, IInv, serverVars, memory, threads
<1>3. Flow'
  BY <1>1 DEF SInv, Flow, Single, Owned, Nowhere, Holds, In, Once, serverVars, memory, threads
<1>4. Work' /\ Answers'
  BY DEF SInv, Work, Working, Answers, Complete, Refused, serverVars, memory, threads
<1> QED BY <1>2, <1>3, <1>4 DEF SInv

LEMMA ArmOtherStep == ASSUME SInv, IInv', ArmOther PROVE SInv'
<1> USE ServerAssumption
<1>1. /\ Waiting' = Waiting /\ hw' = Append(hw, sent + 1) /\ sent + 1 \in Word
      /\ hw \in Seq(Word) /\ MessageOf[sent + 1] = None /\ lost' = lost
  BY WaitingUnchanged DEF SInv, IInv, TypeOK, ArmOther, ArmWrite, ringVars, Word
<1>2. ASSUME NEW b \in Buffer
      PROVE  (In(hw', b) <=> In(hw, b)) /\ (Once(hw, b) => Once(hw', b))
  BY <1>1, InAppend
<1>3. ServerTypeOK'
  BY DEF SInv, ServerTypeOK, IInv, ArmOther, serverVars, memory, threads
<1>4. Flow'
  BY <1>1, <1>2 DEF SInv, Flow, Single, Owned, Nowhere, Holds, ArmOther, serverVars, memory, threads
<1>5. Work' /\ Answers'
  BY DEF SInv, Work, Working, Answers, Complete, Refused, ArmOther, serverVars, memory, threads
<1> QED BY <1>3, <1>4, <1>5 DEF SInv

\* The ARM waits for the message from now on, and its address is in the hardware FIFO.
LEMMA ArmAskStep == ASSUME SInv, IInv', ArmAsk PROVE SInv'
<1> USE ServerAssumption
<1>1. /\ Waiting' = Waiting /\ hw' = Append(hw, sent + 1) /\ sent + 1 \in Word
      /\ hw \in Seq(Word) /\ lost' = lost
  BY WaitingUnchanged DEF SInv, IInv, TypeOK, ArmAsk, ArmWrite, ringVars, Word
<1>2. PICK a \in Buffer \ asked, m \in Messages :
        /\ MessageOf[sent + 1] = a
        /\ asked' = asked \cup {a}
        /\ tags' = [tags EXCEPT ![a] = m]
  BY DEF ArmAsk
<1>3. UNCHANGED <<answered, code, stage, msg, error, reply, dropped>>
  BY DEF ArmAsk, threads
<1>4. ASSUME NEW b \in Buffer
      PROVE  /\ In(hw', b) <=> In(hw, b) \/ b = a
             /\ Once(hw, b) /\ ~(In(hw, b) /\ b = a) => Once(hw', b)
  BY <1>1, <1>2, InAppend
<1>5. Nowhere(a) /\ answered[a] = 0
  BY <1>2 DEF SInv, Flow, Owned
<1>6. ServerTypeOK'
  BY <1>2, <1>3 DEF SInv, ServerTypeOK, IInv
<1>7. Flow'
  <2> SUFFICES ASSUME NEW b \in Buffer PROVE Single(b)' /\ Owned(b)'
    BY DEF Flow
  <2>1. Single(b) /\ Owned(b)
    BY DEF SInv, Flow
  <2>2. Single(b)'
    BY <1>1, <1>3, <1>4, <1>5, <2>1 DEF Single, Nowhere, Holds
  <2>3. Owned(b)'
    BY <1>1, <1>2, <1>3, <1>4, <1>5, <2>1 DEF Owned, Nowhere, Holds
  <2> QED BY <2>2, <2>3
<1>8. ASSUME NEW b \in Buffer, b # a PROVE tags'[b] = tags[b]
  BY <1>2, <1>8 DEF SInv, ServerTypeOK
<1>9. Work'
  BY <1>3, <1>5, <1>8 DEF SInv, Work, Working, Nowhere, Holds, Complete, Refused
<1>10. Answers'
  BY <1>3, <1>5, <1>8 DEF SInv, Answers, Nowhere, In, Complete, Refused
<1> QED BY <1>6, <1>7, <1>9, <1>10 DEF SInv

\* The message goes back to the ARM: it was the only place.
LEMMA ArmAnsweredStep == ASSUME SInv, IInv', ArmAnswered PROVE SInv'
<1> USE ServerAssumption
<1> DEFINE a == MessageOf[Head(reply)]
<1>1. /\ Waiting' = Waiting /\ hw' = hw /\ lost' = lost
      /\ reply \in Seq(Word) /\ reply # <<>> /\ reply' = Tail(reply)
  BY WaitingUnchanged DEF SInv, ServerTypeOK, ArmAnswered, vars, ringVars, irqVars
<1>2. /\ asked' = asked \ {a}
      /\ tags' = [tags EXCEPT ![a] = <<>>]
      /\ answered' = [answered EXCEPT ![a] = 0]
      /\ code' = [code EXCEPT ![a] = "request"]
      /\ UNCHANGED <<stage, msg, error, dropped>>
  BY DEF ArmAnswered, threads
<1>3. a \in Buffer
  BY <1>1 DEF SInv, Answers
<1> HIDE DEF a
<1>4. ASSUME NEW b \in Buffer
      PROVE  /\ In(reply, b) <=> In(reply', b) \/ b = a
             /\ Once(reply, b) => Once(reply', b) /\ ~(In(reply', b) /\ b = a)
  BY <1>1, InTail DEF a
<1>5. ServerTypeOK'
  <2>1. reply' \in Seq(Word) /\ Len(reply') <= ReplyDepth
    BY <1>1 DEF SInv, ServerTypeOK
  <2> QED BY <1>2, <2>1 DEF SInv, ServerTypeOK, IInv
<1>6. ASSUME NEW b \in Buffer, b # a
      PROVE  tags'[b] = tags[b] /\ answered'[b] = answered[b] /\ code'[b] = code[b]
  BY <1>2, <1>6 DEF SInv, ServerTypeOK
<1>7. answered'[a] = 0
  BY <1>2, <1>3 DEF SInv, ServerTypeOK
<1>8. /\ Single(a) /\ In(reply, a)
      /\ \A t \in Popper : ~Holds(t, a)
  BY <1>3, <1>4 DEF SInv, Flow, Single
<1>9. Flow'
  <2> SUFFICES ASSUME NEW b \in Buffer PROVE Single(b)' /\ Owned(b)'
    BY DEF Flow
  <2>1. Single(b) /\ Owned(b)
    BY DEF SInv, Flow
  <2>2. Single(b)'
    BY <1>1, <1>2, <1>4, <2>1 DEF Single, Holds
  <2>3. Owned(b)'
    BY <1>1, <1>2, <1>4, <1>6, <1>7, <2>1 DEF Owned, Single, Nowhere, Holds
  <2> QED BY <2>2, <2>3
<1>10. Work'
  BY <1>2, <1>6, <1>8 DEF SInv, Work, Working, Holds, Complete, Refused
<1>11. Answers'
  <2> SUFFICES ASSUME NEW i \in DOMAIN reply'
               PROVE  /\ MessageOf[reply'[i]] \in Buffer
                      /\ Complete(MessageOf[reply[i]])'
    BY DEF Answers
  <2>1. i + 1 \in DOMAIN reply /\ reply'[i] = reply[i + 1]
    BY <1>1
  <2>2. MessageOf[reply[i + 1]] \in Buffer /\ Complete(MessageOf[reply[i + 1]])
    BY <2>1 DEF SInv, Answers
  <2>3. MessageOf[reply'[i]] # a
    BY <1>3, <1>4, <1>8 DEF Single, In
  <2> QED BY <2>1, <2>2, <2>3, <1>6 DEF Complete, Refused
<1> QED BY <1>5, <1>9, <1>10, <1>11 DEF SInv

\* A word goes from the FIFO to the ring, or is lost to a full ring.
LEMMA DrainStep == ASSUME SInv, IInv', IrqDrain, UNCHANGED serverVars PROVE SInv'
<1> USE ServerAssumption
<1>1. /\ hw \in Seq(Word) /\ hw # <<>> /\ hw' = Tail(hw) /\ Head(hw) \in Word
      /\ Waiting \in Seq(Word) /\ lost \in Nat
  BY WaitingIsSeq DEF SInv, IInv, TypeOK, IrqDrain
<1>2. \/ lost' = lost + 1 /\ Waiting' = Waiting
      \/ lost' = lost /\ Waiting' = Append(Waiting, Head(hw))
  BY <1>1, WaitingUnchanged, PushAppends DEF IrqDrain, Push, SInv
<1>3. UNCHANGED <<asked, tags, answered, code, stage, msg, error, reply, dropped>>
  BY DEF serverVars, memory, threads
<1>4. ServerTypeOK'
  BY <1>3 DEF SInv, ServerTypeOK, IInv
<1>5. ASSUME NEW b \in Buffer
      PROVE  /\ In(hw, b) <=> In(hw', b) \/ MessageOf[Head(hw)] = b
             /\ Once(hw, b) => /\ Once(hw', b)
                               /\ ~(In(hw', b) /\ MessageOf[Head(hw)] = b)
  BY <1>1, InTail
<1>6. ASSUME NEW b \in Buffer, Waiting' = Append(Waiting, Head(hw))
      PROVE  /\ In(Waiting', b) <=> In(Waiting, b) \/ MessageOf[Head(hw)] = b
             /\ Once(Waiting, b) /\ ~(In(Waiting, b) /\ MessageOf[Head(hw)] = b)
                => Once(Waiting', b)
  BY <1>1, <1>6, InAppend
<1>7. Flow'
  <2> SUFFICES ASSUME NEW b \in Buffer PROVE Single(b)' /\ Owned(b)'
    BY DEF Flow
  <2>1. Single(b) /\ Owned(b)
    BY DEF SInv, Flow
  <2>2. Single(b)'
    BY <1>2, <1>3, <1>5, <1>6, <2>1 DEF Single, Holds
  <2>3. Owned(b)'
    <3>1. CASE lost' = lost + 1 /\ Waiting' = Waiting
      BY <1>1, <1>3, <1>5, <2>1, <3>1 DEF Owned, Nowhere, Holds
    <3>2. CASE lost' = lost /\ Waiting' = Append(Waiting, Head(hw))
      BY <1>3, <1>5, <1>6, <2>1, <3>2 DEF Owned, Nowhere, Holds
    <3> QED BY <1>2, <3>1, <3>2
  <2> QED BY <2>2, <2>3
<1>8. Work' /\ Answers'
  BY <1>3 DEF SInv, Work, Working, Answers, Complete, Refused
<1> QED BY <1>4, <1>7, <1>8 DEF SInv

\* The thread holds the message it popped, no tag of which was looked at.
LEMMA TakeStep ==
  ASSUME SInv, IInv', NEW t \in Popper, ServerTake(t) PROVE SInv'
<1> USE ServerAssumption, MailboxAssumption
<1> DEFINE w == buf[tail]
<1>1. /\ Waiting \in Seq(Word) /\ Waiting # <<>> /\ w = Head(Waiting) /\ w \in Word
      /\ Waiting' = Tail(Waiting)
  <2>1. PopTake(t)
    BY DEF ServerTake
  <2>2. Waiting # <<>> /\ w = Head(Waiting) /\ Waiting' = Tail(Waiting)
    BY <2>1, TakeRemoves DEF SInv
  <2>3. Waiting \in Seq(Word)
    BY WaitingIsSeq DEF SInv
  <2> QED BY <2>2, <2>3
<1>2. /\ UNCHANGED <<hw, lost, asked, tags, answered, code, reply, dropped>>
      /\ stage[t] = "pop" /\ msg[t] = None
  BY DEF ServerTake, PopTake, irqVars, memory, SInv, Work, Working
<1>3. ASSUME NEW b \in Buffer
      PROVE  /\ In(Waiting, b) <=> In(Waiting', b) \/ MessageOf[w] = b
             /\ Once(Waiting, b) => /\ Once(Waiting', b)
                                    /\ ~(In(Waiting', b) /\ MessageOf[w] = b)
  BY <1>1, InTail
<1>4. CASE MessageOf[w] = None
  <2>1. UNCHANGED <<stage, msg, error>>
    BY <1>4 DEF ServerTake, threads
  <2>2. ServerTypeOK'
    BY <1>2, <2>1 DEF SInv, ServerTypeOK, IInv
  <2>3. Flow'
    BY <1>2, <1>3, <1>4, <2>1 DEF SInv, Flow, Single, Owned, Nowhere, Holds
  <2>4. Work' /\ Answers'
    BY <1>2, <2>1 DEF SInv, Work, Working, Answers, Complete, Refused
  <2> QED BY <2>2, <2>3, <2>4 DEF SInv
<1>5. CASE MessageOf[w] # None
  <2> DEFINE a == MessageOf[w]
  <2>1. a \in Buffer
    BY <1>1, <1>5
  <2>2. /\ msg' = [msg EXCEPT ![t] = w]
        /\ error' = [error EXCEPT ![t] = FALSE]
        /\ stage' = [stage EXCEPT ![t] = "tags"]
    BY <1>5 DEF ServerTake
  <2>3. /\ msg'[t] = w /\ error'[t] = FALSE /\ stage'[t] = "tags"
        /\ \A u \in Popper : u # t =>
             msg'[u] = msg[u] /\ error'[u] = error[u] /\ stage'[u] = stage[u]
    BY <2>2 DEF SInv, ServerTypeOK
  <2>4. ServerTypeOK'
    BY <1>1, <1>2, <2>2 DEF SInv, ServerTypeOK, IInv
  <2>5. w # None
    BY <1>1 DEF Word
  <2> HIDE DEF w
  <2>6. answered[a] = 0
    BY <1>3, <2>1 DEF SInv, Flow, Owned
  <2>7. ASSUME NEW b \in Buffer
        PROVE  /\ Holds(t, b)' <=> a = b
               /\ ~Holds(t, b)
               /\ \A u \in Popper : u # t => (Holds(u, b)' <=> Holds(u, b))
    BY <1>2, <2>3, <2>5 DEF Holds
  <2> HIDE DEF a
  <2>8. ASSUME NEW b \in Buffer
        PROVE  /\ In(Waiting, b) <=> In(Waiting', b) \/ a = b
               /\ Once(Waiting, b) => Once(Waiting', b) /\ ~(In(Waiting', b) /\ a = b)
    BY <1>3 DEF a
  <2>9. Flow'
    <3> SUFFICES ASSUME NEW b \in Buffer PROVE Single(b)' /\ Owned(b)'
      BY DEF Flow
    <3>1. Single(b) /\ Owned(b)
      BY DEF SInv, Flow
    <3>2. Single(b)'
      BY <1>2, <2>7, <2>8, <3>1 DEF Single
    <3>3. Nowhere(b)' <=> Nowhere(b)
      BY <1>2, <2>7, <2>8 DEF Nowhere
    <3>4. Owned(b)'
      BY <1>2, <2>8, <3>1, <3>3 DEF Owned
    <3> QED BY <3>2, <3>4
  <2>10. Work'
    <3> SUFFICES ASSUME NEW u \in Popper PROVE Working(u)'
      BY DEF Work
    <3>1. CASE u = t
      <4>1. answered[a] <= Len(tags[a]) /\ ~Refused(a, answered[a])
        BY <2>1, <2>6 DEF SInv, ServerTypeOK, Refused
      <4> QED BY <1>2, <2>1, <2>3, <2>5, <3>1, <4>1 DEF Working, Refused, a
    <3>2. CASE u # t
      BY <1>2, <2>3, <3>2 DEF SInv, Work, Working, Complete, Refused
    <3> QED BY <3>1, <3>2
  <2>11. Answers'
    BY <1>2 DEF SInv, Answers, Complete, Refused
  <2> QED BY <2>4, <2>9, <2>10, <2>11 DEF SInv
<1> QED BY <1>4, <1>5

\* A step of the thread that holds a message, which changes no other message.
LEMMA HolderOnly ==
  ASSUME SInv, NEW t \in Popper, msg[t] # None
  PROVE  LET a == MessageOf[msg[t]]
         IN /\ a \in Buffer /\ a \in asked
            /\ ~In(hw, a) /\ ~In(Waiting, a) /\ ~In(reply, a)
            /\ \A u \in Popper : Holds(u, a) => u = t
<1> DEFINE a == MessageOf[msg[t]]
<1>1. a \in Buffer
  BY DEF SInv, Work, Working
<1>2. Holds(t, a)
  BY DEF Holds
<1> HIDE DEF a
<1>3. Single(a) /\ Owned(a)
  BY <1>1 DEF SInv, Flow
<1>4. a \in asked
  BY <1>2, <1>3 DEF Owned, Nowhere
<1> QED BY <1>1, <1>2, <1>3, <1>4 DEF Single, a

LEMMA HandleTagStep ==
  ASSUME SInv, IInv', NEW t \in Popper, HandleTag(t) PROVE SInv'
<1> USE ServerAssumption
<1> DEFINE a == MessageOf[msg[t]]
<1>1. /\ stage[t] = "tags" /\ answered[a] < Len(tags[a])
      /\ error' = [error EXCEPT ![t] = @ \/ tags[a][answered[a] + 1] = "refused"]
      /\ answered' = [answered EXCEPT ![a] = @ + 1]
      /\ UNCHANGED <<vars, asked, tags, code, stage, msg, reply, dropped>>
  BY DEF HandleTag
<1>2. msg[t] # None
  BY <1>1 DEF SInv, Work, Working
<1>3. /\ a \in Buffer /\ a \in asked
      /\ ~In(hw, a) /\ ~In(Waiting, a) /\ ~In(reply, a)
      /\ \A u \in Popper : Holds(u, a) => u = t
  BY <1>2, HolderOnly
<1>4. /\ answered[a] <= Len(tags[a]) /\ (error[t] <=> Refused(a, answered[a]))
  BY <1>1 DEF SInv, Work, Working
<1> HIDE DEF a
<1>5. answered \in [Buffer -> Nat] /\ error \in [Popper -> BOOLEAN]
  BY DEF SInv, ServerTypeOK
<1>6. /\ answered'[a] = answered[a] + 1
      /\ \A b \in Buffer : b # a => answered'[b] = answered[b]
  BY <1>1, <1>3, <1>5
<1>7. /\ error'[t] <=> (error[t] \/ tags[a][answered[a] + 1] = "refused")
      /\ \A u \in Popper : u # t => error'[u] = error[u]
  BY <1>1, <1>5
<1>8. Waiting' = Waiting /\ hw' = hw /\ lost' = lost
  BY <1>1, WaitingUnchanged DEF vars, ringVars, irqVars
<1>9. ServerTypeOK'
  BY <1>1, <1>3, <1>5 DEF SInv, ServerTypeOK, IInv
<1>10. Flow'
  BY <1>1, <1>3, <1>6, <1>8 DEF SInv, Flow, Single, Owned, Nowhere, Holds
<1>11. Refused(a, answered[a] + 1)
         <=> (Refused(a, answered[a]) \/ tags[a][answered[a] + 1] = "refused")
  <2>1. answered[a] \in Nat
    BY <1>3, <1>5
  <2>2. \A k : k \in 1 .. answered[a] + 1 <=> (k \in 1 .. answered[a] \/ k = answered[a] + 1)
    BY <2>1
  <2> QED BY <2>2 DEF Refused
<1>12. Work'
  <2> SUFFICES ASSUME NEW u \in Popper PROVE Working(u)'
    BY DEF Work
  <2>1. CASE u = t
    <3>1. answered[a] + 1 <= Len(tags[a])
      BY <1>1, <1>3, <1>5 DEF SInv, ServerTypeOK
    <3> QED BY <1>1, <1>2, <1>3, <1>4, <1>6, <1>7, <1>11, <2>1, <3>1 DEF Working, Refused, a
  <2>2. CASE u # t
    <3>1. msg[u] # None => MessageOf[msg[u]] # a
      BY <1>3, <2>2 DEF Holds
    <3> QED BY <1>1, <1>6, <1>7, <2>2, <3>1 DEF SInv, Work, Working, Complete, Refused
  <2> QED BY <2>1, <2>2
<1>13. Answers'
  BY <1>1, <1>3, <1>6 DEF SInv, Answers, In, Complete, Refused
<1> QED BY <1>9, <1>10, <1>12, <1>13 DEF SInv

\* All tags were looked at: the code says what they were.
LEMMA SetCodeStep ==
  ASSUME SInv, IInv', NEW t \in Popper, SetCode(t) PROVE SInv'
<1> USE ServerAssumption
<1> DEFINE a == MessageOf[msg[t]]
<1>1. /\ stage[t] = "tags" /\ answered[a] >= Len(tags[a])
      /\ code' = [code EXCEPT ![a] = IF error[t] THEN "error" ELSE "success"]
      /\ stage' = [stage EXCEPT ![t] = "send"]
      /\ UNCHANGED <<vars, asked, tags, answered, msg, error, reply, dropped>>
  BY DEF SetCode
<1>2. msg[t] # None
  BY <1>1 DEF SInv, Work, Working
<1>3. /\ a \in Buffer /\ a \in asked
      /\ ~In(hw, a) /\ ~In(Waiting, a) /\ ~In(reply, a)
      /\ \A u \in Popper : Holds(u, a) => u = t
  BY <1>2, HolderOnly
<1>4. /\ answered[a] <= Len(tags[a]) /\ (error[t] <=> Refused(a, answered[a]))
  BY <1>1 DEF SInv, Work, Working
<1> HIDE DEF a
<1>5. /\ code'[a] = (IF error[t] THEN "error" ELSE "success")
      /\ \A b \in Buffer : b # a => code'[b] = code[b]
      /\ stage'[t] = "send" /\ \A u \in Popper : u # t => stage'[u] = stage[u]
  BY <1>1, <1>3 DEF SInv, ServerTypeOK
<1>6. Waiting' = Waiting /\ hw' = hw /\ lost' = lost
  BY <1>1, WaitingUnchanged DEF vars, ringVars, irqVars
<1>7. ServerTypeOK'
  BY <1>1, <1>3 DEF SInv, ServerTypeOK, IInv
<1>8. Flow'
  BY <1>1, <1>6 DEF SInv, Flow, Single, Owned, Nowhere, Holds
<1>9. answered[a] = Len(tags[a])
  BY <1>1, <1>3, <1>4 DEF SInv, ServerTypeOK
<1>10. Work'
  <2> SUFFICES ASSUME NEW u \in Popper PROVE Working(u)'
    BY DEF Work
  <2>1. CASE u = t
    BY <1>1, <1>2, <1>3, <1>4, <1>5, <1>9, <2>1 DEF Working, Complete, Refused, a
  <2>2. CASE u # t
    <3>1. msg[u] # None => MessageOf[msg[u]] # a
      BY <1>3, <2>2 DEF Holds
    <3> QED BY <1>1, <1>5, <2>2, <3>1 DEF SInv, Work, Working, Complete, Refused
  <2> QED BY <2>1, <2>2
<1>11. Answers'
  BY <1>1, <1>3, <1>5 DEF SInv, Answers, In, Complete, Refused
<1> QED BY <1>7, <1>8, <1>10, <1>11 DEF SInv

\* The complete message goes to the mailbox of the ARM, or is dropped.
LEMMA MailboxSendStep ==
  ASSUME SInv, IInv', NEW t \in Popper, MailboxSend(t) PROVE SInv'
<1> USE ServerAssumption
<1> DEFINE a == MessageOf[msg[t]]
<1>1. /\ stage[t] = "send"
      /\ stage' = [stage EXCEPT ![t] = "pop"]
      /\ msg' = [msg EXCEPT ![t] = None]
      /\ UNCHANGED <<vars, asked, tags, answered, code, error>>
  BY DEF MailboxSend, memory
<1>2. \/ Len(reply) < ReplyDepth /\ reply' = Append(reply, msg[t]) /\ dropped' = dropped
      \/ reply' = reply /\ dropped' = dropped \cup {a}
  BY DEF MailboxSend
<1>3. msg[t] # None /\ Complete(a)
  BY <1>1 DEF SInv, Work, Working
<1>4. /\ a \in Buffer /\ a \in asked
      /\ ~In(hw, a) /\ ~In(Waiting, a) /\ ~In(reply, a)
      /\ \A u \in Popper : Holds(u, a) => u = t
  BY <1>3, HolderOnly
<1>5. msg[t] \in Word /\ reply \in Seq(Word)
  BY <1>3 DEF SInv, ServerTypeOK
<1>6. \A b : Holds(t, b) <=> b = a
  BY <1>3 DEF Holds
<1> HIDE DEF a
<1>7. /\ msg'[t] = None /\ \A u \in Popper : u # t => msg'[u] = msg[u]
      /\ stage'[t] = "pop" /\ \A u \in Popper : u # t => stage'[u] = stage[u]
  BY <1>1 DEF SInv, ServerTypeOK
<1>8. ASSUME NEW b
      PROVE  ~Holds(t, b)' /\ \A u \in Popper : u # t => (Holds(u, b)' <=> Holds(u, b))
  BY <1>7 DEF Holds
<1>9. ASSUME NEW b, reply' = Append(reply, msg[t])
      PROVE  /\ In(reply', b) <=> In(reply, b) \/ b = a
             /\ Once(reply, b) /\ ~(In(reply, b) /\ b = a) => Once(reply', b)
  BY <1>5, <1>9, InAppend DEF a
<1>10. Waiting' = Waiting /\ hw' = hw /\ lost' = lost
  BY <1>1, WaitingUnchanged DEF vars, ringVars, irqVars
<1>11. ServerTypeOK'
  <2>1. Len(reply) <= ReplyDepth
    BY DEF SInv, ServerTypeOK
  <2>2. ASSUME Len(reply) < ReplyDepth, reply' = Append(reply, msg[t])
        PROVE  reply' \in Seq(Word) /\ Len(reply') <= ReplyDepth
    <3>1. reply' \in Seq(Word) /\ Len(reply') = Len(reply) + 1 /\ Len(reply) \in Nat
      BY <1>5, <2>2
    <3> QED BY <2>2, <3>1
  <2>3. reply' \in Seq(Word) /\ Len(reply') <= ReplyDepth
    BY <1>2, <1>5, <2>1, <2>2
  <2> QED BY <1>1, <1>2, <1>4, <2>3 DEF SInv, ServerTypeOK, IInv
<1>12. Flow'
  <2> SUFFICES ASSUME NEW b \in Buffer PROVE Single(b)' /\ Owned(b)'
    BY DEF Flow
  <2>1. Single(b) /\ Owned(b)
    BY DEF SInv, Flow
  <2>2. Single(b)'
    BY <1>2, <1>4, <1>6, <1>8, <1>9, <1>10, <2>1 DEF Single
  <2>3. Owned(b)'
    BY <1>1, <1>2, <1>4, <1>6, <1>8, <1>9, <1>10, <2>1 DEF Owned, Nowhere
  <2> QED BY <2>2, <2>3
<1>13. Work'
  BY <1>1, <1>7 DEF SInv, Work, Working, Complete, Refused
<1>14. Answers'
  <2>1. CASE reply' = reply
    BY <1>1, <2>1 DEF SInv, Answers, Complete, Refused
  <2>2. CASE reply' = Append(reply, msg[t])
    <3> SUFFICES ASSUME NEW i \in DOMAIN reply'
                 PROVE  /\ MessageOf[reply'[i]] \in Buffer
                        /\ Complete(MessageOf[reply[i]])'
      BY DEF Answers
    <3>1. (i \in DOMAIN reply /\ reply'[i] = reply[i]) \/ reply'[i] = msg[t]
      BY <1>5, <2>2
    <3> QED BY <1>1, <1>3, <1>4, <3>1 DEF SInv, Answers, Complete, Refused, a
  <2> QED BY <1>2, <2>1, <2>2
<1> QED BY <1>11, <1>12, <1>13, <1>14 DEF SInv

LEMMA ServerInductive == SInv /\ [ServerNext]_allVars => SInv'
<1> SUFFICES ASSUME SInv, [ServerNext]_allVars PROVE SInv'
  OBVIOUS
<1>1. IInv'
  BY UsesMailbox, Inductive DEF SInv, allVars
<1>2. CASE UNCHANGED allVars
  BY <1>1, <1>2, NothingMoves DEF allVars, vars, ringVars, irqVars
<1>3. CASE Interrupt
  <2>1. CASE IrqEnter \/ IrqStatus
    BY <1>1, <1>3, <2>1, NothingMoves DEF Interrupt, IrqEnter, IrqStatus, ringVars
  <2> QED BY <1>1, <1>3, <2>1, DrainStep DEF Interrupt, Irq
<1>4. ASSUME NEW t \in Popper, Server(t) PROVE SInv'
  <2>1. CASE ServerWait(t) \/ ServerRetry(t)
    BY <1>1, <2>1, NothingMoves
       DEF ServerWait, ServerRetry, PopWait, PopRetry, ringVars, irqVars
  <2> QED BY <1>1, <1>4, <2>1, TakeStep, HandleTagStep, SetCodeStep, MailboxSendStep DEF Server
<1> QED BY <1>1, <1>2, <1>3, <1>4, ArmOtherStep, ArmAskStep, ArmAnsweredStep DEF ServerNext

LEMMA ServerInvariance == ServerSpec => []SInv
BY InitSInv, ServerInductive, PTL DEF ServerSpec

-----------------------------------------------------------------------------
(* Theorems *)

\* ServerTypeOK: messages, threads and mailboxes keep their types.
THEOREM ServerTyping == ServerSpec => []ServerTypeOK
<1>1. SInv => ServerTypeOK
  BY DEF SInv
<1> QED BY <1>1, ServerInvariance, PTL

\* A message is at one place at a time, at none while it is the ARM's, and lost
\* only to a full ring or a full mailbox.
THEOREM OneHolderAtATime == ServerSpec => []OneHolder
<1>1. SInv => OneHolder
  <2> SUFFICES ASSUME SInv, NEW b \in Buffer
               PROVE  /\ \A p, q \in Places(b) : p = q
                      /\ b \notin asked => Places(b) = {}
                      /\ b \in asked => Places(b) # {} \/ b \in dropped \/ lost > 0
    BY DEF OneHolder
  <2>1. Single(b) /\ Owned(b)
    BY DEF SInv, Flow
  <2>2. /\ InHw(b) # {} <=> In(hw, b)
        /\ InRing(b) # {} <=> In(Waiting, b)
        /\ Sent(b) # {} <=> In(reply, b)
        /\ \A t : t \in Held(b) <=> t \in Popper /\ Holds(t, b)
    BY DEF InHw, InRing, Sent, Held, In, Holds
  <2>3. /\ \A i, j \in InHw(b) : i = j
        /\ \A i, j \in InRing(b) : i = j
        /\ \A i, j \in Sent(b) : i = j
        /\ \A t, u \in Held(b) : t = u
    BY <2>1, <2>2 DEF Single, Once, InHw, InRing, Sent
  <2>4. Places(b) = {} <=> Nowhere(b)
    BY <2>2 DEF Places, Nowhere
  <2>5. \A p, q \in Places(b) : p = q
    BY <2>1, <2>2, <2>3 DEF Places, Single
  <2> QED BY <2>1, <2>4, <2>5 DEF Owned
<1> QED BY <1>1, ServerInvariance, PTL

\* An answer the ARM can see was finished before.
THEOREM AnswersAreComplete == ServerSpec => []AnswerIsComplete
<1>1. SInv => AnswerIsComplete
  BY DEF SInv, Answers, AnswerIsComplete, Complete, Refused
<1> QED BY <1>1, ServerInvariance, PTL

RoomForAll == IsFiniteSet(Buffer) /\ Cardinality(Buffer) <= ReplyDepth
NoneDropped == RoomForAll => dropped = {}

\* With room for every message in the mailbox to the ARM no answer is dropped,
\* although mailbox_send does not look.
THEOREM NoAnswerDropped == ServerSpec => []NoneDropped
<1>1. ServerInit => NoneDropped
  BY DEF ServerInit, NoneDropped
<1>2. SInv /\ NoneDropped /\ [ServerNext]_allVars => NoneDropped'
  <2> SUFFICES ASSUME SInv, RoomForAll, dropped = {}, [ServerNext]_allVars
               PROVE  dropped' = {}
    BY DEF NoneDropped
  <2> USE DEF RoomForAll
  <2>1. ASSUME NEW t \in Popper, MailboxSend(t), Len(reply) = ReplyDepth PROVE FALSE
    <3> DEFINE a == MessageOf[msg[t]]
    <3> DEFINE f == [i \in 1 .. Len(reply) |-> MessageOf[reply[i]]]
    <3>1. msg[t] # None
      BY <2>1 DEF MailboxSend, SInv, Work, Working
    <3>2. a \in Buffer /\ ~In(reply, a)
      BY <3>1, HolderOnly
    <3>3. reply \in Seq(Word) /\ DOMAIN reply = 1 .. Len(reply) /\ Len(reply) \in Nat
      BY DEF SInv, ServerTypeOK
    <3> HIDE DEF a
    <3>4. f \in [1 .. Len(reply) -> Buffer \ {a}]
      BY <3>2, <3>3 DEF SInv, Answers, In
    <3>5. /\ IsFiniteSet(Buffer \ {a}) /\ Cardinality(Buffer) \in Nat
          /\ Cardinality(Buffer \ {a}) = Cardinality(Buffer) - 1
      BY <3>2, FS_RemoveElement, FS_CardinalityType
    <3>6. IsFiniteSet(1 .. Len(reply)) /\ Cardinality(1 .. Len(reply)) = Len(reply)
      BY <3>3, FS_Interval
    <3>7. Cardinality(Buffer \ {a}) < Cardinality(1 .. Len(reply))
      BY <2>1, <3>3, <3>5, <3>6, ServerAssumption
    <3> HIDE DEF f
    <3>8. \E i, j \in 1 .. Len(reply) : i # j /\ f[i] = f[j]
      BY <3>4, <3>5, <3>6, <3>7, FS_PigeonHole
    <3>9. PICK i, j \in 1 .. Len(reply) : i # j /\ MessageOf[reply[i]] = MessageOf[reply[j]]
      BY <3>8 DEF f
    <3>10. Once(reply, MessageOf[reply[i]])
      BY <3>3 DEF SInv, Flow, Single, Answers
    <3> QED BY <3>3, <3>9, <3>10 DEF Once
  <2>2. ASSUME NEW t \in Popper, Server(t) PROVE dropped' = {}
    BY <2>1, <2>2
       DEF Server, ServerWait, ServerRetry, ServerTake, HandleTag, SetCode, MailboxSend, serverVars
  <2> QED BY <2>2
          DEF ServerNext, ArmOther, ArmAsk, ArmAnswered, Interrupt, serverVars, allVars
<1> QED BY <1>1, <1>2, ServerInvariance, PTL DEF ServerSpec
-----------------------------------------------------------------------------
(* The server implements AbstractServer *)

\* Status in the terms of the invariant.
StatusOf(b) ==
  IF b \notin asked THEN "free"
  ELSE IF In(reply, b) THEN code[b]
  ELSE IF Nowhere(b) THEN "lost" ELSE "asked"

LEMMA StatusIs == Status = [b \in Buffer |-> StatusOf(b)]
<1>1. ASSUME NEW b \in Buffer
      PROVE  (Sent(b) # {} <=> In(reply, b)) /\ (Places(b) = {} <=> Nowhere(b))
  <2>1. /\ InHw(b) # {} <=> In(hw, b)
        /\ InRing(b) # {} <=> In(Waiting, b)
        /\ Sent(b) # {} <=> In(reply, b)
        /\ \A t : t \in Held(b) <=> t \in Popper /\ Holds(t, b)
    BY DEF InHw, InRing, Sent, Held, In, Holds
  <2> QED BY <2>1 DEF Places, Nowhere
<1>2. ASSUME NEW b \in Buffer
      PROVE  StatusOf(b) = CASE b \notin asked -> "free"
                             [] b \in asked /\ Sent(b) # {} -> code[b]
                             [] b \in asked /\ Sent(b) = {} /\ Places(b) # {} -> "asked"
                             [] b \in asked /\ Places(b) = {} -> "lost"
  <2>1. Nowhere(b) => ~In(reply, b)
    BY DEF Nowhere
  <2> QED BY <1>1, <2>1 DEF StatusOf
<1> QED BY <1>2 DEF Status

LEMMA StatusNext == (Status = [b \in Buffer |-> StatusOf(b)])'
BY StatusIs, PTL

\* A step that changes what the ARM can see of a message, or of none.
LEMMA StatusMoves ==
  ASSUME NEW a \in Buffer, NEW v, StatusOf(a)' = v,
         \A b \in Buffer : b # a => StatusOf(b)' = StatusOf(b)
  PROVE  Status' = [Status EXCEPT ![a] = v]
<1> DEFINE f == [b \in Buffer |-> StatusOf(b)]
           g == [b \in Buffer |-> StatusOf(b)']
<1>1. Status = f /\ Status' = g
  BY StatusIs, StatusNext
<1>2. g = [f EXCEPT ![a] = v]
  OBVIOUS
<1> QED BY <1>1, <1>2

LEMMA StatusStays ==
  ASSUME \A b \in Buffer : StatusOf(b)' = StatusOf(b)
  PROVE  Status' = Status
<1> DEFINE f == [b \in Buffer |-> StatusOf(b)]
           g == [b \in Buffer |-> StatusOf(b)']
<1>1. Status = f /\ Status' = g
  BY StatusIs, StatusNext
<1>2. g = f
  OBVIOUS
<1> QED BY <1>1, <1>2

\* What the status of a message depends on.
LEMMA StatusKept ==
  ASSUME NEW b \in Buffer, b \in asked' <=> b \in asked, In(reply, b)' <=> In(reply, b),
         Nowhere(b)' <=> Nowhere(b), In(reply, b) => code'[b] = code[b]
  PROVE  StatusOf(b)' = StatusOf(b)
BY DEF StatusOf

\* No message moves.
LEMMA NoneMoves ==
  ASSUME UNCHANGED <<hw, buf, head, tail, asked, tags, msg, reply>>,
         \A b \in Buffer : In(reply, b) => code'[b] = code[b]
  PROVE  Status' = Status /\ tags' = tags
<1>1. Waiting' = Waiting
  BY WaitingUnchanged
<1>2. ASSUME NEW b \in Buffer PROVE StatusOf(b)' = StatusOf(b)
  <2>1. (In(reply, b)' <=> In(reply, b)) /\ (Nowhere(b)' <=> Nowhere(b))
    BY <1>1 DEF In, Nowhere, Holds
  <2> QED BY <2>1, StatusKept
<1> QED BY <1>2, StatusStays

LEMMA ArmOtherSees == ASSUME SInv, IInv', ArmOther PROVE Status' = Status /\ tags' = tags
<1> USE ServerAssumption
<1>1. /\ Waiting' = Waiting /\ hw' = Append(hw, sent + 1) /\ sent + 1 \in Word
      /\ hw \in Seq(Word) /\ MessageOf[sent + 1] = None
      /\ UNCHANGED <<asked, tags, code, msg, reply>>
  BY WaitingUnchanged
     DEF SInv, IInv, TypeOK, ArmOther, ArmWrite, ringVars, Word, serverVars, memory, threads
<1>2. ASSUME NEW b \in Buffer PROVE StatusOf(b)' = StatusOf(b)
  <2>1. In(hw', b) <=> In(hw, b)
    BY <1>1, InAppend
  <2>2. Nowhere(b)' <=> Nowhere(b)
    BY <1>1, <2>1 DEF Nowhere, Holds
  <2> QED BY <1>1, <2>2, StatusKept
<1> QED BY <1>1, <1>2, StatusStays

LEMMA ArmAskSees == ASSUME SInv, IInv', ArmAsk PROVE \E b \in Buffer : Service!Ask(b)
<1> USE ServerAssumption
<1>1. /\ Waiting' = Waiting /\ hw' = Append(hw, sent + 1) /\ sent + 1 \in Word
      /\ hw \in Seq(Word)
  BY WaitingUnchanged DEF SInv, IInv, TypeOK, ArmAsk, ArmWrite, ringVars, Word
<1>2. PICK a \in Buffer \ asked, m \in Messages :
        /\ MessageOf[sent + 1] = a
        /\ asked' = asked \cup {a}
        /\ tags' = [tags EXCEPT ![a] = m]
  BY DEF ArmAsk
<1>3. UNCHANGED <<code, msg, reply>>
  BY DEF ArmAsk, threads
<1>4. ASSUME NEW b \in Buffer PROVE In(hw', b) <=> In(hw, b) \/ b = a
  BY <1>1, <1>2, InAppend
<1>5. Nowhere(a) /\ Status[a] = "free"
  BY <1>2, StatusIs DEF SInv, Flow, Owned, StatusOf
<1>6. StatusOf(a)' = "asked"
  BY <1>2, <1>3, <1>4, <1>5 DEF StatusOf, Nowhere, In
<1>7. ASSUME NEW b \in Buffer, b # a PROVE StatusOf(b)' = StatusOf(b)
  <2>1. Nowhere(b)' <=> Nowhere(b)
    BY <1>1, <1>3, <1>4, <1>7 DEF Nowhere, Holds
  <2> QED BY <1>2, <1>3, <1>7, <2>1, StatusKept
<1>8. Status' = [Status EXCEPT ![a] = "asked"]
  BY <1>6, <1>7, StatusMoves
<1> QED BY <1>2, <1>5, <1>8 DEF Service!Ask

LEMMA ArmAnsweredSees == ASSUME SInv, IInv', ArmAnswered PROVE \E b \in Buffer : Service!Taken(b)
<1> USE ServerAssumption
<1>0. PICK a : a = MessageOf[Head(reply)]
  OBVIOUS
<1>1. /\ Waiting' = Waiting /\ hw' = hw
      /\ reply \in Seq(Word) /\ reply # <<>> /\ reply' = Tail(reply)
  BY WaitingUnchanged DEF SInv, ServerTypeOK, ArmAnswered, vars, ringVars, irqVars
<1>2. /\ asked' = asked \ {a} /\ tags' = [tags EXCEPT ![a] = <<>>]
      /\ code' = [code EXCEPT ![a] = "request"] /\ msg' = msg
  BY <1>0 DEF ArmAnswered, threads
<1>3. a \in Buffer /\ Complete(a)
  BY <1>0, <1>1 DEF SInv, Answers
<1>4. ASSUME NEW b \in Buffer
      PROVE  In(reply, b) <=> In(reply', b) \/ b = a
  BY <1>1, <1>0, InTail
<1>5. In(reply, a) /\ a \in asked
  BY <1>3, <1>4 DEF SInv, Flow, Owned, Nowhere
<1>6. Status[a] \in {"success", "error"}
  BY <1>3, <1>5, StatusIs DEF StatusOf, Complete
<1>7. StatusOf(a)' = "free"
  BY <1>2 DEF StatusOf
<1>8. ASSUME NEW b \in Buffer, b # a PROVE StatusOf(b)' = StatusOf(b)
  <2>1. code'[b] = code[b]
    BY <1>2, <1>8 DEF SInv, ServerTypeOK
  <2>2. Nowhere(b)' <=> Nowhere(b)
    BY <1>1, <1>2, <1>4, <1>8 DEF Nowhere, Holds
  <2> QED BY <1>2, <1>4, <1>8, <2>1, <2>2, StatusKept
<1>9. Status' = [Status EXCEPT ![a] = "free"]
  BY <1>3, <1>7, <1>8, StatusMoves
<1> QED BY <1>2, <1>3, <1>6, <1>9 DEF Service!Taken

\* A word that meets a full ring takes its message with it.
LEMMA DrainSees ==
  ASSUME SInv, IInv', IrqDrain, UNCHANGED serverVars
  PROVE  (Status' = Status /\ tags' = tags) \/ \E b \in Buffer : Service!Lose(b)
<1> USE ServerAssumption
<1>0. PICK a : a = MessageOf[Head(hw)]
  OBVIOUS
<1>1. /\ hw \in Seq(Word) /\ hw # <<>> /\ hw' = Tail(hw) /\ Head(hw) \in Word
      /\ Waiting \in Seq(Word)
  BY WaitingIsSeq DEF SInv, IInv, TypeOK, IrqDrain
<1>2. Waiting' = Waiting \/ Waiting' = Append(Waiting, Head(hw))
  BY <1>1, WaitingUnchanged, PushAppends DEF IrqDrain, Push, SInv
<1>3. UNCHANGED <<asked, tags, code, msg, reply>>
  BY DEF serverVars, memory, threads
<1>4. a \in Buffer \cup {None}
  BY <1>0, <1>1
<1>5. ASSUME NEW b \in Buffer
      PROVE  /\ In(hw, b) <=> In(hw', b) \/ a = b
             /\ Once(hw, b) => ~(In(hw', b) /\ a = b)
  BY <1>1, <1>0, InTail
<1>6. CASE Waiting' = Append(Waiting, Head(hw))
  <2>1. ASSUME NEW b \in Buffer PROVE StatusOf(b)' = StatusOf(b)
    <3>1. In(Waiting', b) <=> In(Waiting, b) \/ a = b
      BY <1>1, <1>6, <1>0, InAppend
    <3>2. Nowhere(b)' <=> Nowhere(b)
      BY <1>3, <1>5, <3>1 DEF Nowhere, Holds
    <3> QED BY <1>3, <3>2, StatusKept
  <2> QED BY <1>3, <2>1, StatusStays
<1>7. CASE Waiting' = Waiting
  <2>1. ASSUME NEW b \in Buffer, b # a PROVE StatusOf(b)' = StatusOf(b)
    <3>1. Nowhere(b)' <=> Nowhere(b)
      BY <1>3, <1>5, <1>7, <2>1 DEF Nowhere, Holds
    <3> QED BY <1>3, <3>1, StatusKept
  <2>2. CASE a = None
    BY <1>3, <2>1, <2>2, StatusStays
  <2>3. CASE a \in Buffer
    <3>1. In(hw, a) /\ Single(a) /\ Owned(a)
      BY <1>5, <2>3 DEF SInv, Flow
    <3>2. a \in asked /\ ~Nowhere(a) /\ ~In(reply, a) /\ ~In(hw', a) /\ ~In(Waiting, a)
          /\ \A t \in Popper : ~Holds(t, a)
      BY <1>5, <2>3, <3>1 DEF Owned, Nowhere, Single
    <3>3. Nowhere(a)'
      BY <1>3, <1>7, <3>2 DEF Nowhere, Holds
    <3>4. Status[a] = "asked" /\ StatusOf(a)' = "lost"
      BY <1>3, <2>3, <3>2, <3>3, StatusIs DEF StatusOf, In
    <3>5. Status' = [Status EXCEPT ![a] = "lost"]
      BY <2>1, <2>3, <3>4, StatusMoves
    <3> QED BY <1>3, <2>3, <3>4, <3>5 DEF Service!Lose
  <2> QED BY <1>4, <2>2, <2>3
<1> QED BY <1>2, <1>6, <1>7

LEMMA TakeSees ==
  ASSUME SInv, IInv', NEW t \in Popper, ServerTake(t) PROVE Status' = Status /\ tags' = tags
<1> USE ServerAssumption, MailboxAssumption
<1> DEFINE w == buf[tail]
<1>1. /\ Waiting \in Seq(Word) /\ Waiting # <<>> /\ w = Head(Waiting) /\ w \in Word
      /\ Waiting' = Tail(Waiting)
  <2>1. PopTake(t)
    BY DEF ServerTake
  <2>2. Waiting # <<>> /\ w = Head(Waiting) /\ Waiting' = Tail(Waiting)
    BY <2>1, TakeRemoves DEF SInv
  <2>3. Waiting \in Seq(Word)
    BY WaitingIsSeq DEF SInv
  <2> QED BY <2>2, <2>3
<1>2. /\ UNCHANGED <<hw, asked, tags, code, reply>>
      /\ stage[t] = "pop" /\ msg[t] = None /\ msg \in [Popper -> Word \cup {None}]
  BY DEF ServerTake, PopTake, irqVars, memory, SInv, ServerTypeOK, Work, Working
<1>3. \/ MessageOf[w] = None /\ msg' = msg
      \/ MessageOf[w] # None /\ msg' = [msg EXCEPT ![t] = w]
  BY DEF ServerTake, threads
<1>4. w # None
  BY <1>1 DEF Word
<1> HIDE DEF w
<1>5. ASSUME NEW b \in Buffer PROVE StatusOf(b)' = StatusOf(b)
  <2>1. In(Waiting, b) <=> In(Waiting', b) \/ MessageOf[w] = b
    BY <1>1, InTail
  <2>2. (\E u \in Popper : Holds(u, b)') <=> ((\E u \in Popper : Holds(u, b)) \/ MessageOf[w] = b)
    <3>1. CASE MessageOf[w] = None /\ msg' = msg
      BY <3>1 DEF Holds
    <3>2. CASE MessageOf[w] # None /\ msg' = [msg EXCEPT ![t] = w]
      <4>1. msg'[t] = w /\ \A u \in Popper : u # t => msg'[u] = msg[u]
        BY <1>2, <3>2
      <4> QED BY <1>2, <1>4, <4>1 DEF Holds
    <3> QED BY <1>3, <3>1, <3>2
  <2>3. Nowhere(b)' <=> Nowhere(b)
    BY <1>2, <2>1, <2>2 DEF Nowhere
  <2> QED BY <1>2, <2>3, StatusKept
<1> QED BY <1>2, <1>5, StatusStays

\* The code is written while nobody but the thread has the message.
LEMMA SetCodeSees ==
  ASSUME SInv, IInv', NEW t \in Popper, SetCode(t) PROVE Status' = Status /\ tags' = tags
<1>0. PICK a : a = MessageOf[msg[t]]
  OBVIOUS
<1>1. /\ stage[t] = "tags"
      /\ code' = [code EXCEPT ![a] = IF error[t] THEN "error" ELSE "success"]
      /\ UNCHANGED <<vars, asked, tags, msg, reply>>
  BY <1>0 DEF SetCode
<1>2. msg[t] # None
  BY <1>1 DEF SInv, Work, Working
<1>3. ~In(reply, a)
  BY <1>0, <1>2, HolderOnly
<1>4. ASSUME NEW b \in Buffer, In(reply, b) PROVE code'[b] = code[b]
  BY <1>1, <1>3, <1>4 DEF SInv, ServerTypeOK
<1> QED BY <1>1, <1>4, NoneMoves DEF vars, ringVars, irqVars

\* The code the thread has written is the one that the tags call for.
LEMMA MailboxSendSees ==
  ASSUME SInv, IInv', NEW t \in Popper, MailboxSend(t)
  PROVE  \E b \in Buffer : Service!Answer(b) \/ Service!Lose(b)
<1> USE ServerAssumption
<1>0. PICK a : a = MessageOf[msg[t]]
  OBVIOUS
<1>1. /\ stage[t] = "send" /\ msg' = [msg EXCEPT ![t] = None]
      /\ UNCHANGED <<vars, asked, tags, answered, code>>
      /\ reply' = Append(reply, msg[t]) \/ reply' = reply
  BY DEF MailboxSend, memory
<1>2. msg[t] # None /\ Complete(a)
  BY <1>0, <1>1 DEF SInv, Work, Working
<1>3. /\ a \in Buffer /\ a \in asked
      /\ ~In(hw, a) /\ ~In(Waiting, a) /\ ~In(reply, a)
      /\ \A u \in Popper : Holds(u, a) => u = t
  BY <1>0, <1>2, HolderOnly
<1>4. msg[t] \in Word /\ reply \in Seq(Word)
  BY <1>2 DEF SInv, ServerTypeOK
<1>5. \A b : Holds(t, b) <=> b = a
  BY <1>0, <1>2 DEF Holds
<1>6. ASSUME NEW b
      PROVE  ~Holds(t, b)' /\ \A u \in Popper : u # t => (Holds(u, b)' <=> Holds(u, b))
  <2>1. msg'[t] = None /\ \A u \in Popper : u # t => msg'[u] = msg[u]
    BY <1>1 DEF SInv, ServerTypeOK
  <2> QED BY <2>1 DEF Holds
<1>7. Waiting' = Waiting /\ hw' = hw
  BY <1>1, WaitingUnchanged DEF vars, ringVars, irqVars
<1>8. ASSUME NEW b \in Buffer
      PROVE  IF reply' = reply THEN In(reply', b) <=> In(reply, b)
                               ELSE In(reply', b) <=> In(reply, b) \/ b = a
  <2>1. CASE reply' = reply
    BY <2>1
  <2>2. CASE reply' = Append(reply, msg[t])
    <3>1. In(reply', b) <=> In(reply, b) \/ b = a
      BY <1>0, <1>4, <2>2, InAppend
    <3>2. reply' # reply
      BY <1>4, <2>2
    <3> QED BY <3>1, <3>2
  <2> QED BY <1>1, <2>1, <2>2
<1>9. ASSUME NEW b \in Buffer, b # a PROVE StatusOf(b)' = StatusOf(b)
  <2>1. In(reply, b)' <=> In(reply, b)
    BY <1>8, <1>9
  <2>2. Nowhere(b)' <=> Nowhere(b)
    BY <1>5, <1>6, <1>7, <1>9, <2>1 DEF Nowhere
  <2> QED BY <1>1, <2>1, <2>2, StatusKept
<1>10. Status[a] = "asked"
  BY <1>3, <1>5, StatusIs DEF StatusOf, Nowhere
<1>11. CASE reply' = reply
  <2>1. Nowhere(a)'
    BY <1>3, <1>6, <1>7, <1>11 DEF Nowhere
  <2>2. StatusOf(a)' = "lost"
    BY <1>1, <1>3, <1>11, <2>1 DEF StatusOf, In
  <2>3. Status' = [Status EXCEPT ![a] = "lost"]
    BY <1>3, <1>9, <2>2, StatusMoves
  <2> QED BY <1>1, <1>3, <1>10, <2>3 DEF Service!Lose
<1>12. CASE reply' # reply
  <2>1. In(reply', a)
    BY <1>3, <1>8, <1>12
  <2>2. StatusOf(a)' = code[a]
    BY <1>1, <1>3, <2>1 DEF StatusOf
  <2>3. DOMAIN tags[a] = 1 .. Len(tags[a])
    BY <1>3 DEF SInv, ServerTypeOK
  <2>4. Service!Response(tags[a]) = code[a]
    BY <1>2, <2>3 DEF Service!Response, Complete, Refused
  <2>5. Status' = [Status EXCEPT ![a] = Service!Response(tags[a])]
    BY <1>3, <1>9, <2>2, <2>4, StatusMoves
  <2> QED BY <1>1, <1>3, <1>10, <2>5 DEF Service!Answer
<1> QED BY <1>11, <1>12

LEMMA ServiceStep == SInv /\ [ServerNext]_allVars => [Service!Next]_<<Status, tags>>
<1> SUFFICES ASSUME SInv, [ServerNext]_allVars
             PROVE  Service!Next \/ (Status' = Status /\ tags' = tags)
  OBVIOUS
<1>0. IInv'
  BY UsesMailbox, Inductive DEF SInv, allVars
<1>1. CASE ArmOther \/ ArmAsk \/ ArmAnswered
  BY <1>0, <1>1, ArmOtherSees, ArmAskSees, ArmAnsweredSees DEF Service!Next
<1>2. CASE Interrupt
  <2>1. CASE IrqEnter \/ IrqStatus
    BY <1>2, <2>1, NoneMoves
       DEF Interrupt, IrqEnter, IrqStatus, ringVars, serverVars, memory, threads
  <2> QED BY <1>0, <1>2, <2>1, DrainSees DEF Interrupt, Irq, Service!Next
<1>3. ASSUME NEW t \in Popper, Server(t)
      PROVE  Service!Next \/ (Status' = Status /\ tags' = tags)
  <2>1. CASE ServerWait(t) \/ ServerRetry(t)
    BY <2>1, NoneMoves DEF ServerWait, ServerRetry, PopWait, PopRetry, ringVars, irqVars,
                           serverVars, memory, threads
  <2>2. CASE HandleTag(t)
    BY <2>2, NoneMoves DEF HandleTag, vars, ringVars, irqVars
  <2> QED BY <1>0, <1>3, <2>1, <2>2, TakeSees, SetCodeSees, MailboxSendSees DEF Server, Service!Next
<1>4. CASE UNCHANGED allVars
  BY <1>4, NoneMoves DEF allVars, vars, ringVars, irqVars, serverVars, memory, threads
<1> QED BY <1>1, <1>2, <1>3, <1>4 DEF ServerNext

\* Through FIFO, ring, threads and mailbox a request is answered once, with the code
\* its tags call for, or lost once and for all: see AnswersOnce.
THEOREM ServiceRefinement == ServerSpec => AnswersOnce
<1>1. ServerInit => Service!Init
  <2> SUFFICES ASSUME ServerInit PROVE Service!Init
    OBVIOUS
  <2>1. \A b \in Buffer : StatusOf(b) = "free"
    BY DEF ServerInit, StatusOf
  <2> QED BY <2>1, StatusIs DEF ServerInit, Service!Init
<1> QED BY <1>1, ServiceStep, ServerInvariance, PTL
        DEF ServerSpec, AnswersOnce, Service!Spec, Service!vars
=============================================================================
