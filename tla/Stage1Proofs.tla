---------------------------- MODULE Stage1Proofs ----------------------------
(***************************************************************************)
(* Proofs about SdHost and Stage1, for cards, blocks and FIFOs of any size *)
(* and any targets: a read hands over the words that were asked for, at    *)
(* their places; the second stage that is started was read whole; nothing  *)
(* is mounted when the loop is back at the queue.                          *)
(***************************************************************************)
EXTENDS Stage1, TLAPS

\* The words of s are those wanted behind the first k, each at its place.
ExactFrom(s, k) ==
  \A i \in DOMAIN s : s[i] \in CardWord /\ Place(s[i]) = Wanted(req, k + i)

\* The next word the card sends is the next one wanted.
InPosition ==
  card.on =>
    LET n == Len(buf) + Len(fifo)
    IN /\ card.at <= BlockWords => Wanted(req, n + 1) = [block |-> card.block, at |-> card.at]
       /\ card.at > BlockWords =>
            n > 0 /\ Wanted(req, n) = [block |-> card.block, at |-> BlockWords]

\* As long as no error is reported, damaged words are of the block on its way.
DamageIn(s) ==
  \A i \in DOMAIN s :
    ~s[i].good => card.on /\ card.damaged /\ s[i].block = card.block

Moving ==
  /\ ExactFrom(fifo, Len(buf)) /\ InPosition
  /\ ~hsts => DamageIn(buf) /\ DamageIn(fifo)

\* Damaged words of the buffer are of the block of its last word.
LastBlock == \A i \in DOMAIN buf : buf[i].good \/ buf[i].block = buf[Len(buf)].block

\* The card sends nothing any more, or will not once STOP is executed.
Clear == cmd = Idle /\ card = Quiet
Settled == cmd = Stop \/ Clear

\* What a driver that never gave up waiting knows at each place.
Known ==
  /\ sd \in {"idle", "wait"} => Settled
  /\ sd = "drain" => Clear
  /\ sd = "command" => Clear /\ fifo = <<>>
  /\ sd = "answer" => \/ cmd = ReadCmd(req) /\ card = Quiet /\ fifo = <<>>
                      \/ cmd = Idle /\ Moving
  /\ sd = "data" => cmd = Idle /\ Moving
  /\ sd = "stop" => cmd = Idle
  /\ sd \in {"wait", "drain", "command", "answer"} => buf = <<>>
  /\ ExactFrom(buf, 0) /\ LastBlock
  /\ sd \in {"stop", "idle"} => failed \/ early \/ Len(buf) = req.count * BlockWords

\* The arguments of a read that is going on are a request, and the card has not
\* passed the last block.
Asked ==
  /\ sd # "idle" => req \in Request
  /\ card.on => card.block <= card.last

SdInv == SdTypeOK /\ Asked /\ (~gaveUp => Known)

-----------------------------------------------------------------------------
(* Arithmetic *)

LEMMA DivModNext ==
  ASSUME NEW W \in Nat \ {0}, NEW i \in Nat
  PROVE  /\ i % W \in 0 .. W - 1 /\ i \div W \in Nat
         /\ i % W < W - 1 => (i + 1) % W = (i % W) + 1 /\ (i + 1) \div W = i \div W
         /\ i % W = W - 1 => (i + 1) % W = 0 /\ (i + 1) \div W = (i \div W) + 1
BY SMTT(60)

LEMMA DivMonotone ==
  ASSUME NEW W \in Nat \ {0}, NEW i \in Nat, NEW j \in Nat, i <= j
  PROVE  i \div W <= j \div W
BY SMTT(60)

LEMMA DivModZero ==
  ASSUME NEW W \in Nat \ {0}
  PROVE  0 % W = 0 /\ 0 \div W = 0
BY SMT

\* The words of a request follow each other through its blocks.
LEMMA WantedFirst ==
  ASSUME NEW r \in Request PROVE Wanted(r, 1) = [block |-> r.block, at |-> 1]
<1>1. r.block \in Int /\ 1 - 1 = 0
  BY DEF Request
<1> QED BY <1>1, SdAssumption, DivModZero DEF Wanted

LEMMA WantedNext ==
  ASSUME NEW r \in Request, NEW i \in Nat \ {0},
         NEW b \in Int, NEW a \in Int, Wanted(r, i) = [block |-> b, at |-> a]
  PROVE  Wanted(r, i + 1) = IF a < BlockWords THEN [block |-> b, at |-> a + 1]
                                              ELSE [block |-> b + 1, at |-> 1]
<1> DEFINE q == (i - 1) \div BlockWords
           m == (i - 1) % BlockWords
<1>1. r.block \in Int /\ i - 1 \in Nat /\ BlockWords \in Nat \ {0}
  BY SdAssumption DEF Request
<1>2. b = r.block + q /\ a = 1 + m
  BY DEF Wanted
<1>3. Wanted(r, i + 1) = [block |-> r.block + (i \div BlockWords), at |-> 1 + (i % BlockWords)]
  <2>1. (i + 1) - 1 = i
    OBVIOUS
  <2> QED BY <2>1 DEF Wanted
<1>4. (i - 1) + 1 = i
  OBVIOUS
<1>5. /\ m \in 0 .. BlockWords - 1 /\ q \in Nat
      /\ m < BlockWords - 1 => i % BlockWords = m + 1 /\ i \div BlockWords = q
      /\ m = BlockWords - 1 => i % BlockWords = 0 /\ i \div BlockWords = q + 1
  BY <1>1, <1>4, DivModNext
<1> HIDE DEF q, m
<1>6. CASE m < BlockWords - 1
  BY <1>1, <1>2, <1>3, <1>5, <1>6
<1>7. CASE m = BlockWords - 1
  BY <1>1, <1>2, <1>3, <1>5, <1>7
<1> QED BY <1>1, <1>5, <1>6, <1>7

LEMMA WantedBehind ==
  \A r \in Request, i \in Nat \ {0}, b \in Int, a \in Int :
    Wanted(r, i) = [block |-> b, at |-> a] =>
      /\ a < BlockWords => Wanted(r, i + 1) = [block |-> b, at |-> a + 1]
      /\ a >= BlockWords => Wanted(r, i + 1) = [block |-> b + 1, at |-> 1]
<1> SUFFICES ASSUME NEW r \in Request, NEW i \in Nat \ {0}, NEW b \in Int, NEW a \in Int,
                    Wanted(r, i) = [block |-> b, at |-> a]
             PROVE  /\ a < BlockWords => Wanted(r, i + 1) = [block |-> b, at |-> a + 1]
                    /\ a >= BlockWords => Wanted(r, i + 1) = [block |-> b + 1, at |-> 1]
  OBVIOUS
<1>1. Wanted(r, i + 1) = IF a < BlockWords THEN [block |-> b, at |-> a + 1]
                                           ELSE [block |-> b + 1, at |-> 1]
  BY WantedNext
<1> QED BY <1>1, SdAssumption

LEMMA WantedOrder ==
  ASSUME NEW r \in Request, NEW i \in Nat \ {0}, NEW j \in Nat \ {0}, i <= j
  PROVE  /\ Wanted(r, i).block \in Int /\ Wanted(r, j).block \in Int
         /\ Wanted(r, i).block <= Wanted(r, j).block
<1>1. r.block \in Int /\ i - 1 \in Nat /\ j - 1 \in Nat /\ i - 1 <= j - 1
      /\ BlockWords \in Nat \ {0}
  BY SdAssumption DEF Request
<1>2. /\ (i - 1) \div BlockWords \in Nat /\ (j - 1) \div BlockWords \in Nat
      /\ (i - 1) \div BlockWords <= (j - 1) \div BlockWords
  BY <1>1, DivMonotone, DivModNext
<1> QED BY <1>1, <1>2 DEF Wanted

-----------------------------------------------------------------------------
(* The controller *)

LEMMA TransferIs ==
  ASSUME SdTypeOK
  PROVE  /\ card.on \in BOOLEAN
         /\ ~card.on => card = Quiet
         /\ card.on => card \in [on : {TRUE}, block : 0 .. Blocks - 1, last : 0 .. Blocks - 1,
                                 at : 1 .. BlockWords + 1, damaged : BOOLEAN]
<1> DEFINE T == [on : {TRUE}, block : 0 .. Blocks - 1, last : 0 .. Blocks - 1,
                 at : 1 .. BlockWords + 1, damaged : BOOLEAN]
<1>1. card = Quiet \/ card \in T
  BY DEF SdTypeOK, Transfer
<1>2. card = Quiet => card.on = FALSE
  BY DEF Quiet
<1>3. card \in T => card.on = TRUE
  OBVIOUS
<1> QED BY <1>1, <1>2, <1>3

LEMMA HwCommandStep == ASSUME SdInv, HwCommand, UNCHANGED sdVars PROVE SdInv'
<1> USE SdAssumption
<1>1. UNCHANGED <<sd, req, buf, tries, failed, early, gaveUp, fifo>> /\ cmd # Idle /\ cmd' = Idle
  BY DEF HwCommand, sdVars
<1>2. cmd.op = "read" => cmd \in {ReadCmd(r) : r \in Request}
  BY <1>1 DEF SdInv, SdTypeOK, Command, Idle, Stop, ReadCmd
<1>3. SdTypeOK'
  <2>1. card' \in Transfer /\ hsts' \in BOOLEAN
    <3>1. CASE cmd.op = "read" /\ hsts' = hsts
      <4>1. PICK r \in Request : cmd = ReadCmd(r)
        BY <1>2, <3>1
      <4>2. r.block \in 0 .. Blocks - 1 /\ r.block + r.count - 1 \in 0 .. Blocks - 1
        BY DEF Request
      <4>3. cmd.block = r.block /\ cmd.count = r.count
        BY <4>1 DEF ReadCmd
      <4>4. card' = card \/ card' = Quiet
            \/ card' = [on |-> TRUE, block |-> r.block, last |-> r.block + r.count - 1,
                        at |-> 1, damaged |-> FALSE]
        BY <4>3 DEF HwCommand
      <4>5. 1 \in 1 .. BlockWords + 1
        OBVIOUS
      <4>6. [on |-> TRUE, block |-> r.block, last |-> r.block + r.count - 1,
             at |-> 1, damaged |-> FALSE] \in Transfer
        BY <4>2, <4>5 DEF Transfer
      <4>7. card \in Transfer /\ Quiet \in Transfer /\ hsts \in BOOLEAN
        BY DEF SdInv, SdTypeOK, Transfer
      <4> QED BY <3>1, <4>4, <4>6, <4>7
    <3>2. CASE ~(cmd.op = "read" /\ hsts' = hsts)
      <4>1. card \in Transfer /\ Quiet \in Transfer /\ hsts \in BOOLEAN
        BY DEF SdInv, SdTypeOK, Transfer
      <4>2. card' \in {card, Quiet} /\ hsts' \in {hsts, TRUE}
        BY <3>2 DEF HwCommand
      <4> QED BY <4>1, <4>2
    <3> QED BY <3>1, <3>2
  <2> QED BY <1>1, <2>1 DEF SdInv, SdTypeOK, Command
<1>4. ASSUME ~gaveUp PROVE Known'
  <2>0. Known
    BY <1>4 DEF SdInv
  <2>1. CASE sd \in {"idle", "wait"}
    <3>1. cmd = Stop
      BY <1>1, <2>0, <2>1 DEF Known, Settled, Clear
    <3>2. cmd.op # "read"
      BY <3>1 DEF Stop
    <3>3. card' = Quiet
      BY <3>2 DEF HwCommand
    <3> QED BY <1>1, <2>0, <2>1, <3>3 DEF Known, Settled, Clear, ExactFrom, LastBlock
  <2>2. CASE sd = "answer"
    <3>1. cmd = ReadCmd(req) /\ card = Quiet /\ fifo = <<>> /\ buf = <<>> /\ req \in Request
      BY <1>1, <2>0, <2>2 DEF Known, SdInv, Asked
    <3>2. ~card'.on \/ (/\ card'.block = req.block /\ card'.at = 1 /\ card'.on)
      BY <3>1 DEF HwCommand, ReadCmd, Quiet
    <3>3. Moving'
      <4>1. InPosition'
        BY <1>1, <3>1, <3>2, WantedFirst DEF InPosition
      <4> QED BY <1>1, <3>1, <4>1 DEF Moving, ExactFrom, DamageIn
    <3> QED BY <1>1, <2>0, <2>2, <3>3 DEF Known, ExactFrom, LastBlock
  <2> QED BY <1>1, <2>0, <2>1, <2>2 DEF Known, SdInv, SdTypeOK, Clear
<1>5. card'.on => card'.block <= card'.last
  <2>1. CASE card' = card \/ card' = Quiet
    BY <2>1 DEF SdInv, Asked, Quiet
  <2>2. CASE cmd.op = "read" /\ ~(card' = card)
    <3>1. PICK r \in Request : cmd = ReadCmd(r)
      BY <1>2, <2>2
    <3>2. card'.block = r.block /\ card'.last = r.block + r.count - 1
      BY <2>2, <3>1 DEF HwCommand, ReadCmd
    <3>3. r.block \in Int /\ r.count \in Int /\ r.count >= 1
      BY DEF Request
    <3> QED BY <3>2, <3>3
  <2> QED BY <2>1, <2>2 DEF HwCommand
<1> QED BY <1>1, <1>3, <1>4, <1>5 DEF SdInv, Asked

\* Nothing arrives at a driver that knows the card to be quiet.
LEMMA HwWordStep == ASSUME SdInv, HwWord, UNCHANGED sdVars PROVE SdInv'
<1> USE SdAssumption
<1>1. /\ UNCHANGED <<sd, req, buf, tries, failed, early, gaveUp, cmd, hsts>>
      /\ card.on /\ card.at <= BlockWords
  BY DEF HwWord, sdVars
<1>2. card \in [on : {TRUE}, block : 0 .. Blocks - 1, last : 0 .. Blocks - 1,
                at : 1 .. BlockWords + 1, damaged : BOOLEAN]
  BY <1>1, TransferIs DEF SdInv
<1>3. PICK g \in BOOLEAN :
        /\ fifo' = Append(fifo, [block |-> card.block, at |-> card.at, good |-> g])
        /\ card' = [card EXCEPT !.at = @ + 1, !.damaged = @ \/ ~g]
  BY DEF HwWord
<1> DEFINE w == [block |-> card.block, at |-> card.at, good |-> g]
<1>4. w \in CardWord /\ Place(w) = [block |-> card.block, at |-> card.at]
      /\ w.good = g /\ w.block = card.block
  BY <1>1, <1>2 DEF CardWord, Place
<1>5. /\ card'.on /\ card'.block = card.block /\ card'.at = card.at + 1
      /\ card'.last = card.last
      /\ card'.damaged = (card.damaged \/ ~g)
  BY <1>2, <1>3
<1>6. fifo \in Seq(CardWord \cup {Junk}) /\ buf \in Seq(CardWord \cup {Junk})
  BY DEF SdInv, SdTypeOK
<1>7. SdTypeOK'
  <2>1. card' \in Transfer
    <3>1. card.at + 1 \in 1 .. BlockWords + 1 /\ (card.damaged \/ ~g) \in BOOLEAN
      BY <1>1, <1>2
    <3> DEFINE T == [on : {TRUE}, block : 0 .. Blocks - 1, last : 0 .. Blocks - 1,
                     at : 1 .. BlockWords + 1, damaged : BOOLEAN]
    <3>2. [card EXCEPT !.at = card.at + 1, !.damaged = card.damaged \/ ~g] \in T
      BY <1>2, <3>1
    <3> QED BY <1>3, <3>2 DEF Transfer
  <2>2. fifo' \in Seq(CardWord \cup {Junk})
    BY <1>3, <1>4, <1>6
  <2> QED BY <1>1, <2>1, <2>2 DEF SdInv, SdTypeOK
<1> HIDE DEF w
<1>8. /\ Len(fifo') = Len(fifo) + 1 /\ Len(fifo) \in Nat /\ Len(buf) \in Nat
      /\ DOMAIN fifo' = 1 .. Len(fifo) + 1 /\ DOMAIN fifo = 1 .. Len(fifo)
      /\ fifo'[Len(fifo) + 1] = w
      /\ \A i \in DOMAIN fifo : fifo'[i] = fifo[i]
  BY <1>3, <1>6 DEF w
<1>9. ASSUME Moving, req \in Request PROVE Moving'
  <2> DEFINE n == Len(buf) + Len(fifo)
  <2>1. Wanted(req, n + 1) = [block |-> card.block, at |-> card.at]
    BY <1>1, <1>9 DEF Moving, InPosition
  <2>2. ExactFrom(fifo, Len(buf))'
    <3> SUFFICES ASSUME NEW i \in DOMAIN fifo'
                 PROVE  fifo'[i] \in CardWord /\ Place(fifo'[i]) = Wanted(req, Len(buf) + i)
      BY <1>1 DEF ExactFrom
    <3>1. CASE i \in DOMAIN fifo
      BY <1>8, <1>9, <3>1 DEF Moving, ExactFrom
    <3>2. CASE i = Len(fifo) + 1
      <4>1. Len(buf) + i = n + 1
        BY <1>8, <3>2
      <4> QED BY <1>4, <1>8, <2>1, <3>2, <4>1
    <3> QED BY <1>8, <3>1, <3>2
  <2>3. InPosition'
    <3>1. Len(buf') + Len(fifo') = n + 1
      BY <1>1, <1>8
    <3>2. n + 1 \in Nat \ {0}
      BY <1>8
    <3>3. CASE card'.at <= BlockWords
      <4>1. Wanted(req, (n + 1) + 1) = [block |-> card.block, at |-> card.at + 1]
        <5>1. card.block \in Int /\ card.at \in Int /\ card.at < BlockWords
          BY <1>2, <1>5, <3>3
        <5> DEFINE k == n + 1
        <5>3. k \in Nat \ {0} /\ Wanted(req, k) = [block |-> card.block, at |-> card.at]
          BY <2>1, <3>2
        <5> HIDE DEF k
        <5>2. Wanted(req, k + 1) = [block |-> card.block, at |-> card.at + 1]
          BY <1>9, <5>1, <5>3, WantedBehind
        <5> QED BY <5>1, <5>2 DEF k
      <4> QED BY <1>1, <1>2, <1>5, <3>1, <3>3, <4>1 DEF InPosition
    <3>4. CASE card'.at > BlockWords
      <4>1. card.at = BlockWords
        BY <1>1, <1>2, <1>5, <3>4
      <4> QED BY <1>1, <1>2, <1>5, <2>1, <3>1, <3>2, <3>4, <4>1 DEF InPosition
    <3> QED BY <1>2, <1>5, <3>3, <3>4
  <2>4. ~hsts' => DamageIn(buf)' /\ DamageIn(fifo)'
    <3> SUFFICES ASSUME ~hsts PROVE DamageIn(buf)' /\ DamageIn(fifo)'
      BY <1>1
    <3>1. DamageIn(buf) /\ DamageIn(fifo)
      BY <1>9 DEF Moving
    <3>2. DamageIn(buf)'
      BY <1>1, <1>5, <3>1 DEF DamageIn
    <3>3. ASSUME NEW i \in DOMAIN fifo', ~fifo'[i].good
          PROVE  card'.damaged /\ fifo'[i].block = card.block
      <4>1. CASE i \in DOMAIN fifo
        <5>1. fifo'[i] = fifo[i]
          BY <1>8, <4>1
        <5>2. card.damaged /\ fifo[i].block = card.block
          BY <3>1, <3>3, <4>1, <5>1 DEF DamageIn
        <5> QED BY <1>5, <5>1, <5>2
      <4>2. CASE i = Len(fifo) + 1
        BY <1>4, <1>5, <1>8, <3>3, <4>2
      <4> QED BY <1>8, <3>3, <4>1, <4>2
    <3> QED BY <1>5, <3>2, <3>3 DEF DamageIn
  <2> QED BY <2>2, <2>3, <2>4 DEF Moving
<1>10. ASSUME ~gaveUp PROVE Known'
  <2>1. Known
    BY <1>10 DEF SdInv
  <2>2. card # Quiet
    BY <1>1 DEF Quiet
  <2>3. sd # "idle" => req \in Request
    BY DEF SdInv, Asked
  <2> QED BY <1>1, <1>9, <2>1, <2>2, <2>3 DEF Known, Settled, Clear, ExactFrom, LastBlock
<1> QED BY <1>1, <1>5, <1>7, <1>10 DEF SdInv, Asked

LEMMA HwBlockEndStep == ASSUME SdInv, HwBlockEnd, UNCHANGED sdVars PROVE SdInv'
<1> USE SdAssumption
<1>1. /\ UNCHANGED <<sd, req, buf, tries, failed, early, gaveUp, cmd, fifo>>
      /\ card.on /\ card.at = BlockWords + 1
      /\ hsts' = (hsts \/ card.damaged)
  BY DEF HwBlockEnd, sdVars
<1> DEFINE T == [on : {TRUE}, block : 0 .. Blocks - 1, last : 0 .. Blocks - 1,
                 at : 1 .. BlockWords + 1, damaged : BOOLEAN]
<1>2. card \in T /\ card.block <= card.last
  BY <1>1, TransferIs DEF SdInv, Asked
<1>3. fifo \in Seq(CardWord \cup {Junk}) /\ buf \in Seq(CardWord \cup {Junk})
  BY DEF SdInv, SdTypeOK
<1>4. \/ card' = Quiet
      \/ /\ card.block # card.last
         /\ card' = [card EXCEPT !.block = card.block + 1, !.at = 1, !.damaged = FALSE]
  BY DEF HwBlockEnd
<1>5. \/ card' = Quiet
      \/ /\ card' \in T /\ card'.at = 1
         /\ card'.block = card.block + 1 /\ card'.block <= card'.last
  <2>1. CASE card' # Quiet
    <3>1. card.block + 1 \in 0 .. Blocks - 1 /\ card.block + 1 <= card.last /\ 1 \in 1 .. BlockWords + 1
      BY <1>2, <1>4, <2>1
    <3>2. card' = [on |-> TRUE, block |-> card.block + 1, last |-> card.last,
                   at |-> 1, damaged |-> FALSE]
      BY <1>2, <1>4, <2>1
    <3> QED BY <1>2, <3>1, <3>2
  <2>2. CASE card' = Quiet
    BY <2>2
  <2> QED BY <2>1, <2>2
<1> HIDE DEF T
<1>6. SdTypeOK'
  <2>1. card' \in Transfer
    BY <1>5 DEF Transfer, T
  <2>2. hsts' \in BOOLEAN
    BY <1>1, <1>2 DEF SdInv, SdTypeOK, T
  <2> QED BY <1>1, <2>1, <2>2 DEF SdInv, SdTypeOK
<1>7. ASSUME Moving, req \in Request PROVE Moving'
  <2>1. ExactFrom(fifo, Len(buf))'
    BY <1>1, <1>7 DEF Moving, ExactFrom
  <2>2. InPosition'
    <3> DEFINE n == Len(buf) + Len(fifo)
    <3>1. n \in Nat \ {0} /\ Wanted(req, n) = [block |-> card.block, at |-> BlockWords]
      BY <1>1, <1>3, <1>7 DEF Moving, InPosition
    <3>2. card.block \in Int
      BY <1>2 DEF T
    <3>3. Len(buf') + Len(fifo') = n
      BY <1>1
    <3> HIDE DEF n
    <3>4. Wanted(req, n + 1) = [block |-> card.block + 1, at |-> 1]
      <4>1. BlockWords \in Int /\ BlockWords >= BlockWords
        OBVIOUS
      <4> QED BY <1>7, <3>1, <3>2, <4>1, WantedBehind
    <3>5. card' = Quiet => ~card'.on
      BY DEF Quiet
    <3> QED BY <1>1, <1>5, <3>3, <3>4, <3>5 DEF InPosition
  <2>3. ~hsts' => DamageIn(buf)' /\ DamageIn(fifo)'
    BY <1>1, <1>7 DEF Moving, DamageIn
  <2> QED BY <2>1, <2>2, <2>3 DEF Moving
<1>8. ASSUME ~gaveUp PROVE Known'
  <2>1. Known
    BY <1>8 DEF SdInv
  <2>2. card # Quiet
    BY <1>1 DEF Quiet
  <2>3. sd # "idle" => req \in Request
    BY DEF SdInv, Asked
  <2> QED BY <1>1, <1>7, <2>1, <2>2, <2>3 DEF Known, Settled, Clear, ExactFrom, LastBlock
<1>9. card' = Quiet => ~card'.on
  BY DEF Quiet
<1> QED BY <1>1, <1>5, <1>6, <1>8, <1>9 DEF SdInv, Asked

LEMMA HwErrorStep == ASSUME SdInv, HwError, UNCHANGED sdVars PROVE SdInv'
<1>1. /\ UNCHANGED <<sd, req, buf, tries, failed, early, gaveUp, cmd, fifo>>
      /\ card.on /\ hsts' = TRUE /\ card' \in {card, Quiet}
  BY DEF HwError, sdVars
<1>2. SdTypeOK'
  BY <1>1 DEF SdInv, SdTypeOK, Transfer
<1>3. card' = card \/ ~card'.on
  BY <1>1 DEF Quiet
<1>4. ASSUME Moving PROVE Moving'
  BY <1>1, <1>3, <1>4 DEF Moving, ExactFrom, InPosition
<1>5. ASSUME ~gaveUp PROVE Known'
  <2>1. Known
    BY <1>5 DEF SdInv
  <2>2. card # Quiet
    BY <1>1 DEF Quiet
  <2> QED BY <1>1, <1>4, <2>1, <2>2 DEF Known, Settled, Clear, ExactFrom, LastBlock
<1> QED BY <1>1, <1>2, <1>3, <1>5 DEF SdInv, Asked

LEMMA SdHardwareStep == ASSUME SdInv, SdHardware PROVE SdInv'
BY HwCommandStep, HwWordStep, HwBlockEndStep, HwErrorStep DEF SdHardware

-----------------------------------------------------------------------------
(* The driver *)

LEMMA EmptyBuffer ==
  ExactFrom(<<>>, 0) /\ Len(<<>>) = 0 /\ <<>> \in Seq(CardWord \cup {Junk})
  /\ \A i \in DOMAIN <<>> : FALSE
BY DEF ExactFrom

LEMMA WordsOf == ASSUME SdTypeOK PROVE req.count * BlockWords \in Nat
<1>1. req.count \in Nat /\ BlockWords \in Nat
  BY SdAssumption DEF SdTypeOK, Request, NoRequest
<1> QED BY <1>1

LEMMA StartReadStep ==
  ASSUME SdInv, NEW r \in Request, NEW n \in 1 .. Retries, StartRead(r, n)
  PROVE  SdInv'
<1>1. /\ UNCHANGED <<cmd, card, fifo, hsts, gaveUp>>
      /\ sd = "idle" /\ sd' = "wait" /\ req' = r /\ tries' = n - 1
      /\ buf' = <<>> /\ failed' = FALSE /\ early' = FALSE
  BY DEF StartRead, hwVars
<1>2. tries' \in 0 .. Retries /\ Len(buf') = 0
  BY <1>1, SdAssumption
<1>3. r.count * BlockWords \in Nat
  <2>1. r.count \in Nat /\ BlockWords \in Nat
    BY SdAssumption DEF Request
  <2> QED BY <2>1
<1>4. SdTypeOK'
  <2>1. Len(buf') <= req'.count * BlockWords
    BY <1>1, <1>2, <1>3
  <2> QED BY <1>1, <1>2, <2>1, EmptyBuffer DEF SdInv, SdTypeOK
<1> QED BY <1>1, <1>4, EmptyBuffer DEF SdInv, Asked, Known, Settled, Clear, ExactFrom, LastBlock

LEMMA ForgetStep == ASSUME SdInv, sd = "idle", Forget PROVE SdInv'
<1>1. /\ UNCHANGED <<cmd, card, fifo, hsts, sd, gaveUp>>
      /\ req' = NoRequest /\ tries' = 0
      /\ buf' = <<>> /\ failed' = FALSE /\ early' = FALSE
  BY DEF Forget, hwVars
<1>2. tries' \in 0 .. Retries /\ Len(buf') = req'.count * BlockWords
  BY <1>1, SdAssumption DEF NoRequest
<1>3. SdTypeOK'
  <2>1. Len(buf') <= req'.count * BlockWords
    BY <1>1, <1>2, EmptyBuffer
  <2> QED BY <1>1, <1>2, <2>1, EmptyBuffer DEF SdInv, SdTypeOK
<1> QED BY <1>1, <1>2, <1>3, EmptyBuffer
        DEF SdInv, Asked, Known, Settled, Clear, ExactFrom, LastBlock

LEMMA DrainWaitStep == ASSUME SdInv, DrainWait PROVE SdInv'
<1>1. /\ UNCHANGED <<cmd, card, fifo, hsts, req, buf, tries, failed, early>>
      /\ sd = "wait" /\ sd' = "drain" /\ gaveUp' = (gaveUp \/ cmd # Idle)
  BY DEF DrainWait, Waited, hwVars
<1>2. SdTypeOK'
  BY <1>1 DEF SdInv, SdTypeOK
<1>3. Stop # Idle
  BY DEF Stop, Idle
<1> QED BY <1>1, <1>2, <1>3 DEF SdInv, Asked, Known, Settled, Clear, ExactFrom, LastBlock

LEMMA DrainFifoStep == ASSUME SdInv, DrainFifo PROVE SdInv'
<1>1. /\ UNCHANGED <<cmd, card, hsts, req, buf, tries, failed, early, gaveUp>>
      /\ sd = "drain"
      /\ \/ fifo = <<>> /\ sd' = "command" /\ fifo' = fifo
         \/ fifo # <<>> /\ sd' = sd /\ fifo' = Tail(fifo)
  BY DEF DrainFifo
<1>2. SdTypeOK'
  <2>1. fifo' \in Seq(CardWord \cup {Junk})
    BY <1>1 DEF SdInv, SdTypeOK
  <2>2. sd' \in {"drain", "command"}
    BY <1>1
  <2> QED BY <1>1, <2>1, <2>2 DEF SdInv, SdTypeOK
<1> QED BY <1>1, <1>2 DEF SdInv, Asked, Known, Settled, Clear, ExactFrom, LastBlock

LEMMA SendReadStep == ASSUME SdInv, SendRead PROVE SdInv'
<1>1. /\ UNCHANGED <<card, fifo, req, buf, tries, failed, early>>
      /\ sd = "command" /\ sd' = "answer" /\ gaveUp' = (gaveUp \/ cmd # Idle)
      /\ hsts' = FALSE /\ cmd' \in {cmd, ReadCmd(req)} /\ (cmd = Idle => cmd' = ReadCmd(req))
  BY DEF SendRead, SendRaw, Waited
<1>2. ReadCmd(req) \in Command
  BY <1>1 DEF SdInv, Asked, Command
<1>3. SdTypeOK'
  BY <1>1, <1>2 DEF SdInv, SdTypeOK
<1> QED BY <1>1, <1>3 DEF SdInv, Asked, Known, Settled, Clear, ExactFrom, LastBlock

LEMMA ReadAnswerStep == ASSUME SdInv, ReadAnswer PROVE SdInv'
<1>1. /\ UNCHANGED <<cmd, card, fifo, hsts, req, buf, tries, failed, early>>
      /\ sd = "answer" /\ sd' = "data" /\ gaveUp' = (gaveUp \/ cmd # Idle)
  BY DEF ReadAnswer, Waited, hwVars
<1>2. SdTypeOK'
  BY <1>1 DEF SdInv, SdTypeOK
<1>3. ReadCmd(req) # Idle
  <2>1. ReadCmd(req).op = "read" /\ Idle.op = "none"
    BY DEF ReadCmd, Idle
  <2> QED BY <2>1
<1>4. Moving => Moving'
  BY <1>1 DEF Moving, ExactFrom, InPosition, DamageIn
<1> QED BY <1>1, <1>2, <1>3, <1>4 DEF SdInv, Asked, Known, Settled, Clear, ExactFrom, LastBlock

LEMMA ReadEndStep ==
  ASSUME SdInv, ReadError \/ ReadTimeout \/ ReadDone PROVE SdInv'
<1>1. /\ UNCHANGED <<cmd, card, fifo, hsts, req, buf, tries, gaveUp>>
      /\ sd = "data" /\ sd' = "stop" /\ failed' \in BOOLEAN /\ early' \in BOOLEAN
      /\ failed' \/ early' \/ Len(buf) = req.count * BlockWords
  BY DEF ReadError, ReadTimeout, ReadDone, hwVars, SdInv, SdTypeOK
<1>2. SdTypeOK'
  BY <1>1 DEF SdInv, SdTypeOK
<1> QED BY <1>1, <1>2 DEF SdInv, Asked, Known, Settled, Clear, ExactFrom, LastBlock

LEMMA SendStopStep == ASSUME SdInv, SendStop PROVE SdInv'
<1>1. /\ UNCHANGED <<card, fifo, req>>
      /\ sd = "stop" /\ gaveUp' = (gaveUp \/ cmd # Idle)
      /\ hsts' = FALSE /\ cmd' \in {cmd, Stop} /\ (cmd = Idle => cmd' = Stop)
  BY DEF SendStop, SendRaw, Waited
<1>2. \/ /\ sd' = "wait" /\ tries > 0 /\ tries' = tries - 1
         /\ buf' = <<>> /\ failed' = FALSE /\ early' = FALSE
      \/ sd' = "idle" /\ UNCHANGED <<buf, tries, failed, early>>
  BY DEF SendStop, AgainOrReturn
<1>3. Stop \in Command /\ Len(<<>>) = 0
  BY DEF Command
<1>4. tries' \in 0 .. Retries
  BY <1>2, SdAssumption DEF SdInv, SdTypeOK
<1>5. SdTypeOK'
  <2>1. Len(buf') <= req'.count * BlockWords /\ buf' \in Seq(CardWord \cup {Junk})
    <3>1. CASE buf' = <<>>
      <4>1. req.count * BlockWords \in Nat /\ req' = req
        BY <1>1, WordsOf DEF SdInv
      <4> QED BY <3>1, <4>1, EmptyBuffer
    <3>2. CASE buf' = buf
      BY <1>1, <3>2 DEF SdInv, SdTypeOK
    <3> QED BY <1>2, <3>1, <3>2
  <2>2. sd' \in {"wait", "idle"} /\ cmd' \in Command /\ failed' \in BOOLEAN /\ early' \in BOOLEAN
    BY <1>1, <1>2, <1>3 DEF SdInv, SdTypeOK
  <2> QED BY <1>1, <1>4, <2>1, <2>2 DEF SdInv, SdTypeOK
<1> QED BY <1>1, <1>2, <1>5, EmptyBuffer DEF SdInv, Asked, Known, Settled, Clear, ExactFrom, LastBlock

\* The word taken from the FIFO is the next one wanted.
LEMMA ReadWordStep == ASSUME SdInv, ReadWord PROVE SdInv'
<1> USE SdAssumption
<1>1. /\ UNCHANGED <<cmd, card, hsts, sd, req, tries, failed, early, gaveUp>>
      /\ sd = "data" /\ Len(buf) < req.count * BlockWords
      /\ fifo # <<>> /\ ~hsts
      /\ buf' = Append(buf, Head(fifo)) /\ fifo' = Tail(fifo)
  BY DEF ReadWord
<1>2. fifo \in Seq(CardWord \cup {Junk}) /\ buf \in Seq(CardWord \cup {Junk})
  BY DEF SdInv, SdTypeOK
<1>3. /\ Len(fifo) \in Nat \ {0} /\ Len(buf) \in Nat
      /\ Head(fifo) = fifo[1] /\ fifo[1] \in CardWord \cup {Junk}
  BY <1>1, <1>2
<1>4. /\ buf' \in Seq(CardWord \cup {Junk}) /\ fifo' \in Seq(CardWord \cup {Junk})
      /\ Len(buf') = Len(buf) + 1 /\ Len(fifo') = Len(fifo) - 1
      /\ DOMAIN buf = 1 .. Len(buf) /\ DOMAIN buf' = 1 .. Len(buf) + 1
      /\ DOMAIN fifo = 1 .. Len(fifo) /\ DOMAIN fifo' = 1 .. Len(fifo) - 1
      /\ \A i \in DOMAIN buf : buf'[i] = buf[i]
      /\ buf'[Len(buf) + 1] = fifo[1]
      /\ \A i \in DOMAIN fifo' : fifo'[i] = fifo[i + 1]
  BY <1>1, <1>2, <1>3
<1>5. SdTypeOK'
  <2>1. req.count * BlockWords \in Nat
    BY WordsOf DEF SdInv
  <2>2. Len(buf') <= req'.count * BlockWords
    BY <1>1, <1>3, <1>4, <2>1
  <2> QED BY <1>1, <1>4, <2>2 DEF SdInv, SdTypeOK
<1>6. ASSUME ~gaveUp PROVE Known'
  <2>1. cmd = Idle /\ Moving /\ ExactFrom(buf, 0) /\ req \in Request
    BY <1>1, <1>6 DEF SdInv, Known, Asked
  <2>2. ExactFrom(buf, 0)'
    <3> SUFFICES ASSUME NEW i \in DOMAIN buf'
                 PROVE  buf'[i] \in CardWord /\ Place(buf'[i]) = Wanted(req, 0 + i)
      BY <1>1 DEF ExactFrom
    <3>1. CASE i \in DOMAIN buf
      BY <1>4, <2>1, <3>1 DEF ExactFrom
    <3>2. CASE i = Len(buf) + 1
      <4>1. 1 \in DOMAIN fifo /\ Len(buf) + 1 = 0 + i
        BY <1>3, <1>4, <3>2
      <4> QED BY <1>4, <2>1, <3>2, <4>1 DEF Moving, ExactFrom
    <3> QED BY <1>3, <1>4, <3>1, <3>2
  <2>3. ExactFrom(fifo, Len(buf))'
    <3> SUFFICES ASSUME NEW i \in DOMAIN fifo'
                 PROVE  fifo'[i] \in CardWord /\ Place(fifo'[i]) = Wanted(req, Len(buf') + i)
      BY <1>1 DEF ExactFrom
    <3>0. i \in 1 .. Len(fifo) - 1
      BY <1>4
    <3>1. i + 1 \in DOMAIN fifo /\ Len(buf') + i = Len(buf) + (i + 1)
      <4>1. i \in Int /\ 1 <= i /\ i <= Len(fifo) - 1 /\ Len(fifo) \in Int /\ Len(buf) \in Int
        BY <1>3, <3>0
      <4>2. Len(buf') = Len(buf) + 1 /\ DOMAIN fifo = 1 .. Len(fifo)
        BY <1>4
      <4>3. i + 1 \in 1 .. Len(fifo) /\ (Len(buf) + 1) + i = Len(buf) + (i + 1)
        BY <4>1
      <4> QED BY <4>2, <4>3
    <3> QED BY <1>4, <2>1, <3>1 DEF Moving, ExactFrom
  <2> DEFINE n == Len(buf) + Len(fifo)
  <2>4. Len(buf') + Len(fifo') = n /\ n \in Nat \ {0} /\ Len(buf') <= n /\ Len(buf') \in Nat \ {0}
    BY <1>3, <1>4
  <2>5. InPosition'
    BY <1>1, <2>1, <2>4 DEF Moving, InPosition
  <2>6. DamageIn(buf) /\ DamageIn(fifo)
    BY <1>1, <2>1 DEF Moving
  <2>7. DamageIn(fifo)'
    <3> SUFFICES ASSUME NEW i \in DOMAIN fifo', ~fifo'[i].good
                 PROVE  card.on /\ card.damaged /\ fifo'[i].block = card.block
      BY <1>1 DEF DamageIn
    <3>1. i + 1 \in DOMAIN fifo
      BY <1>3, <1>4
    <3> QED BY <1>4, <2>6, <3>1 DEF DamageIn
  <2>8. DamageIn(buf)'
    <3> SUFFICES ASSUME NEW i \in DOMAIN buf', ~buf'[i].good
                 PROVE  card.on /\ card.damaged /\ buf'[i].block = card.block
      BY <1>1 DEF DamageIn
    <3>1. CASE i \in DOMAIN buf
      BY <1>4, <2>6, <3>1 DEF DamageIn
    <3>2. CASE i = Len(buf) + 1
      <4>1. 1 \in DOMAIN fifo
        BY <1>3, <1>4
      <4> QED BY <1>4, <2>6, <3>2, <4>1 DEF DamageIn
    <3> QED BY <1>3, <1>4, <3>1, <3>2
  <2>9. LastBlock'
    <3> DEFINE last == buf'[Len(buf')]
    <3> SUFFICES ASSUME NEW i \in DOMAIN buf', ~buf'[i].good
                 PROVE  buf'[i].block = last.block
      BY DEF LastBlock
    <3>1. card.on /\ buf'[i].block = card.block
      BY <1>1, <2>8 DEF DamageIn
    <3>2. i \in Nat \ {0} /\ i <= Len(buf') /\ Len(buf') \in DOMAIN buf'
      BY <1>3, <1>4
    <3>3. buf'[i].block = Wanted(req, i).block /\ last.block = Wanted(req, Len(buf')).block
      <4>1. \A j \in DOMAIN buf' : Place(buf'[j]) = Wanted(req, j)
        <5> SUFFICES ASSUME NEW j \in DOMAIN buf' PROVE Place(buf'[j]) = Wanted(req, j)
          OBVIOUS
        <5>1. 0 + j = j
          BY <1>3, <1>4
        <5> QED BY <1>1, <2>2, <5>1 DEF ExactFrom
      <4>2. \A w : Place(w).block = w.block
        BY DEF Place
      <4> HIDE DEF last
      <4>3. Place(buf'[i]).block = Wanted(req, i).block
        BY <4>1
      <4>4. Place(last).block = Wanted(req, Len(buf')).block
        BY <3>2, <4>1 DEF last
      <4> QED BY <4>2, <4>3, <4>4
    <3>4. Wanted(req, n).block <= card.block
      <4>1. card.block \in Int /\ card.at \in Int
        BY <3>1, TransferIs DEF SdInv
      <4>2. CASE card.at <= BlockWords
        <5>1. Wanted(req, n + 1).block = card.block
          BY <2>1, <3>1, <4>2 DEF Moving, InPosition
        <5>2. n + 1 \in Nat \ {0} /\ n <= n + 1
          BY <2>4
        <5> QED BY <2>1, <2>4, <5>1, <5>2, WantedOrder
      <4>3. CASE card.at > BlockWords
        <5>1. Wanted(req, n).block = card.block
          BY <2>1, <3>1, <4>3 DEF Moving, InPosition
        <5> QED BY <4>1, <5>1
      <4> QED BY <4>1, <4>2, <4>3
    <3>5. /\ Wanted(req, i).block \in Int /\ Wanted(req, Len(buf')).block \in Int
          /\ Wanted(req, i).block <= Wanted(req, Len(buf')).block
      BY <2>1, <2>4, <3>2, WantedOrder
    <3>6. /\ Wanted(req, n).block \in Int
          /\ Wanted(req, Len(buf')).block <= Wanted(req, n).block
      BY <2>1, <2>4, WantedOrder
    <3> QED BY <3>1, <3>3, <3>4, <3>5, <3>6
  <2> QED BY <1>1, <2>1, <2>2, <2>3, <2>5, <2>7, <2>8, <2>9 DEF Known, Moving
<1> QED BY <1>1, <1>5, <1>6 DEF SdInv, Asked

LEMMA SdDriverStep == ASSUME SdInv, SdDriver PROVE SdInv'
BY DrainWaitStep, DrainFifoStep, SendReadStep, ReadAnswerStep, ReadWordStep, ReadEndStep,
   SendStopStep DEF SdDriver

-----------------------------------------------------------------------------
(* Stage 1 *)

StageInv ==
  /\ StageTypeOK /\ SdInv
  /\ sd # "idle" => pc \in {"flush", "mbr", "mount", "header", "segments", "hung",
                             "halted"}
  /\ pc \in {"init", "flush", "mbr", "entry", "spi", "wait", "take", "try", "mount"} => root = None
  /\ pc \in {"mount", "header", "segments"} => device \in Disk
  /\ pc = "segments" /\ ~flaw => elf[device] \in {"ok", "noload"}
  /\ StartsWhole

LEMMA SameCard == SdInv /\ UNCHANGED <<hwVars, sdVars>> => SdInv'
BY DEF SdInv, SdTypeOK, Asked, Known, Settled, Clear, Moving, ExactFrom, InPosition, DamageIn,
       LastBlock, hwVars, sdVars

\* What is read of the card is a request.
LEMMA Requests == {Mbr, SuperBlock, Header, Segments} \subseteq Request
BY CardAssumption, SdAssumption DEF Mbr, SuperBlock, Header, Segments, Request

LEMMA KindOf == ASSUME StageTypeOK, device \in Target PROVE elf[device] \in Kind
<1>1. [builtin |-> builtin, elf |-> elf] \in [builtin : SUBSET Target, elf : [Target -> Kind]]
  BY SetupAssumption DEF StageTypeOK
<1>2. elf \in [Target -> Kind]
  BY <1>1
<1> QED BY <1>2

\* A read that returned, in which nothing went wrong, noticed or not, has all the
\* words that are on the card.
LEMMA WholeRead ==
  ASSUME SdInv, sd = "idle", device = Sd, ~ReadFails, ~Unnoticed PROVE Whole
<1>1. ~failed /\ ~early /\ ~gaveUp /\ \A i \in DOMAIN buf : buf[i] # Junk /\ buf[i].good
  BY DEF ReadFails, Unnoticed
<1>2. Known
  BY <1>1 DEF SdInv
<1>3. buf \in Seq(CardWord \cup {Junk})
  BY DEF SdInv, SdTypeOK
<1>4. \A i \in DOMAIN buf : 0 + i = i
  BY <1>3
<1>5. Len(buf) = req.count * BlockWords
  BY <1>1, <1>2 DEF Known
<1> QED BY <1>1, <1>2, <1>4, <1>5 DEF Known, ExactFrom, Whole

LEMMA ShowsIs ==
  ASSUME SdInv, sd = "idle", ~ReadFails, ~Unnoticed, NEW K, Shows(K) PROVE elf[device] \in K
BY WholeRead DEF Shows

\* A read of try_sd_boot starts.
LEMMA ReadStep ==
  ASSUME SdInv, sd = "idle", NEW r \in {Mbr, SuperBlock, Header, Segments}, Read(r)
  PROVE  SdInv'
<1>1. CASE device = Sd
  <2>1. Retries \in 1 .. Retries /\ r \in Request
    BY SdAssumption, Requests
  <2> QED BY <1>1, <2>1, StartReadStep DEF Read
<1>2. CASE device # Sd
  BY <1>2, SameCard DEF Read
<1> QED BY <1>1, <1>2

\* The steps of the USB disk keep its types, and a partition found is a target.
LEMMA DiskTypes ==
  ASSUME UsbTypeOK,
         \/ (\E b \in BOOLEAN : DiskIn(b)) \/ DiskOut
         \/ (\E i \in 1 .. MaxPlugs : ReadTable(i) \/ PartAdded(i))
         \/ (UNCHANGED diskVars /\ held' \in BOOLEAN) \/ UNCHANGED usbVars
  PROVE  UsbTypeOK'
<1>0. CASE DiskOut
  BY <1>0 DEF UsbTypeOK, DiskOut
<1>1. CASE \E b \in BOOLEAN : DiskIn(b)
  BY <1>1, UsbAssumption DEF UsbTypeOK, DiskIn
<1>2. ASSUME NEW i \in 1 .. MaxPlugs, ReadTable(i) PROVE UsbTypeOK'
  BY <1>2 DEF UsbTypeOK, ReadTable
<1>3. ASSUME NEW i \in 1 .. MaxPlugs, PartAdded(i) PROVE UsbTypeOK'
  <2>1. probed[i] + 1 \in 0 .. Len(UsbParts)
    BY <1>3, UsbAssumption DEF UsbTypeOK, PartAdded
  <2> QED BY <1>3, <2>1 DEF UsbTypeOK, PartAdded
<1>4. CASE (UNCHANGED diskVars /\ held' \in BOOLEAN) \/ UNCHANGED usbVars
  BY <1>4 DEF UsbTypeOK, usbVars, diskVars
<1> QED BY <1>0, <1>1, <1>2, <1>3, <1>4

LEMMA PartFound ==
  ASSUME UsbTypeOK, NEW i \in 1 .. MaxPlugs, PartAdded(i)
  PROVE  NextPart(i) \in Target
<1>1. probed[i] + 1 \in 1 .. Len(UsbParts)
  BY UsbAssumption DEF UsbTypeOK, PartAdded
<1> QED BY <1>1, UsbAssumption DEF NextPart, Target, Disk

LEMMA StageInitOK == Init => StageInv
<1> SUFFICES ASSUME Init PROVE StageInv
  OBVIOUS
<1> USE SdAssumption, BoundAssumption DEF Init, QueueInit, SdInit
<1>1. SdTypeOK
  <2>1. Len(buf) <= req.count * BlockWords
    BY DEF NoRequest
  <2>2. cmd \in Command /\ card \in Transfer /\ fifo \in Seq(CardWord \cup {Junk})
        /\ buf \in Seq(CardWord \cup {Junk})
    BY EmptyBuffer DEF Command, Transfer
  <2>3. tries \in 0 .. Retries /\ req \in Request \cup {NoRequest}
    OBVIOUS
  <2> QED BY <2>1, <2>2, <2>3 DEF SdTypeOK
<1>2. SdInv
  BY <1>1, EmptyBuffer
     DEF SdInv, Asked, Known, Settled, Clear, ExactFrom, LastBlock, Quiet, NoRequest
<1>3. StageTypeOK
  <2>1. [builtin |-> builtin, elf |-> elf] \in Setups
    <3>1. PICK s \in Setups : builtin = s.builtin /\ elf = s.elf
      OBVIOUS
    <3>2. s = [builtin |-> s.builtin, elf |-> s.elf]
      BY <3>1, SetupAssumption
    <3> QED BY <3>1, <3>2
  <2>3. UsbTypeOK
    <3>1. 0 \in 0 .. Len(UsbParts) /\ 0 \in 0 .. MaxPlugs
      BY UsbAssumption
    <3> QED BY <3>1 DEF UsbInit, UsbTypeOK
  <2>4. pending_devices \in Seq(Target) /\ nonempty \in BOOLEAN
    <3>1. pending_devices = <<>> /\ nonempty = FALSE
      OBVIOUS
    <3>2. <<>> \in Seq(Target)
      OBVIOUS
    <3>3. FALSE \in BOOLEAN
      OBVIOUS
    <3> QED BY ONLY <3>1, <3>2, <3>3
  <2>5. /\ leases \in 0 .. MaxLeases /\ heap \in 0 .. Heap /\ clients \in 0 .. Clients
        /\ flushes \in 0 .. 3
    OBVIOUS
  <2>6. pc \in StagePc /\ device \in Target \cup {None} /\ root \in Disk \cup {None}
    BY DEF StagePc
  <2> QED BY <1>1, <2>1, <2>3, <2>4, <2>5, <2>6 DEF StageTypeOK
<1> QED BY <1>2, <1>3 DEF StageInv, StartsWhole

LEMMA AddTyped ==
  ASSUME StageTypeOK, NEW t \in Target, AddBootTarget(t)
  PROVE  pending_devices' \in Seq(Target) /\ nonempty' \in BOOLEAN
BY DEF AddBootTarget, StageTypeOK

LEMMA WorldStep ==
  ASSUME StageInv,
         \/ Plug \/ Unplug \/ NicStatus \/ NetifDown
         \/ \E i \in 1 .. MaxPlugs : Probe(i) \/ MsdProbed(i)
  PROVE  StageInv'
<1> USE BoundAssumption
<1>1. /\ UNCHANGED <<hwVars, sdVars, setup, tryVars>>
      /\ up' \in BOOLEAN /\ leases' \in 0 .. MaxLeases
      /\ Running /\ pc' \in {pc, "halted"}
  <2>1. up \in BOOLEAN /\ leases \in 0 .. MaxLeases
    BY DEF StageInv, StageTypeOK
  <2>2. CASE NicStatus
    BY <2>1, <2>2 DEF NicStatus
  <2>5. CASE NetifDown
    BY <2>1, <2>5 DEF NetifDown
  <2>3. CASE Plug
    BY <2>1, <2>3 DEF Plug, netVars
  <2>4. CASE Unplug \/ \E i \in 1 .. MaxPlugs : Probe(i) \/ MsdProbed(i)
    BY <2>1, <2>4 DEF Unplug, Probe, MsdProbed, netVars
  <2> QED BY <2>2, <2>3, <2>4, <2>5
<1>2. SdInv'
  BY <1>1, SameCard DEF StageInv
<1>3. pending_devices' \in Seq(Target) /\ nonempty' \in BOOLEAN
  <2>1. CASE NicStatus
    BY <2>1, AddTyped DEF NicStatus, Target, StageInv
  <2>2. ASSUME NEW i \in 1 .. MaxPlugs, MsdProbed(i)
        PROVE  pending_devices' \in Seq(Target) /\ nonempty' \in BOOLEAN
    <3>1. NextPart(i) \in Target
      BY <2>2, PartFound DEF MsdProbed, StageInv, StageTypeOK
    <3> QED BY <2>2, <3>1, AddTyped DEF MsdProbed, StageInv
  <2>3. CASE Plug \/ Unplug \/ NetifDown \/ \E i \in 1 .. MaxPlugs : Probe(i)
    BY <2>3 DEF Plug, Unplug, NetifDown, Probe, queueVars, StageInv, StageTypeOK
  <2> QED BY <2>1, <2>2, <2>3
<1>4. UsbTypeOK'
  <2>1. \/ (\E b \in BOOLEAN : DiskIn(b)) \/ DiskOut
        \/ (\E i \in 1 .. MaxPlugs : ReadTable(i) \/ PartAdded(i))
        \/ UNCHANGED usbVars
    BY DEF Plug, Unplug, NicStatus, NetifDown, Probe, MsdProbed
  <2> QED BY <2>1, DiskTypes DEF StageInv, StageTypeOK
<1>5. StageTypeOK'
  BY <1>1, <1>2, <1>3, <1>4 DEF StageInv, StageTypeOK, SdInv, StagePc, setup, tryVars, memVars
<1> QED BY <1>1, <1>2, <1>5
        DEF StageInv, StartsWhole, ReadFails, setup, tryVars, memVars, sdVars, Running

LEMMA CardStep == ASSUME StageInv, Hardware \/ Driver PROVE StageInv'
<1>1. UNCHANGED <<queueVars, stageVars>>
  BY DEF Hardware, Driver
<1>2. SdInv'
  BY SdHardwareStep, SdDriverStep DEF Hardware, Driver, StageInv
<1>3. StageTypeOK'
  BY <1>1, <1>2, DiskTypes DEF StageInv, StageTypeOK, SdInv, queueVars, stageVars, others, setup,
     netVars, tryVars, memVars
<1>4. CASE Hardware
  BY <1>1, <1>2, <1>3, <1>4
     DEF Hardware, SdHardware, StageInv, StartsWhole, ReadFails, stageVars, others, setup, tryVars,
         sdVars
<1>5. CASE Driver
  <2>1. sd # "idle"
    BY <1>5 DEF Driver, SdDriver, DrainWait, DrainFifo, SendRead, ReadAnswer, ReadWord, ReadError,
                ReadTimeout, ReadDone, SendStop
  <2> QED BY <1>1, <1>2, <1>3, <2>1 DEF StageInv, StartsWhole, stageVars, others,
     setup, tryVars
<1> QED BY <1>4, <1>5

LEMMA StartUpStep == ASSUME StageInv, RestartController \/ FlushFifo \/ PartitionPublish PROVE StageInv'
<1> USE SdAssumption
<1>1. UNCHANGED <<queueVars, setup, usbVars, netVars, device, root, memVars, flaw>>
  BY DEF RestartController, FlushFifo, PartitionPublish, others, tryVars
<1>2. CASE RestartController
  <2>1. /\ pc = "init" /\ pc' \in {"flush", "entry", "stuck"} /\ sd = "idle"
        /\ UNCHANGED <<cmd, card, sdVars, published, flushes>>
        /\ fifo' \in {fifo, <<>>, <<Junk>>} /\ hsts' \in BOOLEAN
    BY <1>2 DEF RestartController, StageInv, StageTypeOK, SdTypeOK, tryVars
  <2>2. fifo' \in Seq(CardWord \cup {Junk})
    <3>1. Junk \in CardWord \cup {Junk}
      OBVIOUS
    <3>2. <<Junk>> \in Seq(CardWord \cup {Junk})
      BY <3>1
    <3> QED BY <2>1, <3>2, EmptyBuffer DEF StageInv, SdInv, SdTypeOK
  <2>3. SdTypeOK'
    BY <2>1, <2>2 DEF StageInv, SdInv, SdTypeOK, sdVars
  <2>4. SdInv'
    BY <2>1, <2>3 DEF StageInv, SdInv, Asked, Known, Settled, Clear, ExactFrom, LastBlock, sdVars
  <2>5. StageTypeOK'
    BY <1>1, <2>1, <2>3, DiskTypes DEF StageInv, StageTypeOK, StagePc, queueVars, setup, netVars,
       memVars
  <2> QED BY <1>1, <2>1, <2>4, <2>5 DEF StageInv, StartsWhole, sdVars
<1>3. CASE FlushFifo
  <2>1. /\ pc = "flush" /\ pc' \in {"flush", "mbr", "panic"} /\ sd = "idle" /\ UNCHANGED published
        /\ flushes' \in 0 .. 3 /\ (pc' = "panic" => sd' = "idle")
    BY <1>3 DEF FlushFifo, StageInv, StageTypeOK, sdVars
  <2>2. SdInv'
    <3>1. 1 \in 1 .. Retries /\ Retries \in 1 .. Retries /\ Mbr \in Request /\ SdInv
      BY Requests DEF StageInv
    <3>2. \/ StartRead(Mbr, 1) \/ StartRead(Mbr, Retries) \/ UNCHANGED <<hwVars, sdVars>>
      BY <1>3 DEF FlushFifo
    <3> QED BY <3>1, <3>2, StartReadStep, SameCard
  <2>3. StageTypeOK'
    BY <1>1, <2>1, <2>2, DiskTypes DEF StageInv, StageTypeOK, SdInv, StagePc, queueVars, setup,
       netVars, memVars
  <2> QED BY <1>1, <2>1, <2>2, <2>3 DEF StageInv, StartsWhole
<1>4. CASE PartitionPublish
  <2>1. /\ pc = "mbr" /\ pc' = "entry" /\ sd = "idle" /\ sd' = sd /\ UNCHANGED flushes
        /\ published' \in BOOLEAN /\ Forget
    BY <1>4 DEF PartitionPublish, Forget
  <2>2. SdInv'
    BY <2>1, ForgetStep DEF StageInv
  <2>3. StageTypeOK'
    BY <1>1, <2>1, <2>2, DiskTypes DEF StageInv, StageTypeOK, SdInv, StagePc, queueVars, setup,
       netVars, memVars
  <2> QED BY <1>1, <2>1, <2>2, <2>3 DEF StageInv, StartsWhole
<1> QED BY <1>2, <1>3, <1>4

LEMMA QueueStep ==
  ASSUME StageInv, Entry \/ EntrySpi \/ Wait \/ Take \/ TryNetwork \/ TrySpi PROVE StageInv'
<1>1. UNCHANGED <<hwVars, sdVars, setup, usbVars, netVars, published, root, flushes>>
  BY DEF Entry, EntrySpi, Wait, Take, TryNetwork, TrySpi, others, tryVars
<1>2. SdInv'
  BY <1>1, SameCard DEF StageInv
<1>3. /\ pc \in {"entry", "spi", "wait", "take", "try"}
      /\ pc' \in {"spi", "wait", "take", "try", "panic", "stage2", "null"}
      /\ pc' = "stage2" => device' # Network /\ elf[device'] = "ok"
      /\ pc' = "null" => elf[device'] = "noload"
  <2>1. CASE TrySpi
    <3>1. elf[Spi] \in Kind /\ device = Spi /\ Spi # Network /\ device' = device
      BY <2>1, KindOf, TargetAssumption DEF TrySpi, Target, StageInv, tryVars
    <3> QED BY <2>1, <3>1 DEF TrySpi, Kind
  <2>2. CASE Entry \/ EntrySpi \/ Wait
    BY <2>2 DEF Entry, EntrySpi, Wait
  <2>3. CASE Take
    BY <2>3 DEF Take
  <2>4. CASE TryNetwork
    BY <2>4 DEF TryNetwork, DownloadFails
  <2> QED BY <2>1, <2>2, <2>3, <2>4
<1>4. pending_devices' \in Seq(Target) /\ nonempty' \in BOOLEAN /\ device' \in Target \cup {None}
      /\ flaw' \in BOOLEAN
  <2>1. /\ pending_devices \in Seq(Target) /\ nonempty \in BOOLEAN /\ device \in Target \cup {None}
        /\ flaw \in BOOLEAN
    BY DEF StageInv, StageTypeOK
  <2>2. CASE Entry \/ EntrySpi
    <3>1. Sd \in Target /\ Spi \in Target
      BY DEF Target, Disk
    <3>2. device' = device /\ flaw' = flaw
      BY <2>2 DEF Entry, EntrySpi, tryVars
    <3>3. pending_devices' \in Seq(Target) /\ nonempty' \in BOOLEAN
      BY <2>2, <3>1, AddTyped DEF Entry, EntrySpi, StageInv
    <3> QED BY <2>1, <3>2, <3>3
  <2>3. CASE Take
    <3>1. CASE pending_devices = <<>>
      BY <2>1, <2>3, <3>1 DEF Take, RemoveHead
    <3>2. CASE pending_devices # <<>>
      <4>1. Head(pending_devices) \in Target /\ Tail(pending_devices) \in Seq(Target)
        BY <2>1, <3>2
      <4> QED BY <2>1, <2>3, <3>2, <4>1 DEF Take, RemoveHead
    <3> QED BY <3>1, <3>2
  <2>4. CASE Wait \/ TryNetwork \/ TrySpi
    BY <2>1, <2>4 DEF Wait, TryNetwork, TrySpi, queueVars, tryVars
  <2> QED BY <2>2, <2>3, <2>4
<1>5. heap' \in 0 .. Heap /\ clients' \in 0 .. Clients
  <2>1. heap \in 0 .. Heap /\ Heap \in Nat /\ clients \in 0 .. Clients /\ Clients \in Nat
    BY BoundAssumption DEF StageInv, StageTypeOK
  <2>2. heap' = heap \/ (heap > 0 /\ heap' = heap - 1)
    BY <2>1 DEF Entry, EntrySpi, Wait, Take, TryNetwork, DownloadFails, Downloaded, TrySpi,
                tryVars, memVars
  <2>3. clients' = clients \/ (clients > 0 /\ clients' = clients - 1)
    BY <2>1 DEF Entry, EntrySpi, Wait, Take, TryNetwork, DownloadFails, Downloaded, TrySpi,
                tryVars, memVars
  <2> QED BY <2>1, <2>2, <2>3
<1>6. StageTypeOK'
  BY <1>1, <1>2, <1>3, <1>4, <1>5, DiskTypes DEF StageInv, StageTypeOK, SdInv, StagePc, setup,
     netVars
<1>7. elf' = elf /\ sd' = sd /\ root' = root
  BY <1>1 DEF sdVars, setup
<1>8. StartsWhole'
  <2>1. elf'[device'] = elf[device']
    BY <1>7
  <2>2. pc' = "stage2" => device' # Network /\ elf'[device'] = "ok"
    BY <1>3, <2>1
  <2>3. pc' = "null" => elf'[device'] = "noload"
    BY <1>3, <2>1
  <2> QED BY <2>2, <2>3 DEF StartsWhole
<1>9. /\ sd = "idle" /\ root = None
  BY <1>3 DEF StageInv
<1>10. pc' \notin {"mount", "header", "segments"}
  BY <1>3
<1> QED BY <1>2, <1>6, <1>7, <1>8, <1>9, <1>10 DEF StageInv

LEMMA BootStep ==
  ASSUME StageInv, Mount \/ Mounted \/ ElfOpened \/ ChainLoad \/ DiskHangs \/ Unmount
  PROVE  StageInv'
<1>1. /\ UNCHANGED <<queueVars, setup, netVars, published, device, memVars, flushes>>
      /\ UNCHANGED usbVars \/ (UNCHANGED diskVars /\ held' \in BOOLEAN)
  BY DEF Mount, Mounted, ElfOpened, ChainLoad, DiskHangs, Unmount, others, tryVars
<1>2. elf' = elf /\ elf'[device'] = elf[device]
  BY <1>1 DEF setup
<1>3. SdInv /\ StageTypeOK
  BY DEF StageInv
<1>4. ASSUME SdInv', pc' \in StagePc, root' \in Disk \cup {None}, flaw' \in BOOLEAN PROVE StageTypeOK'
  BY <1>1, <1>3, <1>4, DiskTypes DEF StageTypeOK, SdInv, queueVars, setup, netVars, memVars
<1>5. Disk \subseteq Target /\ Network \notin Disk /\ Spi \notin Disk
  BY TargetAssumption DEF Target, Disk
<1>6. ASSUME pc \in {"mount", "header", "segments"}
      PROVE  device \in Disk /\ device # Network /\ elf[device] \in Kind
  BY <1>3, <1>5, <1>6, KindOf DEF StageInv
<1>7. ASSUME sd = "idle", flaw' = (flaw \/ (~ReadFails /\ Unnoticed)), ~flaw', ~ReadFails
      PROVE  ~flaw /\ \A K \in SUBSET Kind : Shows(K) => elf[device] \in K
  BY <1>3, <1>7, ShowsIs
<1>8. CASE Mount
  <2>1. /\ pc = "try" /\ device \in Disk /\ sd = "idle" /\ root = None
        /\ UNCHANGED <<root, flaw>>
        /\ \/ pc' = "mount" /\ Read(SuperBlock)
           \/ pc' = "wait" /\ UNCHANGED <<hwVars, sdVars>>
    BY <1>8 DEF Mount, StageInv, tryVars
  <2>2. SdInv' /\ (pc' = "wait" => sd' = "idle")
    BY <1>3, <2>1, ReadStep, SameCard DEF sdVars
  <2>3. StageTypeOK'
    BY <1>3, <1>4, <2>1, <2>2 DEF StagePc, StageTypeOK
  <2> QED BY <1>1, <2>1, <2>2, <2>3 DEF StageInv, StartsWhole
<1>9. CASE Mounted
  <2>1. /\ pc = "mount" /\ sd = "idle" /\ flaw' \in BOOLEAN
        /\ \/ pc' = "wait" /\ Forget /\ root' = root
           \/ pc' = "header" /\ root' = device /\ Read(Header)
    BY <1>3, <1>9 DEF Mounted, StageTypeOK, ReadFails, Unnoticed
  <2>2. SdInv' /\ (pc' = "wait" => sd' = "idle")
    BY <1>3, <2>1, ReadStep, ForgetStep DEF Forget
  <2>3. device \in Disk /\ root = None
    BY <1>6, <2>1 DEF StageInv
  <2>4. StageTypeOK'
    BY <1>3, <1>4, <2>1, <2>2, <2>3 DEF StagePc, StageTypeOK
  <2> QED BY <1>1, <2>1, <2>2, <2>3, <2>4 DEF StageInv, StartsWhole
<1>10. CASE ElfOpened
  <2>1. /\ pc = "header" /\ sd = "idle" /\ flaw' \in BOOLEAN /\ root' = root
        /\ flaw' = (flaw \/ (~ReadFails /\ Unnoticed))
        /\ \/ pc' = "unmount" /\ Forget
           \/ pc' = "segments" /\ Read(Segments) /\ ~ReadFails /\ Shows({"ok", "noload"})
    BY <1>3, <1>10 DEF ElfOpened, StageTypeOK, ReadFails, Unnoticed
  <2>2. SdInv' /\ (pc' = "unmount" => sd' = "idle")
    BY <1>3, <2>1, ReadStep, ForgetStep DEF Forget
  <2>3. device \in Disk
    BY <1>6, <2>1
  <2>4. StageTypeOK'
    BY <1>3, <1>4, <2>1, <2>2 DEF StagePc, StageTypeOK
  <2>5. pc' = "segments" /\ ~flaw' => elf'[device'] \in {"ok", "noload"}
    <3>1. {"ok", "noload"} \in SUBSET Kind
      BY DEF Kind
    <3>2. pc' = "segments" => ~ReadFails /\ Shows({"ok", "noload"})
      BY <2>1
    <3> QED BY <1>2, <1>7, <2>1, <3>1, <3>2
  <2> QED BY <1>1, <2>1, <2>2, <2>3, <2>4, <2>5 DEF StageInv, StartsWhole
<1>11. CASE ChainLoad
  <2>1. /\ pc = "segments" /\ sd = "idle" /\ flaw' \in BOOLEAN
        /\ UNCHANGED <<hwVars, sdVars, root>>
        /\ flaw' = (flaw \/ (~ReadFails /\ Unnoticed))
        /\ \/ pc' = "null" /\ (ReadFails \/ Shows(Kind \ {"ok"}))
           \/ pc' = "stage2" /\ ~ReadFails /\ Shows({"ok"})
    BY <1>3, <1>11 DEF ChainLoad, StageTypeOK, ReadFails, Unnoticed
  <2>2. SdInv' /\ sd' = "idle" /\ (ReadFails => ReadFails')
    BY <1>1, <1>3, <2>1, SameCard DEF sdVars, ReadFails
  <2>3. device # Network /\ (~flaw => elf[device] \in {"ok", "noload"})
    BY <1>6, <2>1 DEF StageInv
  <2>4. StageTypeOK'
    BY <1>3, <1>4, <2>1, <2>2 DEF StagePc, StageTypeOK
  <2>5. ASSUME ~flaw', pc' = "null" PROVE elf'[device'] = "noload" \/ ReadFails'
    <3>1. CASE ReadFails
      BY <2>2, <3>1
    <3>2. CASE ~ReadFails
      <4>1. Kind \ {"ok"} \in SUBSET Kind /\ Shows(Kind \ {"ok"})
        BY <2>1, <2>5, <3>2
      <4>2. ~flaw /\ elf[device] \in Kind \ {"ok"}
        BY <1>7, <2>1, <2>5, <3>2, <4>1
      <4> QED BY <1>2, <2>3, <4>2
    <3> QED BY <3>1, <3>2
  <2>6. ASSUME ~flaw', pc' = "stage2" PROVE device' # Network /\ elf'[device'] = "ok"
    <3>1. {"ok"} \in SUBSET Kind /\ Shows({"ok"}) /\ ~ReadFails
      BY <2>1, <2>6 DEF Kind
    <3>2. elf[device] \in {"ok"}
      BY <1>7, <2>1, <2>6, <3>1
    <3> QED BY <1>1, <1>2, <2>3, <3>2
  <2>7. StartsWhole'
    BY <2>5, <2>6 DEF StartsWhole
  <2> QED BY <2>1, <2>2, <2>4, <2>7 DEF StageInv
<1>12. CASE DiskHangs
  <2>1. /\ pc \in {"try", "mount", "header", "segments"} /\ pc' = "hung"
        /\ UNCHANGED <<hwVars, sdVars, root, flaw>>
    BY <1>12 DEF DiskHangs, tryVars
  <2>2. SdInv'
    BY <1>3, <2>1, SameCard
  <2>3. StageTypeOK'
    BY <1>3, <1>4, <2>1, <2>2 DEF StagePc, StageTypeOK
  <2> QED BY <2>1, <2>2, <2>3 DEF StageInv, StartsWhole
<1>13. CASE Unmount
  <2>1. /\ pc = "unmount" /\ pc' = "wait" /\ root' = None /\ UNCHANGED <<hwVars, sdVars, flaw>>
    BY <1>13 DEF Unmount
  <2>2. SdInv' /\ sd' = "idle"
    BY <1>3, <2>1, SameCard DEF sdVars, StageInv
  <2>3. StageTypeOK'
    BY <1>3, <1>4, <2>1, <2>2 DEF StagePc, StageTypeOK
  <2> QED BY <2>1, <2>2, <2>3 DEF StageInv, StartsWhole
<1> QED BY <1>8, <1>9, <1>10, <1>11, <1>12, <1>13

LEMMA StageStep == StageInv /\ [Next]_vars => StageInv'
<1> SUFFICES ASSUME StageInv, [Next]_vars PROVE StageInv'
  OBVIOUS
<1>1. CASE Next
  BY <1>1, WorldStep, CardStep, StartUpStep, QueueStep, BootStep DEF Next, Loop
<1>2. CASE UNCHANGED vars
  <2>1. SdInv'
    BY <1>2, SameCard DEF vars, StageInv
  <2>2. UsbTypeOK'
    BY <1>2, DiskTypes DEF vars, stageVars, others, StageInv, StageTypeOK
  <2> QED BY <1>2, <2>1, <2>2 DEF StageInv, StageTypeOK, SdInv, StartsWhole, ReadFails, vars, queueVars,
                 sdVars, stageVars, others, setup, netVars, tryVars, memVars
<1> QED BY <1>1, <1>2

LEMMA StageInvariant == Spec => []StageInv
BY StageInitOK, StageStep, PTL DEF Spec

-----------------------------------------------------------------------------

\* Every variable of stage 1 and of the SD driver keeps its type; a request for
\* more blocks than there are, or a word too many in the buffer, would break it.
THEOREM StageTyping == Spec => []StageTypeOK
<1>1. StageInv => StageTypeOK
  BY DEF StageInv
<1> QED BY <1>1, StageInvariant, PTL

\* A read of the SD card hands over the words that were asked for, each at its
\* place, although an attempt starts while the controller may still move data of
\* the one before.
THEOREM ReadsExact == Spec => []ReadIsExact
<1>1. StageInv => ReadIsExact
  <2> SUFFICES ASSUME StageInv, sd = "idle", ~failed, ~gaveUp PROVE ReadIsExact
    BY DEF ReadIsExact
  <2>1. Known /\ buf \in Seq(CardWord \cup {Junk})
    BY DEF StageInv, SdInv, SdTypeOK
  <2>2. \A i \in DOMAIN buf : 0 + i = i
    BY <2>1
  <2>3. \A i \in DOMAIN buf : buf[i] # Junk /\ Place(buf[i]) = Wanted(req, i)
    BY <2>1, <2>2, JunkAssumption DEF Known, ExactFrom
  <2> QED BY <2>1, <2>3 DEF Known, LastBlock, ReadIsExact
<1> QED BY <1>1, StageInvariant, PTL

\* What stage 1 jumps into was read whole, and is a second stage.
THEOREM StartedWhole == Spec => []StartsWhole
<1>1. StageInv => StartsWhole
  BY DEF StageInv
<1> QED BY <1>1, StageInvariant, PTL

\* Nothing is mounted at /root when the loop goes back to the queue, however
\* the attempt before has ended.
THEOREM RootFree == Spec => []RootIsFree
<1>1. StageInv => RootIsFree
  BY DEF StageInv, RootIsFree
<1> QED BY <1>1, StageInvariant, PTL

-----------------------------------------------------------------------------
(* Stage 1 implements AbstractBoot *)

Attempting == {"try", "mount", "header", "segments", "unmount"}

\* The event says whether the queue is empty; a woken stage 1 finds a target;
\* there is a target while one is tried, and none before the first.
TryInv ==
  /\ nonempty <=> pending_devices # <<>>
  /\ pc = "take" => pending_devices # <<>>
  /\ pc \in StartUp => device = None
  /\ pc \in Attempting => device \in Target

LEMMA Places == StageTypeOK => pc \in StartUp \cup {"wait", "take"} \cup Attempting
                                       \cup {"stage2", "null", "panic", "hung", "stuck", "halted"}
BY DEF StageTypeOK, StagePc, StartUp, Attempting

\* A target is added: the queue stays in step with its event.
LEMMA AddingTarget ==
  ASSUME StageTypeOK, NEW t \in Target, AddBootTarget(t)
  PROVE  /\ pending_devices' = Append(pending_devices, t) /\ pending_devices' # <<>>
         /\ nonempty' = TRUE
BY DEF StageTypeOK, AddBootTarget

\* What the steps of an attempt do to the queue and the place.
LEMMA AttemptMoves ==
  ASSUME StageTypeOK,
         \/ TryNetwork \/ TrySpi \/ Mount \/ Mounted \/ ElfOpened \/ ChainLoad
         \/ DiskHangs \/ Unmount
  PROVE  /\ pc \in Attempting /\ UNCHANGED <<queueVars, device>>
         /\ pc' \in Attempting \cup {"wait", "stage2", "null", "panic", "hung"}
<1>1. CASE TryNetwork
  BY <1>1 DEF TryNetwork, DownloadFails, Attempting
<1>2. CASE TrySpi
  <2>1. elf[Spi] \in Kind
    BY <1>2, KindOf DEF TrySpi, Target
  <2> QED BY <1>2, <2>1 DEF TrySpi, Attempting, Kind, tryVars
<1>3. CASE Mount \/ Mounted
  BY <1>3 DEF Mount, Mounted, Attempting, tryVars
<1>4. CASE ElfOpened \/ ChainLoad
  BY <1>4 DEF ElfOpened, ChainLoad, Attempting
<1>5. CASE DiskHangs \/ Unmount
  BY <1>5 DEF DiskHangs, Unmount, Attempting, tryVars
<1> QED BY <1>1, <1>2, <1>3, <1>4, <1>5

\* What the world does: at most a target is found, or the machine halts.
LEMMA WorldFinds ==
  ASSUME StageTypeOK,
         \/ Plug \/ Unplug \/ NicStatus \/ NetifDown
         \/ \E i \in 1 .. MaxPlugs : Probe(i) \/ MsdProbed(i)
  PROVE  /\ Running /\ device' = device
         /\ \/ UNCHANGED <<queueVars, pc>>
            \/ UNCHANGED pc /\ \E t \in Target : AddBootTarget(t)
            \/ UNCHANGED queueVars /\ pc' = "halted"
<1>1. CASE Plug \/ Unplug \/ NetifDown \/ \E i \in 1 .. MaxPlugs : Probe(i)
  BY <1>1 DEF Plug, Unplug, NetifDown, Probe, tryVars
<1>2. CASE NicStatus
  BY <1>2 DEF NicStatus, tryVars, Target
<1>3. ASSUME NEW i \in 1 .. MaxPlugs, MsdProbed(i)
      PROVE  UNCHANGED <<pc, device>> /\ Running /\ \E t \in Target : AddBootTarget(t)
  <2>1. NextPart(i) \in Target
    BY <1>3, PartFound DEF MsdProbed, StageTypeOK
  <2> QED BY <1>3, <2>1 DEF MsdProbed, tryVars
<1> QED BY <1>1, <1>2, <1>3

LEMMA SameTry == TryInv /\ UNCHANGED <<queueVars, pc, device>> => TryInv'
BY DEF TryInv, queueVars

LEMMA TryStep == StageInv /\ TryInv /\ [Next]_vars => TryInv'
<1> SUFFICES ASSUME StageInv, TryInv, [Next]_vars PROVE TryInv'
  OBVIOUS
<1>0. StageTypeOK
  BY DEF StageInv
<1>1. CASE RestartController \/ FlushFifo \/ PartitionPublish
  <2>1. /\ pc \in StartUp /\ pc' \in StartUp \cup {"panic", "stuck"}
        /\ UNCHANGED <<queueVars, device>>
    BY <1>1 DEF RestartController, FlushFifo, PartitionPublish, StartUp, tryVars
  <2> QED BY <2>1 DEF TryInv, queueVars, StartUp, Attempting
<1>2. CASE Entry \/ EntrySpi
  <2>1. /\ pc \in {"entry", "spi"} /\ pc' \in {"spi", "wait"} /\ device' = device
        /\ \E t \in Target : AddBootTarget(t)
    BY <1>2 DEF Entry, EntrySpi, Target, Disk, tryVars
  <2> QED BY <1>0, <2>1, AddingTarget DEF TryInv, StartUp, Attempting
<1>3. CASE Wait
  BY <1>3 DEF Wait, TryInv, queueVars, tryVars, StartUp, Attempting
<1>4. CASE Take
  <2>1. /\ pending_devices # <<>> /\ pc' = "try" /\ device' = Head(pending_devices)
        /\ pending_devices' = Tail(pending_devices)
        /\ nonempty' = (nonempty /\ pending_devices' # <<>>)
    BY <1>4 DEF Take, RemoveHead, TryInv
  <2>2. device' \in Target
    BY <1>0, <2>1 DEF StageTypeOK
  <2> QED BY <2>1, <2>2 DEF TryInv, StartUp
<1>5. CASE TryNetwork \/ TrySpi \/ Mount \/ Mounted \/ ElfOpened \/ ChainLoad
           \/ DiskHangs \/ Unmount
  <2>1. /\ pc \in Attempting /\ UNCHANGED <<queueVars, device>>
        /\ pc' \in Attempting \cup {"wait", "stage2", "null", "panic", "hung"}
    BY <1>0, <1>5, AttemptMoves
  <2> QED BY <2>1 DEF TryInv, queueVars, StartUp, Attempting
<1>6. CASE Driver \/ Hardware \/ UNCHANGED vars
  <2>1. UNCHANGED <<queueVars, pc, device>>
    BY <1>6 DEF Driver, Hardware, vars, stageVars, tryVars
  <2> QED BY <2>1, SameTry
<1>7. CASE \/ Plug \/ Unplug \/ NicStatus \/ NetifDown
           \/ \E i \in 1 .. MaxPlugs : Probe(i) \/ MsdProbed(i)
  <2>1. /\ device' = device
        /\ \/ UNCHANGED <<queueVars, pc>>
           \/ UNCHANGED pc /\ \E t \in Target : AddBootTarget(t)
           \/ UNCHANGED queueVars /\ pc' = "halted"
    BY <1>0, <1>7, WorldFinds
  <2>2. CASE UNCHANGED queueVars /\ pc' = "halted"
    BY <2>2 DEF TryInv, queueVars, StartUp, Attempting
  <2> QED BY <1>0, <2>1, <2>2, SameTry, AddingTarget DEF TryInv
<1> QED BY <1>1, <1>2, <1>3, <1>4, <1>5, <1>6, <1>7 DEF Next, Loop

LEMMA TryInvariant == Spec => []TryInv
<1>1. Init => TryInv
  BY DEF Init, QueueInit, TryInv, Attempting
<1> QED BY <1>1, StageInvariant, TryStep, PTL DEF Spec

LEMMA StageMapping ==
  StageInv /\ TryInv /\ [Next]_vars => [Boot!Next]_<<pending_devices, Trying, Phase>>
<1> SUFFICES ASSUME StageInv, TryInv, [Next]_vars
             PROVE  Boot!Next \/ UNCHANGED <<pending_devices, Trying, Phase>>
  OBVIOUS
<1>0. StageTypeOK /\ None \notin Target
  BY TargetAssumption DEF StageInv
<1>1. CASE RestartController \/ FlushFifo \/ PartitionPublish
  <2>1. /\ pc \in StartUp /\ pc' \in StartUp \cup {"panic", "stuck"} /\ device = None
        /\ UNCHANGED <<pending_devices, device>>
    BY <1>1 DEF RestartController, FlushFifo, PartitionPublish, StartUp, TryInv, queueVars, tryVars
  <2>2. Trying = None /\ Trying' = None /\ Phase = "starting" /\ Phase' \in {"starting", "over"}
    BY <2>1 DEF Trying, Phase, StartUp
  <2> QED BY <2>1, <2>2 DEF Boot!Next, Boot!End
<1>2. CASE Entry \/ EntrySpi
  <2>1. PICK t \in Target : AddBootTarget(t)
    BY <1>2 DEF Entry, EntrySpi, Target, Disk
  <2>2. Trying = None /\ Trying' = None /\ Phase = "starting" /\ Phase' \in {"starting", "serving"}
    BY <1>2 DEF Entry, EntrySpi, Trying, Phase, StartUp, TryInv, tryVars
  <2> QED BY <1>0, <2>1, <2>2, AddingTarget DEF Boot!Next, Boot!Find
<1>3. CASE Wait
  BY <1>3 DEF Wait, queueVars, tryVars, Trying, Phase, StartUp
<1>4. CASE Take
  <2>1. /\ pending_devices # <<>> /\ pc = "take" /\ pc' = "try"
        /\ device' = Head(pending_devices) /\ pending_devices' = Tail(pending_devices)
    BY <1>4 DEF Take, RemoveHead, TryInv
  <2>2. Trying = None /\ Trying' = Head(pending_devices) /\ Phase = "serving" /\ Phase' = "serving"
    BY <2>1 DEF Trying, Phase, StartUp
  <2> QED BY <2>1, <2>2 DEF Boot!Next, Boot!Try
<1>5. CASE TryNetwork \/ TrySpi \/ Mount \/ Mounted \/ ElfOpened \/ ChainLoad
           \/ DiskHangs \/ Unmount
  <2>1. /\ pc \in Attempting /\ UNCHANGED <<queueVars, device>>
        /\ pc' \in Attempting \cup {"wait", "stage2", "null", "panic", "hung"}
    BY <1>0, <1>5, AttemptMoves
  <2>2. Trying = device /\ Trying # None /\ Phase = "serving" /\ UNCHANGED pending_devices
    BY <1>0, <2>1 DEF TryInv, Trying, Phase, StartUp, Attempting, queueVars
  <2>3. CASE pc' = "wait"
    <3>1. Trying' = None /\ Phase' = "serving"
      BY <2>3 DEF Trying, Phase, StartUp
    <3> QED BY <2>2, <3>1 DEF Boot!Next, Boot!GiveUp
  <2>4. CASE pc' \in {"stage2", "null", "panic"}
    <3>1. Trying' = device /\ Phase' = "over"
      BY <2>1, <2>4 DEF Trying, Phase, StartUp
    <3> QED BY <2>2, <3>1 DEF Boot!Next, Boot!End
  <2>5. CASE pc' \in Attempting \cup {"hung"}
    <3>1. Trying' = device /\ Phase' = "serving"
      BY <2>1, <2>5 DEF Trying, Phase, StartUp, Attempting
    <3> QED BY <2>2, <3>1
  <2> QED BY <2>1, <2>3, <2>4, <2>5
<1>6. CASE Driver \/ Hardware \/ UNCHANGED vars
  <2>1. UNCHANGED <<pending_devices, pc, device>>
    BY <1>6 DEF Driver, Hardware, vars, stageVars, tryVars, queueVars
  <2> QED BY <2>1 DEF Trying, Phase
<1>7. CASE \/ Plug \/ Unplug \/ NicStatus \/ NetifDown
           \/ \E i \in 1 .. MaxPlugs : Probe(i) \/ MsdProbed(i)
  <2>1. /\ Running /\ device' = device
        /\ \/ UNCHANGED <<queueVars, pc>>
           \/ UNCHANGED pc /\ \E t \in Target : AddBootTarget(t)
           \/ UNCHANGED queueVars /\ pc' = "halted"
    BY <1>0, <1>7, WorldFinds
  <2>2. Phase \in {"starting", "serving"}
    BY <2>1 DEF Phase, Running, StartUp
  <2>3. CASE UNCHANGED pc
    <3>1. UNCHANGED <<Trying, Phase>>
      BY <2>1, <2>3 DEF Trying, Phase
    <3> QED BY <1>0, <2>1, <2>2, <3>1, AddingTarget DEF Boot!Next, Boot!Find, queueVars
  <2>4. CASE UNCHANGED queueVars /\ pc' = "halted"
    <3>1. Trying' = None /\ Phase' = "halted"
      BY <2>4 DEF Trying, Phase, StartUp
    <3> QED BY <2>2, <2>4, <3>1 DEF Boot!Next, Boot!Halt, queueVars
  <2> QED BY <2>1, <2>3, <2>4
<1> QED BY <1>1, <1>2, <1>3, <1>4, <1>5, <1>6, <1>7 DEF Next, Loop

\* Stage 1 tries each target it was told of once, in order, one at a time; a failure
\* to start up and an attempt are all that ends it: see TriesInOrder.
THEOREM StageRefinement == Spec => TriesInOrder
<1>1. Init => Boot!Init
  BY DEF Init, QueueInit, Boot!Init, Trying, Phase, StartUp
<1> QED BY <1>1, StageMapping, StageInvariant, TryInvariant, PTL
        DEF Spec, TriesInOrder, Boot!Spec, Boot!vars

-----------------------------------------------------------------------------
(* A good disk fails only through a fault *)

\* The step that leaves the way to the second stage is one of the attempt itself.
LEMMA WayIsLeft ==
  ASSUME [Next]_vars, pc \in {"try", "mount", "header", "segments"}, device \in Disk,
         pc' \notin {pc, "mount", "header", "segments", "stage2", "halted"}
  PROVE  Mount \/ Mounted \/ ElfOpened \/ ChainLoad \/ DiskHangs
<1>1. device # Network /\ device # Spi
  BY TargetAssumption DEF Disk
<1>2. CASE Loop
  BY <1>1, <1>2 DEF Loop, RestartController, FlushFifo, PartitionPublish, Entry, EntrySpi, Wait,
     Take, TryNetwork, TrySpi, Unmount, Driver, stageVars
<1>3. CASE Hardware \/ Plug \/ Unplug \/ NicStatus \/ NetifDown \/ UNCHANGED vars
           \/ \E i \in 1 .. MaxPlugs : Probe(i) \/ MsdProbed(i)
  <2>1. pc' \in {pc, "halted"}
    BY <1>3 DEF Hardware, Plug, Unplug, NicStatus, NetifDown, Probe, MsdProbed, vars, stageVars
  <2> QED BY <2>1
<1> QED BY <1>2, <1>3 DEF Next

\* The partitions known are those of a disk that is plugged in.
DiskInv == known => usb = "in"

LEMMA DiskInvariant == Spec => []DiskInv
<1>1. Init => DiskInv
  BY DEF Init, UsbInit, DiskInv
<1>2. StageInv /\ DiskInv /\ [Next]_vars => DiskInv'
  <2> SUFFICES ASSUME StageInv, DiskInv, [Next]_vars PROVE DiskInv'
    OBVIOUS
  <2>1. \/ UNCHANGED <<usb, known>> \/ DiskOut
        \/ (\E b \in BOOLEAN : DiskIn(b)) \/ (\E i \in 1 .. MaxPlugs : ReadTable(i))
    BY DEF Next, Loop, RestartController, FlushFifo, PartitionPublish, Entry, EntrySpi, Wait, Take,
       TryNetwork, TrySpi, Mount, Mounted, ElfOpened, ChainLoad, DiskHangs, Unmount, Driver,
       Hardware, Plug, Unplug, NicStatus, NetifDown, Probe, MsdProbed, PartAdded, vars, stageVars,
       others, usbVars, diskVars
  <2>2. CASE DiskOut \/ \E b \in BOOLEAN : DiskIn(b)
    BY <2>2 DEF DiskInv, DiskOut, DiskIn
  <2>3. ASSUME NEW i \in 1 .. MaxPlugs, ReadTable(i) PROVE DiskInv'
    <3>1. usb \in {"in", "out"} /\ usb' = usb
      BY <2>3 DEF StageInv, StageTypeOK, UsbTypeOK, ReadTable
    <3> QED BY <2>3, <3>1 DEF DiskInv, ReadTable, NoAnswer
  <2> QED BY <2>1, <2>2, <2>3 DEF DiskInv
<1> QED BY <1>1, <1>2, StageInvariant, PTL DEF Spec

LEMMA GoodDiskStep ==
  ASSUME StageInv, DiskInv, [Next]_vars,
         pc \in {"try", "mount", "header", "segments"}, device \in Disk, elf[device] = "ok",
         pc' \notin {pc, "mount", "header", "segments", "stage2", "halted"}
  PROVE  \/ device = Sd /\ (pc = "try" /\ ~published)
         \/ device = Sd /\ (pc # "try" /\ (failed \/ Unnoticed))
         \/ device \in UsbPart /\ (~known \/ held)
<1>0. SdInv /\ (pc = "try" => root = None) /\ (device = Sd \/ device \in UsbPart)
  BY DEF StageInv, Disk
<1>1. CASE Mount
  <2>1. pc = "try" /\ ~Mountable(device)
    BY <1>1 DEF Mount
  <2> QED BY <1>0, <2>1 DEF Mountable
<1>2. CASE DiskHangs
  BY <1>2 DEF DiskHangs, Unreachable, NoAnswer, DiskInv
<1>3. CASE Mounted \/ ElfOpened \/ ChainLoad
  <2>1. /\ sd = "idle" /\ pc # "try"
        /\ ReadFails \/ Shows({"nofs"}) \/ Shows({"absent", "noelf", "nofs"})
                     \/ Shows(Kind \ {"ok"})
    BY <1>3 DEF Mounted, ElfOpened, ChainLoad
  <2>2. CASE ReadFails \/ Unnoticed
    BY <2>1, <2>2 DEF ReadFails, Unnoticed
  <2>3. CASE ~ReadFails /\ ~Unnoticed
    <3>1. elf[device] \in {"nofs"} \/ elf[device] \in {"absent", "noelf", "nofs"}
          \/ elf[device] \in Kind \ {"ok"}
      BY <1>0, <2>1, <2>3, ShowsIs
    <3> QED BY <3>1
  <2> QED BY <2>2, <2>3
<1> QED BY <1>1, <1>2, <1>3, WayIsLeft

\* A disk with a good second stage fails only when it is not there or a read of it
\* went wrong, whatever was tried before: see OnlyFaultsStopGoodDisks.
THEOREM GoodDisksStart == Spec => OnlyFaultsStopGoodDisks
<1>1. StageInv /\ DiskInv /\ [Next]_vars =>
        [/\ pc \in {"try", "mount", "header", "segments"} /\ device \in Disk /\ elf[device] = "ok"
         /\ pc' \notin {pc, "mount", "header", "segments", "stage2", "halted"}
         => \/ device = Sd /\ (pc = "try" /\ ~published)
            \/ device = Sd /\ (pc # "try" /\ (failed \/ Unnoticed))
            \/ device \in UsbPart /\ (~known \/ held)]_vars
  BY GoodDiskStep
<1> QED BY <1>1, StageInvariant, DiskInvariant, PTL DEF Spec, OnlyFaultsStopGoodDisks

-----------------------------------------------------------------------------
(* A read comes to an end *)

LEMMA Blockwise ==
  ASSUME NEW k \in Nat \ {0}, NEW W \in Nat
  PROVE  k * W \in Nat /\ (k - 1) * W \in Nat /\ k * W = (k - 1) * W + W
BY SMTT(60)

LEMMA CommandCounts ==
  ASSUME SdTypeOK, cmd.op = "read"
  PROVE  /\ cmd.block \in Nat /\ cmd.count \in Nat \ {0}
         /\ Commanded = cmd.count * BlockWords
<1>1. PICK r \in Request : cmd = ReadCmd(r)
  BY DEF SdTypeOK, Command, Idle, Stop
<1> QED BY <1>1 DEF ReadCmd, Request, Commanded

LEMMA SendingCounts ==
  ASSUME SdTypeOK, Asked, card.on
  PROVE  /\ card.block \in Nat /\ card.last \in Nat /\ card.at \in 1 .. BlockWords + 1
         /\ card.last - card.block \in Nat
         /\ Sending = (card.last - card.block) * BlockWords + (BlockWords + 1 - card.at)
<1>1. card \in [on : {TRUE}, block : 0 .. Blocks - 1, last : 0 .. Blocks - 1,
                at : 1 .. BlockWords + 1, damaged : BOOLEAN]
  BY TransferIs
<1>2. card.block \in Nat /\ card.last \in Nat /\ card.at \in 1 .. BlockWords + 1
  BY <1>1, SdAssumption
<1> QED BY <1>2 DEF Asked, Sending

LEMMA DueIs ==
  ASSUME SdTypeOK, Asked
  PROVE  Commanded \in Nat /\ Sending \in Nat /\ Due \in Nat
<1>1. Commanded \in Nat
  <2>1. CASE cmd.op = "read"
    BY <2>1, CommandCounts, Blockwise, SdAssumption
  <2> QED BY <2>1 DEF Commanded
<1>2. Sending \in Nat
  <2>1. CASE card.on
    <3>1. /\ card.at \in 1 .. BlockWords + 1 /\ card.last - card.block \in Nat
          /\ Sending = (card.last - card.block) * BlockWords + (BlockWords + 1 - card.at)
      BY <2>1, SendingCounts
    <3> DEFINE k == card.last - card.block
    <3>2. k * BlockWords \in Nat
      <4> HIDE DEF k
      <4>1. k \in Nat
        BY <3>1 DEF k
      <4> QED BY <4>1, SdAssumption
    <3> QED BY <3>1, <3>2, SdAssumption
  <2> QED BY <2>1 DEF Sending
<1> QED BY <1>1, <1>2 DEF Due

LEMMA DueNext ==
  (SdTypeOK /\ Asked =>
     Commanded \in Nat /\ Sending \in Nat /\ Due \in Nat /\ Due = Commanded + Sending)'
<1>1. SdTypeOK /\ Asked =>
        Commanded \in Nat /\ Sending \in Nat /\ Due \in Nat /\ Due = Commanded + Sending
  BY DueIs DEF Due
<1> QED BY <1>1, PTL

\* The controller puts into the FIFO what was due, and no more.
LEMMA DueFalls ==
  ASSUME SdTypeOK, SdTypeOK', Asked, Asked', SdHardware
  PROVE  /\ Due' \in Nat /\ Len(fifo') \in Nat
         /\ 2 * Due' + Len(fifo') <= 2 * Due + Len(fifo)
<1> USE SdAssumption
<1>1. /\ Commanded \in Nat /\ Sending \in Nat /\ Due \in Nat /\ Due = Commanded + Sending
      /\ Len(fifo) \in Nat /\ Len(fifo') \in Nat
  BY DueIs DEF Due, SdTypeOK
<1>2. Commanded' \in Nat /\ Sending' \in Nat /\ Due' \in Nat /\ Due' = Commanded' + Sending'
  BY DueNext
<1>3. cmd' = cmd => Commanded' = Commanded
  BY DEF Commanded
<1>4. ~card'.on => Sending' = 0
  BY DEF Sending
<1>5. card' = card => Sending' = Sending
  BY DEF Sending
<1>a. Commanded' <= Commanded /\ Sending' <= Sending => Due' <= Due
  <2> \A c, s, c1, s1 \in Nat : c1 <= c /\ s1 <= s => c1 + s1 <= c + s
    OBVIOUS
  <2> QED BY <1>1, <1>2
<1> SUFFICES \/ Due' <= Due /\ Len(fifo') = Len(fifo)
             \/ Due' = Due - 1 /\ Len(fifo') = Len(fifo) + 1
  <2> \A c, d, m, n \in Nat :
        (c <= d /\ m = n) \/ (c = d - 1 /\ m = n + 1) => 2 * c + m <= 2 * d + n
    OBVIOUS
  <2> Due \in Nat /\ Due' \in Nat
    BY <1>1, <1>2
  <2> QED BY <1>1
<1>6. CASE HwCommand
  <2>1. Commanded' = 0 /\ fifo' = fifo
    BY <1>6 DEF HwCommand, Commanded, Idle
  <2>2. CASE card' \in {card, Quiet}
    <3>1. Sending' = Sending \/ Sending' = 0
      BY <1>4, <1>5, <2>2 DEF Quiet
    <3>2. Commanded' <= Commanded /\ Sending' <= Sending
      BY <1>1, <2>1, <3>1
    <3>3. Due' <= Due
      BY <1>a, <3>2
    <3> QED BY <2>1, <3>3
  <2>3. CASE /\ cmd.op = "read"
             /\ card' = [on |-> TRUE, block |-> cmd.block, last |-> cmd.block + cmd.count - 1,
                         at |-> 1, damaged |-> FALSE]
    <3>1. /\ cmd.block \in Nat /\ cmd.count \in Nat \ {0}
          /\ Commanded = cmd.count * BlockWords
      BY <2>3, CommandCounts
    <3>2. /\ card'.on /\ card'.last - card'.block = cmd.count - 1
          /\ BlockWords + 1 - card'.at = BlockWords
      BY <2>3, <3>1
    <3>3. Sending' = (cmd.count - 1) * BlockWords + BlockWords
      BY <3>2 DEF Sending
    <3>4. cmd.count * BlockWords = (cmd.count - 1) * BlockWords + BlockWords
      BY <3>1, Blockwise
    <3> QED BY <1>1, <1>2, <2>1, <3>1, <3>3, <3>4
  <2> QED BY <1>6, <2>2, <2>3 DEF HwCommand
<1>7. CASE HwWord
  <2>1. card.on /\ cmd' = cmd /\ Len(fifo') = Len(fifo) + 1
    BY <1>7 DEF HwWord, SdTypeOK
  <2>2. /\ card'.on /\ card'.last = card.last /\ card'.block = card.block
        /\ card'.at = card.at + 1
    <3>1. card \in [on : {TRUE}, block : 0 .. Blocks - 1, last : 0 .. Blocks - 1,
                    at : 1 .. BlockWords + 1, damaged : BOOLEAN]
      BY <2>1, TransferIs
    <3> QED BY <1>7, <3>1 DEF HwWord
  <2> DEFINE rest == (card.last - card.block) * BlockWords
  <2>3. Sending = rest + (BlockWords + 1 - card.at) /\ card.at \in Nat
        /\ Sending' = rest + (BlockWords + 1 - (card.at + 1))
    BY <2>1, <2>2, SendingCounts DEF Sending
  <2>4. rest \in Int
    BY <2>1, SendingCounts, SMT
  <2> HIDE DEF rest
  <2>5. Sending' = Sending - 1
    BY <2>3, <2>4
  <2> QED BY <1>1, <1>2, <1>3, <2>1, <2>5
<1>8. CASE HwBlockEnd
  <2>1. card.on /\ card.at = BlockWords + 1 /\ cmd' = cmd /\ fifo' = fifo
    BY <1>8 DEF HwBlockEnd
  <2>2. CASE card' = Quiet
    <3>1. Sending' = 0
      BY <1>4, <2>2 DEF Quiet
    <3> QED BY <1>1, <1>2, <1>3, <2>1, <3>1
  <2>3. CASE card' # Quiet
    <3>1. card \in [on : {TRUE}, block : 0 .. Blocks - 1, last : 0 .. Blocks - 1,
                    at : 1 .. BlockWords + 1, damaged : BOOLEAN]
      BY <2>1, TransferIs
    <3>2. /\ card.block # card.last
          /\ card' = [card EXCEPT !.block = card.block + 1, !.at = 1, !.damaged = FALSE]
      BY <1>8, <2>3 DEF HwBlockEnd
    <3>3. card'.on /\ card'.last = card.last /\ card'.block = card.block + 1 /\ card'.at = 1
      BY <3>1, <3>2
    <3> DEFINE k == card.last - card.block
    <3>4. k \in Nat \ {0} /\ card'.last - card'.block = k - 1
      <4>1. card.block \in Nat /\ card.last \in Nat /\ card.last - card.block \in Nat
        BY <2>1, SendingCounts
      <4>2. card.last - card.block # 0
        BY <3>2, <4>1
      <4>3. card.last - (card.block + 1) = (card.last - card.block) - 1
        BY <4>1
      <4> QED BY <3>3, <4>1, <4>2, <4>3
    <3>5. Sending = k * BlockWords + (BlockWords + 1 - card.at)
      BY <2>1, SendingCounts
    <3>6. Sending' = (k - 1) * BlockWords + (BlockWords + 1 - 1)
      BY <3>3, <3>4 DEF Sending
    <3> HIDE DEF k
    <3>7. k * BlockWords \in Nat /\ k * BlockWords = (k - 1) * BlockWords + BlockWords
          /\ (k - 1) * BlockWords \in Nat
      BY <3>4, Blockwise
    <3>8. Sending' = Sending
      BY <2>1, <3>5, <3>6, <3>7
    <3> QED BY <1>1, <1>2, <1>3, <2>1, <3>8
  <2> QED BY <2>2, <2>3
<1>9. CASE HwError
  <2>1. card' \in {card, Quiet} /\ cmd' = cmd /\ fifo' = fifo
    BY <1>9 DEF HwError
  <2>2. Sending' = Sending \/ Sending' = 0
    BY <1>4, <1>5, <2>1 DEF Quiet
  <2>3. Commanded' <= Commanded /\ Sending' <= Sending
    BY <1>1, <1>3, <2>1, <2>2
  <2>4. Due' <= Due
    BY <1>a, <2>3
  <2> QED BY <2>1, <2>4
<1> QED BY <1>6, <1>7, <1>8, <1>9 DEF SdHardware

LEMMA LeftIs ==
  ASSUME SdTypeOK, Asked
  PROVE  Left \in Nat /\ Len(fifo) \in Nat /\ Len(buf) \in Nat /\ tries \in Nat
<1>1. req.count * BlockWords \in Nat /\ Due \in Nat
  BY WordsOf, DueIs
<1>2. /\ Len(fifo) \in Nat /\ Len(buf) \in Nat /\ tries \in Nat
      /\ Len(buf) <= req.count * BlockWords
  BY SdAssumption DEF SdTypeOK
<1> QED BY <1>1, <1>2 DEF Left

LEMMA Measured == ASSUME SdTypeOK, Asked, sd # "idle" PROVE Remaining \in Nat \X (1 .. 6) \X Nat
<1>1. Stages[sd] \in 1 .. 6
  BY DEF SdTypeOK, Stages
<1> QED BY <1>1, LeftIs DEF Remaining

LEMMA HardwareKeeps ==
  ASSUME SdTypeOK, SdTypeOK', Asked, Asked', SdHardware
  PROVE  Remaining' = Remaining \/ Below(Remaining', Remaining)
<1>1. UNCHANGED <<sd, req, buf, tries>>
  BY DEF SdHardware, sdVars
<1>2. Stages[sd'] = Stages[sd]
  BY <1>1
<1>3. CASE sd = "drain"
  <2>1. /\ Due' \in Nat /\ Len(fifo') \in Nat /\ Due \in Nat /\ Len(fifo) \in Nat
        /\ 2 * Due' + Len(fifo') <= 2 * Due + Len(fifo)
    BY DueFalls, DueIs, LeftIs
  <2>2. Left = 2 * Due + Len(fifo) /\ Left' = 2 * Due' + Len(fifo')
    BY <1>1, <1>3 DEF Left
  <2>3. Left' = Left \/ Left' < Left
    BY <2>1, <2>2
  <2> QED BY <1>1, <1>2, <2>3 DEF Remaining, Below
<1>4. CASE sd # "drain"
  <2>1. Left' = Left
    BY <1>1, <1>4 DEF Left
  <2> QED BY <1>1, <1>2, <2>1 DEF Remaining
<1> QED BY <1>3, <1>4

LEMMA DriverLowers ==
  ASSUME SdTypeOK, Asked, SdDriver PROVE sd' = "idle" \/ Below(Remaining', Remaining)
<1>0. \A s, t \in DOMAIN Stages : tries' = tries /\ sd = s /\ sd' = t /\ Stages[t] < Stages[s]
        => Below(Remaining', Remaining)
  BY DEF Remaining, Below
<1>1. CASE DrainWait \/ SendRead \/ ReadAnswer \/ ReadError \/ ReadTimeout \/ ReadDone
  <2>1. /\ tries' = tries
        /\ <<sd, sd'>> \in {<<"wait", "drain">>, <<"command", "answer">>, <<"answer", "data">>,
                            <<"data", "stop">>}
    BY <1>1 DEF DrainWait, SendRead, ReadAnswer, ReadError, ReadTimeout, ReadDone
  <2> QED BY <1>0, <2>1 DEF Stages
<1>2. CASE DrainFifo
  <2>1. CASE fifo = <<>>
    <3>1. tries' = tries /\ sd = "drain" /\ sd' = "command"
      BY <1>2, <2>1 DEF DrainFifo
    <3> QED BY <1>0, <3>1 DEF Stages
  <2>2. CASE fifo # <<>>
    <3>1. /\ sd = "drain" /\ UNCHANGED <<tries, sd, cmd, card>>
          /\ Len(fifo') = Len(fifo) - 1
      BY <1>2, <2>2 DEF DrainFifo, SdTypeOK
    <3>2. Due' = Due
      BY <3>1 DEF Due, Commanded, Sending
    <3>3. Left = 2 * Due + Len(fifo) /\ Left' = 2 * Due' + Len(fifo')
      BY <3>1 DEF Left
    <3>4. Left' < Left
      BY <3>1, <3>2, <3>3, DueIs, LeftIs
    <3> QED BY <3>1, <3>4 DEF Remaining, Below
  <2> QED BY <2>1, <2>2
<1>3. CASE ReadWord
  <2>1. /\ sd = "data" /\ UNCHANGED <<tries, sd, req>>
        /\ Len(buf') = Len(buf) + 1
    <3>1. Len(Append(buf, Head(fifo))) = Len(buf) + 1
      BY DEF SdTypeOK
    <3> QED BY <1>3, <3>1 DEF ReadWord
  <2>2. Left = req.count * BlockWords - Len(buf) /\ Left' = req'.count * BlockWords - Len(buf')
    BY <2>1 DEF Left
  <2>3. req.count * BlockWords \in Nat /\ Len(buf) \in Nat
    BY WordsOf, LeftIs
  <2>4. Left' < Left
    BY <2>1, <2>2, <2>3
  <2> QED BY <2>1, <2>4 DEF Remaining, Below
<1>4. CASE SendStop
  <2>1. sd' = "idle" \/ (tries \in Nat /\ tries' = tries - 1)
    BY <1>4, LeftIs DEF SendStop, AgainOrReturn
  <2>2. tries \in Nat /\ tries' = tries - 1 => Below(Remaining', Remaining)
    BY DEF Remaining, Below
  <2> QED BY <2>1, <2>2
<1> QED BY <1>1, <1>2, <1>3, <1>4 DEF SdDriver

LEMMA AdvanceStep ==
  StageInv /\ StageInv' /\ [Next]_vars =>
    \/ UNCHANGED <<hwVars, sdVars>>
    \/ sd # "idle" =>
         /\ Remaining \in Nat \X (1 .. 6) \X Nat
         /\ sd' = "idle" \/ Remaining' = Remaining \/ Below(Remaining', Remaining)
         /\ SdDriver => sd' = "idle" \/ Below(Remaining', Remaining)
<1> SUFFICES ASSUME StageInv, StageInv', [Next]_vars, sd # "idle",
                    ~UNCHANGED <<hwVars, sdVars>>
             PROVE  /\ Remaining \in Nat \X (1 .. 6) \X Nat
                    /\ sd' = "idle" \/ Remaining' = Remaining \/ Below(Remaining', Remaining)
                    /\ SdDriver => sd' = "idle" \/ Below(Remaining', Remaining)
  OBVIOUS
<1>1. SdTypeOK /\ Asked /\ SdTypeOK' /\ Asked'
  BY DEF StageInv, SdInv
<1>2. SdDriver \/ SdHardware
  <2>1. pc \in {"flush", "mbr", "mount", "header", "segments", "hung", "halted"}
    BY DEF StageInv
  <2>2. ~RestartController
    BY <2>1 DEF RestartController
  <2>3. ~(FlushFifo \/ PartitionPublish \/ Mounted \/ ElfOpened \/ ChainLoad)
    BY DEF FlushFifo, PartitionPublish, Mounted, ElfOpened, ChainLoad
  <2>4. ~(Entry \/ EntrySpi \/ Wait \/ Take \/ TryNetwork \/ TrySpi \/ Mount \/ Unmount)
    BY <2>1 DEF Entry, EntrySpi, Wait, Take, TryNetwork, TrySpi, Mount, Unmount
  <2>5. ~(DiskHangs \/ UNCHANGED vars)
    BY DEF DiskHangs, vars
  <2>6. /\ ~(Plug \/ Unplug \/ NicStatus \/ NetifDown)
        /\ ~\E i \in 1 .. MaxPlugs : Probe(i) \/ MsdProbed(i)
    BY DEF Plug, Unplug, NicStatus, NetifDown, Probe, MsdProbed
  <2> QED BY <2>2, <2>3, <2>4, <2>5, <2>6 DEF Next, Loop, Driver, Hardware
<1> QED BY <1>1, <1>2, Measured, HardwareKeeps, DriverLowers

\* A read of the SD card makes at most so many steps as its measure allows, for any
\* number of attempts, blocks and words and whatever the controller does: the safety
\* core of TargetsTried.
THEOREM ReadsAdvance == Spec => ReadAdvances
BY AdvanceStep, StageInvariant, PTL DEF Spec, ReadAdvances
=============================================================================
