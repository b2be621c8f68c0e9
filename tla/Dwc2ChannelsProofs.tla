------------------------- MODULE Dwc2ChannelsProofs -------------------------
(***************************************************************************)
(* Proofs about Dwc2Channels, for any number of channels, devices and open *)
(* endpoints and any set of hardware faults, under two hypotheses on the   *)
(* world the driver runs in (StackAndDevices): the endpoints of a device   *)
(* have distinct numbers, and an address is not reused while a transfer to *)
(* its former device is left in the driver.  Neither can be dropped: the   *)
(* run Dwc2SharedNumber shows it for the first, and TLC finds StartedOnOff *)
(* violated without the second too.                                        *)
(***************************************************************************)
EXTENDS Dwc2Channels, FiniteSetTheorems, TLAPS

DistinctNumbers == \A p, q \in Pipe : p.num = q.num => p = q

StackAndDevices == DistinctNumbers /\ ~ReuseBusy

\* As many channels as pipes: a hypothesis of the theorems about assertions.
EnoughChannels ==
  IsFiniteSet(Device \X Pipe) /\ Cardinality(Device \X Pipe) <= ChannelCount

-----------------------------------------------------------------------------
(* The inductive invariant *)

Distinct(s) == \A i, j \in DOMAIN s : s[i] = s[j] => i = j
Elems(s) == {s[i] : i \in DOMAIN s}

\* A channel off the idle list belongs to the running transfer that owns it.
Held(c) == owner[c] \in Running /\ ic[owner[c]] = c

\* What a flag in HCINTn or a state of HCCHARn says about the idle list:
\* nothing but a late halt is reported on an idle channel.
FlagsInv ==
  \A c \in Channel :
    /\ hcchar[c] = "enabled" => c \notin IdleChannels /\ hcint[c] \subseteq {"nak"}
    /\ hcchar[c] = "halting" => hcint[c] = {}
    /\ c \in IdleChannels => hcint[c] \subseteq {"chhltd"}
    /\ "frmovrun" \in hcint[c] => dir[c] = "in"

\* The endpoints that are open or have a transfer were allocated, and the
\* number identifies them.
NamesInv ==
  /\ \A e \in opened \cup inflight : dev[e] \in Device /\ pipe[e] \in Pipe
  /\ \A e, f \in opened \cup inflight :
       dev[e] = dev[f] /\ pipe[e].num = pipe[f].num => e = f

\* A transfer in flight was started in a direction its pipe has, and its channel
\* still runs it that way.
Way(how) == IF how = "in" THEN "in" ELSE "out"

DirInv ==
  /\ \A e \in inflight : Way(started[e]) \in Dirs(pipe[e])
  /\ \A e \in Running : dir[ic[e]] = started[e]

IInv ==
  /\ TypeOK
  /\ Distinct(idle)
  /\ \A c \in Channel \ IdleChannels : Held(c)
  /\ TransferTracked
  /\ FlagsInv
  /\ NamesInv
  /\ DirInv
  /\ RetriedAsIn
  /\ ClaimBacked
  /\ NoDoubleReturn

Clean(c) ==
  /\ hcint[c] \cap Faults = {} /\ hcchar[c] # "halting"
  /\ c \in IdleChannels \/ AtWork(c)

\* As long as no fault happened, no channel was asked to halt, each one that is
\* taken is at work, and the only assertion that can fail is the one that finds
\* no idle channel.
Calm ==
  ~faulted => /\ panic \in {"none", "no_idle_channel"}
              /\ \A c \in Channel : Clean(c)

-----------------------------------------------------------------------------
(* The idle list *)

\* Taking the head of a list without repetitions.
LEMMA TailFacts ==
  ASSUME NEW S, NEW s \in Seq(S), s # <<>>, Distinct(s)
  PROVE  /\ Head(s) \in S /\ Head(s) \in Elems(s)
         /\ Tail(s) \in Seq(S) /\ Distinct(Tail(s))
         /\ Elems(Tail(s)) = Elems(s) \ {Head(s)}
<1>1. Len(s) \in Nat \ {0} /\ DOMAIN s = 1 .. Len(s) /\ \A i \in 1 .. Len(s) : s[i] \in S
  OBVIOUS
<1>2. Head(s) = s[1] /\ 1 \in DOMAIN s
  BY <1>1
<1>3. /\ Tail(s) \in Seq(S) /\ DOMAIN Tail(s) = 1 .. Len(s) - 1
      /\ \A i \in 1 .. Len(s) - 1 : Tail(s)[i] = s[i + 1]
  BY <1>1
<1>4. Distinct(Tail(s))
  BY <1>1, <1>3 DEF Distinct
<1>5. ASSUME NEW x \in Elems(Tail(s)) PROVE x \in Elems(s) \ {Head(s)}
  <2>1. PICK i \in 1 .. Len(s) - 1 : x = s[i + 1]
    BY <1>3 DEF Elems
  <2>2. i + 1 \in DOMAIN s /\ i + 1 # 1
    BY <1>1
  <2> QED BY <2>1, <2>2, <1>2 DEF Elems, Distinct
<1>6. ASSUME NEW x \in Elems(s) \ {Head(s)} PROVE x \in Elems(Tail(s))
  <2>1. PICK i \in DOMAIN s : x = s[i]
    BY DEF Elems
  <2>2. i - 1 \in 1 .. Len(s) - 1 /\ (i - 1) + 1 = i
    BY <2>1, <1>1, <1>2
  <2>3. Tail(s)[i - 1] = x
    BY <2>1, <2>2, <1>3
  <2> QED BY <2>2, <2>3, <1>3 DEF Elems
<1>7. Head(s) \in Elems(s) /\ Head(s) \in S
  BY <1>1, <1>2 DEF Elems
<1> QED BY <1>3, <1>4, <1>5, <1>6, <1>7

\* Appending a new element to a list without repetitions.
LEMMA AppendFacts ==
  ASSUME NEW S, NEW s \in Seq(S), Distinct(s), NEW x \in S, x \notin Elems(s)
  PROVE  /\ Append(s, x) \in Seq(S) /\ Distinct(Append(s, x))
         /\ Elems(Append(s, x)) = Elems(s) \cup {x}
<1>1. Len(s) \in Nat /\ DOMAIN s = 1 .. Len(s)
  OBVIOUS
<1>2. /\ Append(s, x) \in Seq(S) /\ DOMAIN Append(s, x) = 1 .. Len(s) + 1
      /\ \A i \in 1 .. Len(s) : Append(s, x)[i] = s[i]
      /\ Append(s, x)[Len(s) + 1] = x
  BY <1>1
<1>3. \A i \in 1 .. Len(s) + 1 : i \in 1 .. Len(s) \/ i = Len(s) + 1
  BY <1>1
<1>4. Distinct(Append(s, x))
  BY <1>1, <1>2, <1>3 DEF Distinct, Elems
<1>5. Elems(Append(s, x)) = Elems(s) \cup {x}
  <2>1. \A i \in 1 .. Len(s) + 1 : Append(s, x)[i] \in Elems(s) \cup {x}
    BY <1>1, <1>2, <1>3 DEF Elems
  <2>2. \A i \in 1 .. Len(s) : i \in 1 .. Len(s) + 1
    BY <1>1
  <2>3. Len(s) + 1 \in 1 .. Len(s) + 1
    BY <1>1
  <2>4. Elems(s) \subseteq Elems(Append(s, x))
    BY <1>1, <1>2, <2>2 DEF Elems
  <2>5. x \in Elems(Append(s, x))
    BY <1>2, <2>3 DEF Elems
  <2>6. Elems(Append(s, x)) \subseteq Elems(s) \cup {x}
    BY <1>2, <2>1 DEF Elems
  <2> QED BY <2>4, <2>5, <2>6
<1> QED BY <1>2, <1>4, <1>5

-----------------------------------------------------------------------------
(* Initial states *)

LEMMA InitIInv == Init => IInv
<1> SUFFICES ASSUME Init PROVE IInv
  OBVIOUS
<1> USE CountAssumption DEF Init
<1>1. idle \in Seq(Channel) /\ DOMAIN idle = 1 .. ChannelCount
  <2>1. \A i \in 1 .. ChannelCount : i - 1 \in Channel
    BY DEF Channel
  <2> QED BY <2>1
<1>2. Distinct(idle)
  BY <1>1 DEF Distinct
<1>3. IdleChannels = Channel
  <2>1. ASSUME NEW c \in Channel PROVE c \in IdleChannels
    <3>1. c + 1 \in DOMAIN idle /\ idle[c + 1] = c
      BY <1>1 DEF Channel
    <3> QED BY <3>1 DEF IdleChannels
  <2>2. IdleChannels \subseteq Channel
    BY <1>1 DEF IdleChannels
  <2> QED BY <2>1, <2>2
<1>4. TypeOK
  BY <1>1 DEF TypeOK
<1>5. TransferTracked /\ DirInv /\ RetriedAsIn
  BY DEF TransferTracked, DirInv, RetriedAsIn, Running
<1>6. FlagsInv /\ NamesInv /\ ClaimBacked /\ NoDoubleReturn
  BY DEF FlagsInv, NamesInv, ClaimBacked, NoDoubleReturn
<1> QED BY <1>2, <1>3, <1>4, <1>5, <1>6 DEF IInv

-----------------------------------------------------------------------------
(* Starting a transfer *)

\* A start on an idle channel keeps the invariant, whether the stack starts a
\* new transfer or the timer restarts one that holds no channel.
LEMMA StartStep ==
  ASSUME StackAndDevices, IInv, NEW e \in Endpoint, NEW how \in {"setup", "in", "out"},
         StartOK(e, how),
         \/ e \in armed /\ how = "in" /\ UNCHANGED <<claimed, started>>
         \/ /\ e \in opened \ inflight
            /\ claimed' = claimed \cup {<<dev[e], pipe[e]>>}
            /\ started' = [started EXCEPT ![e] = how],
         Way(how) \in Dirs(pipe[e])
  PROVE  IInv'
<1> DEFINE c == Head(idle)
<1>0. /\ TypeOK /\ Distinct(idle) /\ TransferTracked /\ FlagsInv /\ NamesInv
      /\ DirInv /\ RetriedAsIn /\ ClaimBacked /\ NoDoubleReturn
      /\ \A k \in Channel \ IdleChannels : Held(k)
  BY DEF IInv
<1>1. /\ idle # <<>> /\ idle' = Tail(idle)
      /\ ic' = [ic EXCEPT ![e] = c] /\ armed' = armed \ {e}
      /\ owner' = [owner EXCEPT ![c] = e] /\ dir' = [dir EXCEPT ![c] = how]
      /\ hcint' = [hcint EXCEPT ![c] = {}] /\ inflight' = inflight \cup {e}
      /\ UNCHANGED <<opened, dev, pipe, faulted, panic>>
  BY DEF StartOK, endpointVars
<1>2. PICK h \in {"enabled", "halting"} : hcchar' = [hcchar EXCEPT ![c] = h]
  BY DEF StartOK
<1>3. IdleChannels = Elems(idle) /\ IdleChannels' = Elems(idle')
  BY DEF IdleChannels, Elems
<1>4. /\ c \in Channel /\ c \in IdleChannels /\ idle' \in Seq(Channel)
      /\ Distinct(idle') /\ IdleChannels' = IdleChannels \ {c}
  BY <1>0, <1>1, <1>3, TailFacts DEF TypeOK
<1> HIDE DEF c
<1>5. e \notin Running /\ e \in opened \cup inflight
  BY <1>0 DEF Running, RetriedAsIn
<1>6. Running' = Running \cup {e}
  BY <1>0, <1>1 DEF Running
<1>7. TypeOK'
  <2>1. claimed' \subseteq Device \X Pipe
    BY <1>0, <1>5 DEF TypeOK, NamesInv
  <2>2. /\ ic' \in [Endpoint -> Channel \cup {None}]
        /\ owner' \in [Channel -> Endpoint \cup {None}]
        /\ hcchar' \in [Channel -> {"disabled", "enabled", "halting"}]
        /\ dir' \in [Channel -> {"setup", "in", "out"}]
        /\ hcint' \in [Channel -> SUBSET Flag]
    BY <1>0, <1>1, <1>2, <1>4 DEF TypeOK
  <2>3. armed' \subseteq Endpoint /\ inflight' \subseteq Endpoint
    BY <1>0, <1>1 DEF TypeOK
  <2>4. started' \in [Endpoint -> {"setup", "in", "out", None}]
    BY <1>0 DEF TypeOK
  <2> QED BY <1>0, <1>1, <1>4, <2>1, <2>2, <2>3, <2>4 DEF TypeOK
<1>8. \A k \in Channel \ IdleChannels : k # c
  BY <1>4
<1>9. \A f \in Running : f # e /\ ic[f] \in Channel /\ ic[f] # c /\ ic'[f] = ic[f]
  BY <1>0, <1>1, <1>4, <1>5 DEF TransferTracked, TypeOK, Running
<1>10. ic'[e] = c /\ owner'[c] = e
  BY <1>0, <1>1, <1>4 DEF TypeOK
<1>11. (\A k \in Channel \ IdleChannels : Held(k))'
  <2> SUFFICES ASSUME NEW k \in Channel, k \notin IdleChannels' PROVE Held(k)'
    OBVIOUS
  <2>1. CASE k = c
    BY <2>1, <1>6, <1>10 DEF Held
  <2>2. CASE k # c
    <3>1. Held(k) /\ owner'[k] = owner[k]
      BY <2>2, <1>0, <1>1, <1>4 DEF TypeOK
    <3> QED BY <3>1, <1>6, <1>9 DEF Held
  <2> QED BY <2>1, <2>2
<1>12. TransferTracked'
  <2> SUFFICES ASSUME NEW f \in Running'
               PROVE  ic'[f] \in Channel \ IdleChannels' /\ owner'[ic'[f]] = f
    BY DEF TransferTracked
  <2>1. CASE f = e
    BY <2>1, <1>4, <1>10
  <2>2. CASE f \in Running
    BY <2>2, <1>0, <1>1, <1>4, <1>9 DEF TransferTracked, TypeOK
  <2> QED BY <2>1, <2>2, <1>6
<1>13. FlagsInv'
  <2> SUFFICES ASSUME NEW k \in Channel
               PROVE  /\ hcchar'[k] = "enabled" => k \notin IdleChannels' /\ hcint'[k] \subseteq {"nak"}
                      /\ hcchar'[k] = "halting" => hcint'[k] = {}
                      /\ k \in IdleChannels' => hcint'[k] \subseteq {"chhltd"}
                      /\ "frmovrun" \in hcint'[k] => dir'[k] = "in"
    BY DEF FlagsInv
  <2>1. CASE k = c
    BY <2>1, <1>0, <1>1, <1>4 DEF TypeOK
  <2>2. CASE k # c
    BY <2>2, <1>0, <1>1, <1>2, <1>4 DEF TypeOK, FlagsInv
  <2> QED BY <2>1, <2>2
<1>14. NamesInv'
  BY <1>0, <1>1, <1>5 DEF NamesInv
<1>15. DirInv'
  <2>1. started'[e] = how
    BY <1>0 DEF RetriedAsIn, TypeOK
  <2>2. \A f \in inflight : f # e => started'[f] = started[f]
    BY <1>0 DEF TypeOK
  <2>3. \A f \in inflight' : Way(started'[f]) \in Dirs(pipe[f])
    BY <1>0, <1>1, <2>1, <2>2 DEF DirInv
  <2>4. dir'[ic'[e]] = started'[e]
    BY <1>0, <1>1, <1>4, <1>10, <2>1 DEF TypeOK
  <2>5. ASSUME NEW f \in Running PROVE dir'[ic'[f]] = started'[f]
    BY <2>2, <1>0, <1>1, <1>9 DEF DirInv, Running, TypeOK
  <2> QED BY <1>1, <1>6, <2>3, <2>4, <2>5 DEF DirInv
<1>16. RetriedAsIn'
  BY <1>0, <1>1 DEF RetriedAsIn, TypeOK
<1>17. ClaimBacked'
  <2> SUFFICES ASSUME NEW d \in Device, NEW p \in Pipe
               PROVE  <<d, p>> \in claimed'
                        <=> \E f \in opened \cap (inflight \cup {e}) : dev[f] = d /\ pipe[f] = p
    BY <1>1 DEF ClaimBacked
  <2>0. <<d, p>> \in claimed <=> \E f \in opened \cap inflight : dev[f] = d /\ pipe[f] = p
    BY <1>0 DEF ClaimBacked
  <2>1. CASE e \in armed /\ UNCHANGED claimed
    <3>1. inflight \cup {e} = inflight
      BY <2>1, <1>0 DEF RetriedAsIn
    <3> QED BY <2>0, <2>1, <3>1
  <2>2. CASE e \in opened \ inflight /\ claimed' = claimed \cup {<<dev[e], pipe[e]>>}
    <3>1. <<d, p>> \in claimed' <=> <<d, p>> \in claimed \/ (dev[e] = d /\ pipe[e] = p)
      BY <2>2
    <3> QED BY <2>0, <2>2, <3>1
  <2> QED BY <2>1, <2>2
<1>18. NoDoubleReturn'
  BY <1>0, <1>1 DEF NoDoubleReturn
<1> QED BY <1>4, <1>7, <1>11, <1>12, <1>13, <1>14, <1>15, <1>16, <1>17, <1>18 DEF IInv

\* A failed assertion stops the firmware in a state that satisfies IInv.
LEMMA FailStep ==
  ASSUME IInv, NEW check \in {"no_idle_channel", "channel_enabled"}, Fail(check)
  PROVE  IInv'
<1>1. UNCHANGED <<idle, opened, dev, pipe, ic, armed, owner, hcchar, dir, hcint,
                claimed, inflight, started, faulted>>
  BY DEF Fail, endpointVars, chanVars, stackVars
<1>2. panic' = check
  BY DEF Fail
<1>3. TypeOK' /\ NoDoubleReturn'
  BY <1>1, <1>2 DEF IInv, TypeOK, NoDoubleReturn
<1>4. UNCHANGED IdleChannels /\ UNCHANGED Running
  BY <1>1 DEF IdleChannels, Running
<1>5. (\A k \in Channel \ IdleChannels : Held(k))' /\ Distinct(idle)'
  BY <1>1, <1>4 DEF IInv, Held
<1>6. TransferTracked' /\ FlagsInv' /\ DirInv'
  BY <1>1, <1>4 DEF IInv, TransferTracked, FlagsInv, DirInv
<1>7. NamesInv' /\ RetriedAsIn' /\ ClaimBacked'
  BY <1>1 DEF IInv, NamesInv, RetriedAsIn, ClaimBacked
<1> QED BY <1>3, <1>5, <1>6, <1>7 DEF IInv

-----------------------------------------------------------------------------
(* Opening and closing *)

LEMMA OpenStep ==
  ASSUME StackAndDevices, IInv, NEW d \in Device, NEW p \in Pipe, Open(d, p)
  PROVE  IInv'
<1>1. PICK e \in Endpoint :
        /\ \A f \in Endpoint : dev[f] = None <=> f >= e
        /\ dev' = [dev EXCEPT ![e] = d] /\ pipe' = [pipe EXCEPT ![e] = p]
        /\ opened' = opened \cup {e}
  BY DEF Open
<1>2. UNCHANGED <<idle, ic, armed, owner, hcchar, dir, hcint, claimed, inflight, started, faulted, panic>>
  BY DEF Open, chanVars, stackVars
<1>3. /\ TypeOK /\ Distinct(idle) /\ TransferTracked /\ FlagsInv /\ NamesInv
      /\ DirInv /\ RetriedAsIn /\ ClaimBacked /\ NoDoubleReturn
      /\ \A k \in Channel \ IdleChannels : Held(k)
  BY DEF IInv
<1>4. dev[e] = None
  BY <1>1, CountAssumption DEF Endpoint
<1>5. e \notin opened \cup inflight
  BY <1>3, <1>4, NoneAssumption DEF NamesInv
<1>6. \A f \in opened \cup inflight : f # e /\ dev'[f] = dev[f] /\ pipe'[f] = pipe[f]
  BY <1>1, <1>3, <1>5 DEF TypeOK
<1>7. dev'[e] = d /\ pipe'[e] = p
  BY <1>1, <1>3 DEF TypeOK
<1>8. \A f \in opened \cup inflight : ~(dev[f] = d /\ pipe[f].num = p.num)
  <2> SUFFICES ASSUME NEW f \in opened \cup inflight, dev[f] = d, pipe[f].num = p.num
               PROVE  FALSE
    OBVIOUS
  <2>1. f \in opened
    BY DEF StackAndDevices, Open
  <2>2. pipe[f] = p
    BY <1>3 DEF StackAndDevices, DistinctNumbers, NamesInv
  <2> QED BY <2>1, <2>2 DEF Open
<1>9. TypeOK'
  BY <1>1, <1>2, <1>3 DEF TypeOK
<1>10. UNCHANGED IdleChannels /\ UNCHANGED Running
  BY <1>2 DEF IdleChannels, Running
<1>11. (\A k \in Channel \ IdleChannels : Held(k))' /\ Distinct(idle)'
  BY <1>2, <1>3, <1>10 DEF Held
<1>12. TransferTracked' /\ FlagsInv' /\ NoDoubleReturn'
  BY <1>2, <1>3, <1>10 DEF TransferTracked, FlagsInv, NoDoubleReturn
<1>13. NamesInv'
  BY <1>1, <1>2, <1>3, <1>6, <1>7, <1>8 DEF NamesInv
<1>14. DirInv' /\ RetriedAsIn'
  BY <1>2, <1>3, <1>6, <1>10 DEF DirInv, RetriedAsIn, Running
<1>15. ClaimBacked'
  <2> SUFFICES ASSUME NEW x \in Device, NEW y \in Pipe
               PROVE  <<x, y>> \in claimed'
                        <=> \E f \in opened' \cap inflight' : dev'[f] = x /\ pipe'[f] = y
    BY DEF ClaimBacked
  <2>1. opened' \cap inflight' = opened \cap inflight /\ claimed' = claimed
    BY <1>1, <1>2, <1>5
  <2> QED BY <2>1, <1>3, <1>6 DEF ClaimBacked
<1> QED BY <1>9, <1>11, <1>12, <1>13, <1>14, <1>15 DEF IInv

LEMMA CloseStep ==
  ASSUME IInv, NEW d \in Device, Close(d)
  PROVE  IInv'
<1>1. UNCHANGED <<idle, dev, pipe, ic, armed, owner, hcchar, dir, hcint, inflight, started, faulted, panic>>
  BY DEF Close, chanVars
<1>2. /\ opened' = {e \in opened : dev[e] # d}
      /\ claimed' = {q \in claimed : q[1] # d}
  BY DEF Close
<1>3. /\ TypeOK /\ Distinct(idle) /\ TransferTracked /\ FlagsInv /\ NamesInv
      /\ DirInv /\ RetriedAsIn /\ ClaimBacked /\ NoDoubleReturn
      /\ \A k \in Channel \ IdleChannels : Held(k)
  BY DEF IInv
<1>4. TypeOK'
  BY <1>1, <1>2, <1>3 DEF TypeOK
<1>5. UNCHANGED IdleChannels /\ UNCHANGED Running
  BY <1>1 DEF IdleChannels, Running
<1>6. (\A k \in Channel \ IdleChannels : Held(k))' /\ Distinct(idle)'
  BY <1>1, <1>3, <1>5 DEF Held
<1>7. TransferTracked' /\ FlagsInv' /\ NoDoubleReturn' /\ DirInv' /\ RetriedAsIn'
  BY <1>1, <1>3, <1>5
     DEF TransferTracked, FlagsInv, NoDoubleReturn, DirInv, RetriedAsIn
<1>8. NamesInv'
  BY <1>1, <1>2, <1>3 DEF NamesInv
<1>9. ClaimBacked'
  <2> SUFFICES ASSUME NEW x \in Device, NEW y \in Pipe
               PROVE  <<x, y>> \in claimed'
                        <=> \E f \in opened' \cap inflight' : dev'[f] = x /\ pipe'[f] = y
    BY DEF ClaimBacked
  <2>1. <<x, y>> \in claimed' <=> <<x, y>> \in claimed /\ x # d
    BY <1>2
  <2> QED BY <2>1, <1>1, <1>2, <1>3 DEF ClaimBacked
<1> QED BY <1>4, <1>6, <1>7, <1>8, <1>9 DEF IInv

-----------------------------------------------------------------------------
(* The interrupt and the controller *)

\* A step that changes HCINTn and HCCHARn only.
LEMMA QuietStep ==
  ASSUME IInv, FlagsInv',
         UNCHANGED <<idle, endpointVars, ic, armed, owner, dir, stackVars, panic>>,
         hcint' \in [Channel -> SUBSET Flag], faulted' \in BOOLEAN,
         hcchar' \in [Channel -> {"disabled", "enabled", "halting"}]
  PROVE  IInv'
<1>1. UNCHANGED <<idle, opened, dev, pipe, ic, armed, owner, dir, claimed, inflight, started, panic>>
  BY DEF endpointVars, stackVars
<1>2. UNCHANGED IdleChannels /\ UNCHANGED Running
  BY <1>1 DEF IdleChannels, Running
<1>3. TypeOK'
  BY <1>1 DEF IInv, TypeOK
<1>4. (\A k \in Channel \ IdleChannels : Held(k))' /\ Distinct(idle)'
  BY <1>1, <1>2 DEF IInv, Held
<1>5. TransferTracked' /\ DirInv' /\ NoDoubleReturn'
  BY <1>1, <1>2 DEF IInv, TransferTracked, DirInv, NoDoubleReturn
<1>6. NamesInv' /\ RetriedAsIn' /\ ClaimBacked'
  BY <1>1 DEF IInv, NamesInv, RetriedAsIn, ClaimBacked
<1> QED BY <1>3, <1>4, <1>5, <1>6 DEF IInv

\* A branch that only acknowledges.
LEMMA AckStep ==
  ASSUME IInv, NEW c \in Channel, Ack(c),
         UNCHANGED <<idle, endpointVars, faulted, ic, armed, owner, hcchar, dir, stackVars, panic>>
  PROVE  IInv'
<1>1. TypeOK /\ FlagsInv
  BY DEF IInv
<1>2. hcint' = [hcint EXCEPT ![c] = {}] /\ hcchar' = hcchar /\ dir' = dir /\ idle' = idle
  BY DEF Ack
<1>3. UNCHANGED IdleChannels
  BY <1>2 DEF IdleChannels
<1>4. FlagsInv'
  BY <1>1, <1>2, <1>3 DEF FlagsInv, TypeOK
<1>5. /\ hcint' \in [Channel -> SUBSET Flag] /\ faulted' \in BOOLEAN
      /\ hcchar' \in [Channel -> {"disabled", "enabled", "halting"}]
  BY <1>1, <1>2 DEF TypeOK
<1> QED BY <1>4, <1>5, QuietStep

\* A report of the controller: on a channel at work whatever is left behind,
\* on another one only a halt.
LEMMA HwStep ==
  ASSUME IInv, NEW c \in Channel, NEW F \in SUBSET Flag, NEW h \in {"disabled", "enabled"},
         HwReport(c, F, h),
         hcchar[c] = "enabled" \/ (F = {"chhltd"} /\ h = "disabled"),
         h = "enabled" => F = {"nak"},
         "frmovrun" \in F => dir[c] = "in"
  PROVE  IInv'
<1>1. TypeOK /\ FlagsInv
  BY DEF IInv
<1>2. /\ hcint' = [hcint EXCEPT ![c] = @ \cup F]
      /\ hcchar' = [hcchar EXCEPT ![c] = h]
      /\ dir' = dir /\ idle' = idle
      /\ UNCHANGED <<idle, endpointVars, ic, armed, owner, dir, stackVars, panic>>
  BY DEF HwReport
<1>3. UNCHANGED IdleChannels
  BY <1>2 DEF IdleChannels
<1>4. /\ hcint'[c] = hcint[c] \cup F /\ hcchar'[c] = h
      /\ \A k \in Channel : k # c => hcint'[k] = hcint[k] /\ hcchar'[k] = hcchar[k]
  BY <1>1, <1>2 DEF TypeOK
<1>5. FlagsInv'
  <2> SUFFICES ASSUME NEW k \in Channel
               PROVE  /\ hcchar'[k] = "enabled" => k \notin IdleChannels /\ hcint'[k] \subseteq {"nak"}
                      /\ hcchar'[k] = "halting" => hcint'[k] = {}
                      /\ k \in IdleChannels => hcint'[k] \subseteq {"chhltd"}
                      /\ "frmovrun" \in hcint'[k] => dir[k] = "in"
    BY <1>2, <1>3 DEF FlagsInv
  <2>1. CASE k = c
    BY <2>1, <1>1, <1>4 DEF FlagsInv
  <2>2. CASE k # c
    BY <2>2, <1>1, <1>4 DEF FlagsInv
  <2> QED BY <2>1, <2>2
<1>6. /\ hcint' \in [Channel -> SUBSET Flag] /\ hcchar' \in [Channel -> {"disabled", "enabled", "halting"}]
      /\ faulted' \in BOOLEAN
  BY <1>1, <1>2 DEF TypeOK, HwReport
<1> QED BY <1>2, <1>5, <1>6, QuietStep

LEMMA HwPreserves ==
  ASSUME IInv, NEW c \in Channel, Hw(c)
  PROVE  IInv'
<1>1. CASE HwComplete(c)
  BY <1>1, HwStep DEF HwComplete, Enabled, Flag
<1>2. CASE HwNakHalt(c)
  BY <1>2, HwStep DEF HwNakHalt, Enabled, Flag
<1>3. CASE HwNak(c)
  BY <1>3, HwStep DEF HwNak, Enabled, Flag
<1>4. CASE HwStall(c)
  BY <1>4, HwStep DEF HwStall, Enabled, Flag, Faults
<1>5. CASE HwXactErr(c)
  BY <1>5, HwStep DEF HwXactErr, Enabled, Flag, Faults
<1>6. CASE HwOverrun(c)
  BY <1>6, HwStep DEF HwOverrun, Enabled, Periodic, Flag, Faults
<1>7. CASE HwHalted(c)
  BY <1>7, HwStep DEF HwHalted, Flag
<1>8. CASE HwHaltAgain(c)
  BY <1>8, HwStep DEF HwHaltAgain, Flag
<1> QED BY <1>1, <1>2, <1>3, <1>4, <1>5, <1>6, <1>7, <1>8 DEF Hw

\* A channel with anything but a late halt to report is off the idle list, and
\* its owner is the running transfer that took it.
LEMMA OwnerRuns ==
  ASSUME IInv, NEW c \in Channel, ~(hcint[c] \subseteq {"chhltd"})
  PROVE  /\ c \notin IdleChannels
         /\ owner[c] \in Endpoint /\ owner[c] \in inflight /\ owner[c] \notin armed
         /\ ic[owner[c]] = c
<1>1. c \notin IdleChannels
  BY DEF IInv, FlagsInv
<1>2. Held(c)
  BY <1>1 DEF IInv
<1> QED BY <1>1, <1>2 DEF Held, Running, IInv, TypeOK

\* Giving a channel back, with its transfer put on the timer or reported.
LEMMA ReturnStep ==
  ASSUME StackAndDevices, IInv, NEW c \in Channel, ~(hcint[c] \subseteq {"chhltd"}),
         Return(owner[c]), Ack(c), UNCHANGED <<endpointVars, faulted, ic, panic>>,
         \/ hcchar[c] # "enabled" /\ UNCHANGED <<hcchar, dir>>
         \/ Halt(c),
         owner' = owner \/ owner' = [owner EXCEPT ![c] = None],
         \/ Arm(owner[c]) /\ UNCHANGED stackVars /\ dir[c] = "in"
         \/ armed' = armed /\ Report(c)
  PROVE  IInv'
<1> DEFINE e == owner[c]
<1>0. /\ TypeOK /\ Distinct(idle) /\ TransferTracked /\ FlagsInv /\ NamesInv
      /\ DirInv /\ RetriedAsIn /\ ClaimBacked /\ NoDoubleReturn
      /\ \A k \in Channel \ IdleChannels : Held(k)
  BY DEF IInv
<1>1. UNCHANGED <<opened, dev, pipe, faulted, ic, panic>>
  BY DEF endpointVars
<1>2. /\ c \notin IdleChannels
      /\ e \in Endpoint /\ e \in inflight /\ e \notin armed /\ ic[e] = c
  BY OwnerRuns
<1>3. e \in Running
  BY <1>2 DEF Running
<1>4. idle' = Append(idle, c) /\ hcint' = [hcint EXCEPT ![c] = {}]
  BY <1>2 DEF Return, Ack
<1>5. IdleChannels = Elems(idle) /\ IdleChannels' = Elems(idle')
  BY DEF IdleChannels, Elems
<1>6. idle' \in Seq(Channel) /\ Distinct(idle') /\ IdleChannels' = IdleChannels \cup {c}
  BY <1>0, <1>2, <1>4, <1>5, AppendFacts DEF TypeOK
<1>7. \/ hcchar[c] # "enabled" /\ hcchar' = hcchar /\ dir' = dir
      \/ hcchar' = [hcchar EXCEPT ![c] = "halting"] /\ dir' = [dir EXCEPT ![c] = "out"]
  BY DEF Halt
<1>8. /\ \/ /\ armed' = armed \cup {e} /\ inflight' = inflight /\ claimed' = claimed
            /\ dir[c] = "in"
            /\ started' = started
         \/ /\ armed' = armed /\ inflight' = inflight \ {e}
            /\ started' = [started EXCEPT ![e] = None]
      /\ \A f \in Endpoint : f # e => started'[f] = started[f]
  <2>1. CASE Arm(e) /\ UNCHANGED stackVars /\ dir[c] = "in"
    BY <2>1 DEF Arm, stackVars
  <2>2. CASE armed' = armed /\ Report(c)
    BY <2>2, <1>0 DEF Report, TypeOK
  <2> QED BY <2>1, <2>2
<1>9. \A k \in Channel : k # c => owner'[k] = owner[k] /\ dir'[k] = dir[k]
  BY <1>0, <1>7 DEF TypeOK
<1> HIDE DEF e
<1>10. Running' = Running \ {e}
  BY <1>2, <1>8 DEF Running
<1>11. \A f \in Running' : f \in Running /\ f # e /\ ic[f] \in Channel /\ ic[f] # c
  BY <1>0, <1>10 DEF TransferTracked, e
<1>12. TypeOK'
  <2>1. owner' \in [Channel -> Endpoint \cup {None}]
    BY <1>0 DEF TypeOK
  <2>2. hcchar' \in [Channel -> {"disabled", "enabled", "halting"}]
    BY <1>0, <1>7 DEF TypeOK
  <2>3. dir' \in [Channel -> {"setup", "in", "out"}]
    BY <1>0, <1>7 DEF TypeOK
  <2>4. hcint' \in [Channel -> SUBSET Flag]
    BY <1>0, <1>4 DEF TypeOK
  <2>5. armed' \subseteq Endpoint /\ inflight' \subseteq Endpoint
    BY <1>0, <1>2, <1>8 DEF TypeOK
  <2>6. claimed' \subseteq Device \X Pipe
    BY <1>0 DEF TypeOK, Report, stackVars
  <2>7. started' \in [Endpoint -> {"setup", "in", "out", None}]
    BY <1>0, <1>8 DEF TypeOK
  <2> QED BY <1>0, <1>1, <1>6, <2>1, <2>2, <2>3, <2>4, <2>5, <2>6, <2>7 DEF TypeOK
<1>13. (\A k \in Channel \ IdleChannels : Held(k))'
  <2> SUFFICES ASSUME NEW k \in Channel, k \notin IdleChannels' PROVE Held(k)'
    OBVIOUS
  <2>1. k # c /\ Held(k)
    BY <1>0, <1>6
  <2>2. owner[k] # e
    BY <2>1, <1>2 DEF Held
  <2> QED BY <2>1, <2>2, <1>1, <1>9, <1>10 DEF Held
<1>14. TransferTracked'
  BY <1>0, <1>1, <1>6, <1>9, <1>11 DEF TransferTracked
<1>15. FlagsInv'
  <2> SUFFICES ASSUME NEW k \in Channel
               PROVE  /\ hcchar'[k] = "enabled" => k \notin IdleChannels' /\ hcint'[k] \subseteq {"nak"}
                      /\ hcchar'[k] = "halting" => hcint'[k] = {}
                      /\ k \in IdleChannels' => hcint'[k] \subseteq {"chhltd"}
                      /\ "frmovrun" \in hcint'[k] => dir'[k] = "in"
    BY DEF FlagsInv
  <2>1. CASE k = c
    BY <2>1, <1>0, <1>4, <1>7 DEF TypeOK
  <2>2. CASE k # c
    <3>1. hcint'[k] = hcint[k] /\ hcchar'[k] = hcchar[k]
      BY <2>2, <1>0, <1>4, <1>7 DEF TypeOK
    <3> QED BY <2>2, <3>1, <1>0, <1>6, <1>9 DEF FlagsInv
  <2> QED BY <2>1, <2>2
<1>16. NamesInv'
  BY <1>0, <1>1, <1>8 DEF NamesInv
<1>17. DirInv'
  <2>1. \A f \in inflight' : f \in inflight /\ f \in Endpoint /\ started'[f] = started[f]
    BY <1>0, <1>2, <1>8 DEF TypeOK
  <2>2. \A f \in Running' : f \in Running /\ f \in inflight'
    BY <1>11 DEF Running
  <2> QED BY <2>1, <2>2, <1>0, <1>1, <1>9, <1>11 DEF DirInv
<1>18. RetriedAsIn'
  <2>1. dir[c] = "in" => started[e] = "in"
    BY <1>0, <1>2, <1>3 DEF DirInv
  <2> SUFFICES ASSUME NEW f \in armed' PROVE f \in inflight' /\ started'[f] = "in"
    BY DEF RetriedAsIn
  <2>2. CASE f = e
    BY <2>1, <2>2, <1>2, <1>8
  <2>3. CASE f # e
    BY <2>3, <1>0, <1>8 DEF RetriedAsIn, TypeOK
  <2> QED BY <2>2, <2>3
<1>19. ClaimBacked'
  <2> SUFFICES ASSUME NEW d \in Device, NEW p \in Pipe
               PROVE  <<d, p>> \in claimed'
                        <=> \E f \in opened' \cap inflight' : dev'[f] = d /\ pipe'[f] = p
    BY DEF ClaimBacked
  <2>0. <<d, p>> \in claimed <=> \E f \in opened \cap inflight : dev[f] = d /\ pipe[f] = p
    BY <1>0 DEF ClaimBacked
  <2>1. CASE inflight' = inflight /\ claimed' = claimed
    BY <2>0, <2>1, <1>1
  <2>2. CASE Report(c)
    <3> DEFINE how == IF dir[c] = "in" THEN "in" ELSE "out"
    <3>1. inflight' = inflight \ {e}
      BY <2>2 DEF Report, e
    <3>2. <<d, p>> \in claimed'
            <=> <<d, p>> \in claimed /\ ~(d = dev[e] /\ p.num = pipe[e].num /\ how \in Dirs(p))
      BY <2>2 DEF Report, e
    <3>3. how \in Dirs(pipe[e]) /\ pipe[e] \in Pipe
      BY <1>0, <1>2, <1>3 DEF DirInv, NamesInv, Way
    <3>4. p.num = pipe[e].num => p = pipe[e]
      BY <3>3 DEF StackAndDevices, DistinctNumbers
    <3>5. (d = dev[e] /\ p.num = pipe[e].num /\ how \in Dirs(p)) <=> (dev[e] = d /\ pipe[e] = p)
      BY <3>3, <3>4
    <3>6. \A f \in inflight : dev[f] = dev[e] /\ pipe[f] = pipe[e] => f = e
      BY <1>0, <1>2 DEF NamesInv
    <3> HIDE DEF how
    <3>7. ASSUME <<d, p>> \in claimed' PROVE \E f \in opened' \cap inflight' : dev'[f] = d /\ pipe'[f] = p
      <4>1. PICK f \in opened \cap inflight : dev[f] = d /\ pipe[f] = p
        BY <3>7, <3>2, <2>0
      <4>2. f # e
        BY <3>7, <3>2, <3>5, <4>1
      <4> QED BY <4>1, <4>2, <3>1, <1>1
    <3>8. ASSUME NEW f \in opened' \cap inflight', dev'[f] = d, pipe'[f] = p PROVE <<d, p>> \in claimed'
      <4>1. f \in opened \cap inflight /\ f # e /\ dev[f] = d /\ pipe[f] = p
        BY <3>8, <3>1, <1>1
      <4>2. ~(dev[e] = d /\ pipe[e] = p)
        BY <4>1, <3>6
      <4> QED BY <4>1, <4>2, <2>0, <3>2, <3>5
    <3> QED BY <3>7, <3>8
  <2> QED BY <2>1, <2>2, <1>8 DEF stackVars
<1>20. NoDoubleReturn'
  BY <1>0, <1>1 DEF NoDoubleReturn
<1> QED BY <1>6, <1>12, <1>13, <1>14, <1>15, <1>16, <1>17, <1>18, <1>19, <1>20 DEF IInv

LEMMA IrqPreserves ==
  ASSUME StackAndDevices, IInv, NEW c \in Channel, Irq(c)
  PROVE  IInv'
<1>0. TypeOK /\ FlagsInv
  BY DEF IInv
<1>1. CASE IrqUnowned(c)
  BY <1>1, AckStep DEF IrqUnowned
<1>2. CASE IrqIgnored(c)
  BY <1>2, AckStep DEF IrqIgnored
<1>3. CASE IrqNakHalt(c)
  <2>1. ~(hcint[c] \subseteq {"chhltd"}) /\ ~(hcint[c] \subseteq {"nak"}) /\ dir[c] = "in"
    BY <1>3 DEF IrqNakHalt, IsNakHalt, TypeField
  <2>2. owner[c] \notin armed /\ ic[owner[c]] \notin IdleChannels /\ hcchar[c] # "enabled"
    BY <1>0, <2>1, OwnerRuns DEF FlagsInv
  <2>3. /\ Arm(owner[c]) /\ Return(owner[c]) /\ Ack(c)
        /\ UNCHANGED <<endpointVars, faulted, ic, owner, hcchar, dir, stackVars, panic>>
    BY <1>3, <2>2 DEF IrqNakHalt, ArmFails, ReturnFails
  <2> QED BY <2>1, <2>2, <2>3, ReturnStep
<1>4. CASE IrqComplete(c)
  <2>1. ~(hcint[c] \subseteq {"chhltd"}) /\ ~(hcint[c] \subseteq {"nak"})
    BY <1>4 DEF IrqComplete
  <2>2. owner[c] \notin armed /\ ic[owner[c]] \notin IdleChannels /\ hcchar[c] # "enabled"
    BY <1>0, <2>1, OwnerRuns DEF FlagsInv
  <2>3. /\ armed' = armed \ {owner[c]} /\ owner' = [owner EXCEPT ![c] = None]
        /\ Return(owner[c]) /\ Report(c) /\ Ack(c)
        /\ UNCHANGED <<endpointVars, faulted, ic, hcchar, dir, panic>>
    BY <1>4, <2>2 DEF IrqComplete, ReturnFails
  <2>4. armed' = armed
    BY <2>2, <2>3
  <2> QED BY <2>1, <2>2, <2>3, <2>4, ReturnStep
<1>5. CASE IrqOverrun(c)
  <2>1. ~(hcint[c] \subseteq {"chhltd"}) /\ dir[c] = "in"
    BY <1>0, <1>5 DEF IrqOverrun, FlagsInv
  <2>2. owner[c] \notin armed /\ ic[owner[c]] \notin IdleChannels
    BY <2>1, OwnerRuns
  <2>3. /\ Arm(owner[c]) /\ Return(owner[c]) /\ Halt(c) /\ Ack(c)
        /\ UNCHANGED <<endpointVars, faulted, ic, owner, stackVars, panic>>
    BY <1>5, <2>2 DEF IrqOverrun, ArmFails, ReturnFails
  <2> QED BY <2>1, <2>2, <2>3, ReturnStep
<1>6. CASE IrqXactErr(c)
  <2>1. ~(hcint[c] \subseteq {"chhltd"})
    BY <1>6 DEF IrqXactErr
  <2>2. ic[owner[c]] \notin IdleChannels
    BY <2>1, OwnerRuns
  <2>3. /\ Return(owner[c]) /\ Halt(c) /\ Report(c) /\ Ack(c)
        /\ UNCHANGED <<endpointVars, faulted, ic, armed, owner, panic>>
    BY <1>6, <2>2 DEF IrqXactErr, ReturnFails
  <2> QED BY <2>1, <2>3, ReturnStep
<1> QED BY <1>1, <1>2, <1>3, <1>4, <1>5, <1>6 DEF Irq

-----------------------------------------------------------------------------
(* The stack and the timer *)

\* The endpoint the number lookup finds is the one of the pipe, and it has no
\* transfer when the stack has none outstanding on that pipe.
LEMMA LookupFindsPipe ==
  ASSUME StackAndDevices, IInv, NEW d \in Device, NEW p \in Pipe, NEW e \in opened,
         FirstOpen(e, d, p.num), <<d, p>> \notin claimed
  PROVE  e \in Endpoint /\ e \notin inflight /\ dev[e] = d /\ pipe[e] = p
<1>1. dev[e] = d /\ pipe[e].num = p.num
  BY DEF FirstOpen
<1>2. pipe[e] \in Pipe /\ e \in Endpoint
  BY DEF IInv, NamesInv, TypeOK
<1>3. pipe[e] = p
  BY <1>1, <1>2 DEF StackAndDevices, DistinctNumbers
<1>4. e \notin inflight
  BY <1>1, <1>3 DEF IInv, ClaimBacked
<1> QED BY <1>1, <1>2, <1>3, <1>4

LEMMA StartFailsStep ==
  ASSUME IInv, NEW how, StartFails(how)
  PROVE  IInv'
BY FailStep DEF StartFails

LEMMA SetupPreserves ==
  ASSUME StackAndDevices, IInv, NEW d \in Device, NEW p \in Pipe, SetupSend(d, p)
  PROVE  IInv'
<1>1. PICK e \in opened :
        /\ FirstOpen(e, d, 0)
        /\ \/ /\ StartOK(e, "setup") /\ claimed' = claimed \cup {<<d, p>>}
              /\ started' = [started EXCEPT ![e] = "setup"]
           \/ StartFails("setup")
  BY DEF SetupSend
<1>2. p.num = 0 /\ <<d, p>> \notin claimed
  BY DEF SetupSend
<1>3. e \in Endpoint /\ e \notin inflight /\ dev[e] = d /\ pipe[e] = p
  BY <1>1, <1>2, LookupFindsPipe
<1>4. Way("setup") \in Dirs(pipe[e])
  BY <1>2, <1>3, ControlAssumption DEF Dirs, Way
<1>5. CASE /\ StartOK(e, "setup") /\ claimed' = claimed \cup {<<d, p>>}
           /\ started' = [started EXCEPT ![e] = "setup"]
  BY <1>3, <1>4, <1>5, StartStep
<1> QED BY <1>1, <1>5, StartFailsStep

LEMMA XferPreserves ==
  ASSUME StackAndDevices, IInv, NEW d \in Device, NEW p \in Pipe,
         NEW how \in {"in", "out"}, EdptXfer(d, p, how)
  PROVE  IInv'
<1>1. PICK e \in opened :
        /\ FirstOpen(e, d, p.num)
        /\ \/ /\ StartOK(e, how) /\ claimed' = claimed \cup {<<d, p>>}
              /\ started' = [started EXCEPT ![e] = how]
           \/ StartFails(how)
  BY DEF EdptXfer
<1>2. how \in Dirs(p) /\ <<d, p>> \notin claimed
  BY DEF EdptXfer
<1>3. e \in Endpoint /\ e \notin inflight /\ dev[e] = d /\ pipe[e] = p
  BY <1>1, <1>2, LookupFindsPipe
<1>4. Way(how) \in Dirs(pipe[e])
  BY <1>2, <1>3 DEF Way
<1>5. CASE /\ StartOK(e, how) /\ claimed' = claimed \cup {<<d, p>>}
           /\ started' = [started EXCEPT ![e] = how]
  BY <1>3, <1>4, <1>5, StartStep
<1> QED BY <1>1, <1>5, StartFailsStep

LEMMA RetryPreserves ==
  ASSUME StackAndDevices, IInv, NEW e \in Endpoint, RetryFires(e)
  PROVE  IInv'
<1>1. e \in armed /\ Way("in") \in Dirs(pipe[e])
  BY DEF RetryFires, IInv, RetriedAsIn, DirInv, Way
<1>2. CASE StartOK(e, "in") /\ UNCHANGED <<claimed, started>>
  BY <1>1, <1>2, StartStep
<1> QED BY <1>2, StartFailsStep DEF RetryFires

-----------------------------------------------------------------------------
(* A start finds an idle channel *)

\* When every channel is taken, so is every pipe: a transfer that is about to
\* start, anew or by its timer, finds a channel.
LEMMA ChannelLeft ==
  ASSUME EnoughChannels, IInv, NEW e \in opened \cup inflight, e \notin Running
  PROVE  idle # <<>>
<1> SUFFICES ASSUME idle = <<>> PROVE FALSE
  OBVIOUS
<1> DEFINE P == Device \X Pipe
           Q == P \ {<<dev[e], pipe[e]>>}
           f == [c \in Channel |-> <<dev[owner[c]], pipe[owner[c]]>>]
<1>1. NamesInv /\ \A c \in Channel : Held(c)
  BY DEF IInv, IdleChannels
<1>2. /\ <<dev[e], pipe[e]>> \in P
      /\ \A c \in Channel : owner[c] \in opened \cup inflight /\ owner[c] # e
  BY <1>1 DEF NamesInv, Held, Running
<1>3. f \in [Channel -> Q]
  <2> SUFFICES ASSUME NEW c \in Channel PROVE <<dev[owner[c]], pipe[owner[c]]>> \in Q
    OBVIOUS
  <2> QED BY <1>1, <1>2 DEF NamesInv
<1>4. IsFiniteSet(Channel) /\ Cardinality(Channel) = ChannelCount
  BY FS_Interval, CountAssumption DEF Channel
<1>5. IsFiniteSet(P) /\ Cardinality(P) \in Nat /\ Cardinality(P) <= ChannelCount
  BY FS_CardinalityType DEF EnoughChannels
<1>6. IsFiniteSet(Q) /\ Cardinality(Q) = Cardinality(P) - 1
  <2> HIDE DEF P
  <2> QED BY <1>2, <1>5, FS_RemoveElement
<1>7. Cardinality(Q) < Cardinality(Channel)
  BY <1>4, <1>5, <1>6, CountAssumption
<1>8. PICK c, k \in Channel : c # k /\ f[c] = f[k]
  <2> HIDE DEF f, Q
  <2> QED BY <1>3, <1>4, <1>6, <1>7, FS_PigeonHole
<1>9. dev[owner[c]] = dev[owner[k]] /\ pipe[owner[c]] = pipe[owner[k]]
  BY <1>8
<1>10. owner[c] = owner[k]
  BY <1>1, <1>2, <1>9 DEF NamesInv
<1> QED BY <1>1, <1>8, <1>10 DEF Held

\* The transfers that may start: a new one of the stack, or one the timer holds.
LEMMA StartsHaveRoom ==
  ASSUME StackAndDevices, EnoughChannels, IInv
  PROVE  /\ \A d \in Device, p \in Pipe, e \in opened :
              FirstOpen(e, d, p.num) /\ <<d, p>> \notin claimed => idle # <<>>
         /\ \A e \in armed : idle # <<>>
<1>1. ASSUME NEW d \in Device, NEW p \in Pipe, NEW e \in opened,
             FirstOpen(e, d, p.num), <<d, p>> \notin claimed
      PROVE  idle # <<>>
  BY <1>1, LookupFindsPipe, ChannelLeft DEF Running
<1>2. ASSUME NEW e \in armed PROVE idle # <<>>
  BY <1>2, ChannelLeft DEF IInv, RetriedAsIn, Running
<1> QED BY <1>1, <1>2

\* The starts that fail for want of a channel are the only steps that set panic so.
LEMMA FoundStep ==
  ASSUME StackAndDevices, EnoughChannels, IInv, IdleChannelFound, [Next]_vars
  PROVE  IdleChannelFound'
<1>1. \A how : StartFails(how) /\ idle # <<>> => panic' = "channel_enabled"
  BY DEF StartFails, Fail
<1>2. \A how, e : StartOK(e, how) => panic' = panic
  BY DEF StartOK
<1>3. ASSUME NEW d \in Device, NEW p \in Pipe, SetupSend(d, p) PROVE IdleChannelFound'
  BY <1>1, <1>2, <1>3, StartsHaveRoom DEF SetupSend, IdleChannelFound
<1>4. ASSUME NEW d \in Device, NEW p \in Pipe, NEW how, EdptXfer(d, p, how)
      PROVE  IdleChannelFound'
  BY <1>1, <1>2, <1>4, StartsHaveRoom DEF EdptXfer, IdleChannelFound
<1>5. ASSUME NEW e \in Endpoint, RetryFires(e) PROVE IdleChannelFound'
  BY <1>1, <1>2, <1>5, StartsHaveRoom DEF RetryFires, IdleChannelFound
<1>6. ASSUME NEW c \in Channel, Irq(c) PROVE IdleChannelFound'
  BY <1>6 DEF Irq, IrqUnowned, IrqNakHalt, IrqComplete, IrqIgnored, IrqOverrun, IrqXactErr,
              ArmFails, ReturnFails, Fail, IdleChannelFound
<1>7. ASSUME NEW c \in Channel, Hw(c) PROVE IdleChannelFound'
  BY <1>7 DEF Hw, HwComplete, HwNakHalt, HwNak, HwStall, HwXactErr, HwOverrun, HwHalted,
              HwHaltAgain, HwReport, IdleChannelFound
<1>8. ASSUME NEW d \in Device, NEW p \in Pipe, Open(d, p) PROVE IdleChannelFound'
  BY <1>8 DEF Open, IdleChannelFound
<1>9. ASSUME NEW d \in Device, Close(d) PROVE IdleChannelFound'
  BY <1>9 DEF Close, IdleChannelFound
<1>10. ASSUME UNCHANGED vars PROVE IdleChannelFound'
  BY <1>10 DEF vars, IdleChannelFound
<1> QED BY <1>3, <1>4, <1>5, <1>6, <1>7, <1>8, <1>9, <1>10 DEF Next

-----------------------------------------------------------------------------
(* Without a fault no assertion fails *)

\* A step that leaves channel k alone.
LEMMA SameChannel ==
  ASSUME NEW k \in Channel, Clean(k),
         hcint'[k] = hcint[k], hcchar'[k] = hcchar[k], dir'[k] = dir[k], owner'[k] = owner[k],
         k \in IdleChannels => k \in IdleChannels',
         k \in IdleChannels \/ pipe'[owner[k]] = pipe[owner[k]]
  PROVE  Clean(k)'
BY DEF Clean, AtWork, IsNakHalt, TypeField

\* A start takes a channel that is off, and switches it on.
LEMMA CalmStart ==
  ASSUME IInv, panic = "none", \A c \in Channel : Clean(c),
         NEW e \in Endpoint, NEW how \in {"setup", "in", "out"}, idle # <<>>,
         StartOK(e, how) \/ StartFails(how)
  PROVE  panic' = "none" /\ \A c \in Channel : Clean(c)'
<1> DEFINE c == Head(idle)
<1>0. TypeOK /\ Distinct(idle) /\ FlagsInv
  BY DEF IInv
<1>1. IdleChannels = Elems(idle) /\ IdleChannels' = Elems(idle')
  BY DEF IdleChannels, Elems
<1>2. c \in Channel /\ c \in IdleChannels
  BY <1>0, <1>1, TailFacts DEF TypeOK
<1>3. hcchar[c] = "disabled"
  BY <1>0, <1>2 DEF FlagsInv, Clean, TypeOK
<1>4. StartOK(e, how)
  BY <1>3 DEF StartFails
<1>5. /\ idle' = Tail(idle)
      /\ owner' = [owner EXCEPT ![c] = e] /\ dir' = [dir EXCEPT ![c] = how]
      /\ hcint' = [hcint EXCEPT ![c] = {}] /\ pipe' = pipe /\ panic' = panic
  BY <1>4 DEF StartOK, endpointVars
<1>6. hcchar' = [hcchar EXCEPT ![c] = "enabled"]
  BY <1>3, <1>4 DEF StartOK
<1>7. IdleChannels' = IdleChannels \ {c}
  BY <1>0, <1>1, <1>5, TailFacts DEF TypeOK
<1> HIDE DEF c
<1>8. ASSUME NEW k \in Channel, k = c PROVE Clean(k)'
  BY <1>0, <1>5, <1>6, <1>8 DEF Clean, AtWork, TypeOK
<1>9. ASSUME NEW k \in Channel, k # c PROVE Clean(k)'
  <2>1. /\ hcint'[k] = hcint[k] /\ hcchar'[k] = hcchar[k] /\ dir'[k] = dir[k]
        /\ owner'[k] = owner[k] /\ pipe'[owner[k]] = pipe[owner[k]]
    BY <1>0, <1>2, <1>5, <1>6, <1>9 DEF TypeOK
  <2>2. Clean(k) /\ (k \in IdleChannels => k \in IdleChannels')
    BY <1>7, <1>9
  <2> QED BY <2>1, <2>2, SameChannel
<1> QED BY <1>5, <1>8, <1>9

\* The interrupt gives a channel back, or has nothing to say about it.
LEMMA CalmIrq ==
  ASSUME IInv, panic = "none", \A c \in Channel : Clean(c),
         NEW c \in Channel, Irq(c)
  PROVE  panic' = "none" /\ \A k \in Channel : Clean(k)'
<1>0. TypeOK /\ FlagsInv /\ \A k \in Channel \ IdleChannels : Held(k)
  BY DEF IInv
<1>1. hcint[c] \cap Faults = {} /\ "frmovrun" \notin hcint[c] /\ "xacterr" \notin hcint[c]
  BY DEF Clean, Faults
<1>2. ~IrqOverrun(c) /\ ~IrqXactErr(c)
  BY <1>1 DEF IrqOverrun, IrqXactErr
\* A branch that only acknowledges: the channel is idle, or still at work.
<1>3. CASE IrqUnowned(c) \/ IrqIgnored(c)
  <2>1. /\ hcint' = [hcint EXCEPT ![c] = {}]
        /\ UNCHANGED <<idle, pipe, owner, hcchar, dir, panic>>
    BY <1>3 DEF IrqUnowned, IrqIgnored, Ack, endpointVars
  <2>2. UNCHANGED IdleChannels
    BY <2>1 DEF IdleChannels
  <2>3. c \in IdleChannels \/ hcchar[c] = "enabled"
    <3>0. None \notin Endpoint
      BY NoneAssumption, CountAssumption DEF Endpoint
    <3>1. CASE IrqUnowned(c)
      BY <3>0, <3>1, <1>0 DEF IrqUnowned, Held, Running, TypeOK
    <3>2. CASE IrqIgnored(c)
      BY <3>2 DEF IrqIgnored, Clean, AtWork
    <3> QED BY <1>3, <3>1, <3>2
  <2>4. Clean(c)'
    BY <2>1, <2>2, <2>3, <1>0 DEF Clean, AtWork, TypeOK
  <2>5. ASSUME NEW k \in Channel, k # c PROVE Clean(k)'
    <3>1. hcint'[k] = hcint[k]
      BY <2>1, <2>5, <1>0 DEF TypeOK
    <3> QED BY <3>1, <2>1, <2>2, SameChannel
  <2> QED BY <2>1, <2>4, <2>5
\* A branch that gives the channel back.
<1>4. CASE IrqNakHalt(c) \/ IrqComplete(c)
  <2>1. ~(hcint[c] \subseteq {"chhltd"})
    BY <1>4 DEF IrqNakHalt, IsNakHalt, IrqComplete
  <2>2. /\ ic[owner[c]] = c /\ c \notin IdleChannels
        /\ owner[c] \notin armed
    BY <2>1, OwnerRuns
  <2>3. ~ArmFails(owner[c]) /\ ~ReturnFails(owner[c])
    BY <2>2 DEF ArmFails, ReturnFails
  <2>4. /\ idle' = Append(idle, c) /\ hcint' = [hcint EXCEPT ![c] = {}]
        /\ UNCHANGED <<pipe, hcchar, dir, panic>>
        /\ owner' = owner \/ owner' = [owner EXCEPT ![c] = None]
    BY <1>4, <2>2, <2>3 DEF IrqNakHalt, IrqComplete, Return, Ack, endpointVars
  <2>5. IdleChannels' = IdleChannels \cup {c}
    <3>1. IdleChannels = Elems(idle) /\ IdleChannels' = Elems(idle')
      BY DEF IdleChannels, Elems
    <3> QED BY <3>1, <2>2, <2>4, AppendFacts DEF IInv, TypeOK
  <2>6. Clean(c)'
    BY <2>4, <2>5, <1>0 DEF Clean, TypeOK
  <2>7. ASSUME NEW k \in Channel, k # c PROVE Clean(k)'
    <3>1. hcint'[k] = hcint[k] /\ owner'[k] = owner[k]
      BY <2>4, <2>7, <1>0 DEF TypeOK
    <3> QED BY <3>1, <2>4, <2>5, SameChannel
  <2> QED BY <2>4, <2>6, <2>7
<1> QED BY <1>2, <1>3, <1>4 DEF Irq

\* The controller ends a transfer, or says nothing the interrupt would act on.
LEMMA CalmHw ==
  ASSUME IInv, panic = "none", \A c \in Channel : Clean(c),
         NEW c \in Channel, Hw(c), ~faulted'
  PROVE  panic' = "none" /\ \A k \in Channel : Clean(k)'
<1>0. TypeOK /\ FlagsInv
  BY DEF IInv
<1>1. ~HwStall(c) /\ ~HwXactErr(c) /\ ~HwOverrun(c)
  BY DEF HwStall, HwXactErr, HwOverrun, HwReport, Faults
<1>2. ~HwHalted(c)
  BY DEF HwHalted, Clean
<1>3. PICK F \in SUBSET Flag, h \in {"disabled", "enabled"} :
        /\ HwReport(c, F, h)
        /\ \/ F = {"xfercompl"} /\ h = "disabled"
           \/ F = {"nak", "chhltd"} /\ h = "disabled" /\ Periodic(c) /\ hcchar[c] = "enabled"
           \/ F = {"nak"} /\ h = "enabled"
           \/ F = {"chhltd"} /\ h = "disabled" /\ hcchar[c] = "disabled" /\ "chhltd" \notin hcint[c]
  BY <1>1, <1>2 DEF Hw, HwComplete, HwNakHalt, HwNak, HwHaltAgain, Enabled, Flag
<1>4. /\ hcint' = [hcint EXCEPT ![c] = @ \cup F]
      /\ hcchar' = [hcchar EXCEPT ![c] = h]
      /\ UNCHANGED <<idle, pipe, owner, dir, panic>>
  BY <1>3 DEF HwReport, endpointVars
<1>5. hcint'[c] = hcint[c] \cup F /\ hcchar'[c] = h
  BY <1>0, <1>4 DEF TypeOK
<1>6. UNCHANGED IdleChannels
  BY <1>4 DEF IdleChannels
<1>7. hcint'[c] \cap Faults = {} /\ hcchar'[c] # "halting"
  BY <1>3, <1>5 DEF Clean, Faults
<1>8. c \in IdleChannels' \/ AtWork(c)'
  <2>1. CASE F = {"nak", "chhltd"} /\ Periodic(c) /\ hcchar[c] = "enabled"
    <3>1. hcint'[c] = {"nak", "chhltd"}
      BY <2>1, <1>0, <1>5 DEF FlagsInv
    <3> QED BY <2>1, <3>1, <1>4 DEF Periodic, AtWork, IsNakHalt, TypeField
  <2>2. CASE F = {"chhltd"} /\ hcchar[c] = "disabled" /\ "chhltd" \notin hcint[c]
    BY <2>2, <1>5, <1>6 DEF Clean, AtWork, IsNakHalt
  <2> QED BY <2>1, <2>2, <1>3, <1>5 DEF AtWork
<1>9. ASSUME NEW k \in Channel, k # c PROVE Clean(k)'
  <2>1. hcint'[k] = hcint[k] /\ hcchar'[k] = hcchar[k]
    BY <1>0, <1>4, <1>9 DEF TypeOK
  <2> QED BY <2>1, <1>4, <1>6, SameChannel
<1> QED BY <1>4, <1>7, <1>8, <1>9 DEF Clean

\* The steps that touch no channel.
LEMMA CalmElsewhere ==
  ASSUME IInv, \A c \in Channel : Clean(c),
         UNCHANGED <<idle, ic, owner, hcchar, dir, hcint, panic>>,
         \A e \in inflight : pipe'[e] = pipe[e]
  PROVE  panic' = panic /\ \A c \in Channel : Clean(c)'
<1>1. UNCHANGED IdleChannels
  BY DEF IdleChannels
<1>2. ASSUME NEW k \in Channel PROVE Clean(k)'
  <2>1. k \in IdleChannels \/ owner[k] \in inflight
    BY DEF IInv, Held, Running
  <2> QED BY <1>1, <2>1, SameChannel
<1> QED BY <1>2

LEMMA CalmStep ==
  ASSUME StackAndDevices, IInv, Calm, [Next]_vars
  PROVE  Calm'
<1> SUFFICES ASSUME ~faulted'
             PROVE  /\ panic' \in {"none", "no_idle_channel"}
                    /\ \A c \in Channel : Clean(c)'
  BY DEF Calm
<1>1. ~faulted
  <2>1. \A c : Hw(c) => (faulted => faulted')
    BY DEF Hw, HwComplete, HwNakHalt, HwNak, HwStall, HwXactErr, HwOverrun, HwHalted,
           HwHaltAgain, HwReport
  <2>2. \A c : Irq(c) => faulted' = faulted
    BY DEF Irq, IrqUnowned, IrqNakHalt, IrqComplete, IrqIgnored, IrqOverrun, IrqXactErr,
           ArmFails, ReturnFails, Fail
  <2>3. \A e, how : StartOK(e, how) \/ StartFails(how) => faulted' = faulted
    BY DEF StartOK, StartFails, Fail
  <2> QED BY <2>1, <2>2, <2>3
          DEF Next, Open, Close, SetupSend, EdptXfer, RetryFires, vars
<1>2. \A c \in Channel : Clean(c)
  BY <1>1 DEF Calm
<1>3. opened \subseteq Endpoint /\ armed \subseteq Endpoint
  BY DEF IInv, TypeOK
<1>4. ASSUME NEW e \in Endpoint, NEW how \in {"setup", "in", "out"}, panic = "none",
             StartOK(e, how) \/ StartFails(how)
      PROVE  /\ panic' \in {"none", "no_idle_channel"}
             /\ \A c \in Channel : Clean(c)'
  <2>1. CASE idle # <<>>
    BY <1>2, <1>4, <2>1, CalmStart
  <2>2. CASE idle = <<>>
    <3>1. /\ UNCHANGED <<idle, pipe, owner, hcchar, dir, hcint>>
          /\ panic' = "no_idle_channel"
      BY <1>4, <2>2 DEF StartOK, StartFails, Fail, endpointVars, chanVars
    <3>2. UNCHANGED IdleChannels
      BY <3>1 DEF IdleChannels
    <3> QED BY <1>2, <3>1, <3>2, SameChannel
  <2> QED BY <2>1, <2>2
<1>5. CASE \E d \in Device, p \in Pipe :
             SetupSend(d, p) \/ \E how \in {"in", "out"} : EdptXfer(d, p, how)
  BY <1>3, <1>4, <1>5 DEF SetupSend, EdptXfer
<1>6. CASE \E e \in Endpoint : RetryFires(e)
  BY <1>4, <1>6 DEF RetryFires
<1>7. CASE \E c \in Channel : Irq(c)
  <2>1. panic = "none"
    BY <1>7 DEF Irq, IrqUnowned, IrqNakHalt, IrqComplete, IrqIgnored, IrqOverrun, IrqXactErr
  <2> QED BY <1>2, <1>7, <2>1, CalmIrq
<1>8. CASE \E c \in Channel : Hw(c)
  <2>1. panic = "none"
    BY <1>8 DEF Hw, HwComplete, HwNakHalt, HwNak, HwStall, HwXactErr, HwOverrun, HwHalted,
                HwHaltAgain, Enabled
  <2> QED BY <1>2, <1>8, <2>1, CalmHw
<1>9. CASE \E d \in Device, p \in Pipe : Open(d, p)
  <2>1. PICK d \in Device, p \in Pipe : Open(d, p)
    BY <1>9
  <2>2. PICK e \in Endpoint : dev[e] = None /\ pipe' = [pipe EXCEPT ![e] = p]
    <3>1. \A e \in Endpoint : e >= e
      BY DEF Endpoint
    <3> QED BY <2>1, <3>1 DEF Open
  <2>3. \A f \in inflight : f # e
    BY <2>2, NoneAssumption DEF IInv, NamesInv
  <2>4. \A f \in inflight : pipe'[f] = pipe[f]
    BY <2>2, <2>3 DEF IInv, TypeOK
  <2>5. UNCHANGED <<idle, ic, owner, hcchar, dir, hcint, panic>>
    BY <2>1 DEF Open, chanVars
  <2> QED BY <1>1, <1>2, <2>4, <2>5, CalmElsewhere DEF Calm
<1>10. CASE (\E d \in Device : Close(d)) \/ UNCHANGED vars
  <2>1. UNCHANGED <<idle, pipe, ic, owner, hcchar, dir, hcint, panic>>
    BY <1>10 DEF Close, chanVars, endpointVars, vars
  <2> QED BY <1>1, <1>2, <2>1, CalmElsewhere DEF Calm
<1> QED BY <1>5, <1>6, <1>7, <1>8, <1>9, <1>10 DEF Next

-----------------------------------------------------------------------------
(* The theorems *)

LEMMA Stuttering == ASSUME IInv, UNCHANGED vars PROVE IInv'
<1>1. /\ UNCHANGED <<idle, endpointVars, ic, armed, owner, dir, stackVars, faulted, panic>>
      /\ hcint' = hcint /\ hcchar' = hcchar
  BY DEF vars, chanVars
<1>2. UNCHANGED IdleChannels
  BY <1>1 DEF IdleChannels
<1>3. FlagsInv'
  BY <1>1, <1>2 DEF IInv, FlagsInv
<1> QED BY <1>1, <1>3, QuietStep DEF IInv, TypeOK

\* The invariant is inductive.
LEMMA Inductive ==
  ASSUME StackAndDevices
  PROVE  IInv /\ [Next]_vars => IInv'
<1> SUFFICES ASSUME IInv, [Next]_vars PROVE IInv'
  OBVIOUS
<1>1. CASE \E d \in Device, p \in Pipe : Open(d, p)
  BY <1>1, OpenStep
<1>2. CASE \E d \in Device, p \in Pipe : SetupSend(d, p)
  BY <1>2, SetupPreserves
<1>3. CASE \E d \in Device, p \in Pipe : \E how \in {"in", "out"} : EdptXfer(d, p, how)
  BY <1>3, XferPreserves
<1>4. CASE \E d \in Device : Close(d)
  BY <1>4, CloseStep
<1>5. CASE \E e \in Endpoint : RetryFires(e)
  BY <1>5, RetryPreserves
<1>6. CASE \E c \in Channel : Irq(c)
  BY <1>6, IrqPreserves
<1>7. CASE \E c \in Channel : Hw(c)
  BY <1>7, HwPreserves
<1>8. CASE UNCHANGED vars
  BY <1>8, Stuttering
<1> QED BY <1>1, <1>2, <1>3, <1>4, <1>5, <1>6, <1>7, <1>8 DEF Next

LEMMA Invariance == ASSUME StackAndDevices PROVE Spec => []IInv
BY InitIInv, Inductive, PTL DEF Spec

LEMMA CalmInvariance == ASSUME StackAndDevices PROVE Spec => []Calm
<1>1. Init => Calm
  <2> SUFFICES ASSUME Init PROVE Calm
    OBVIOUS
  <2>1. IdleChannels = Channel
    <3>1. DOMAIN idle = 1 .. ChannelCount /\ \A i \in 1 .. ChannelCount : idle[i] = i - 1
      BY DEF Init
    <3>2. \A c \in Channel : c + 1 \in 1 .. ChannelCount /\ (c + 1) - 1 = c
      BY CountAssumption DEF Channel
    <3>3. \A i \in 1 .. ChannelCount : i - 1 \in Channel
      BY CountAssumption DEF Channel
    <3> QED BY <3>1, <3>2, <3>3 DEF IdleChannels
  <2>2. panic = "none" /\ \A c \in Channel : hcint[c] = {} /\ hcchar[c] = "disabled"
    BY DEF Init
  <2> QED BY <2>1, <2>2 DEF Calm, Clean
<1>2. IInv /\ Calm /\ [Next]_vars => Calm'
  BY CalmStep
<1> QED BY <1>1, <1>2, Invariance, PTL DEF Spec

\* TypeOK: the driver's state keeps its types.
THEOREM Typing == ASSUME StackAndDevices PROVE Spec => []TypeOK
<1>1. IInv => TypeOK
  BY DEF IInv
<1> QED BY <1>1, Invariance, PTL

\* The idle list holds no channel twice, and a channel off the list is held by one
\* running transfer, that points back at it; until the first fault that transfer is at
\* work, so that the channel comes back.  (After a STALL it is held for ever: see
\* ChannelsAccounted.)
THEOREM ChannelsConserved == ASSUME StackAndDevices PROVE Spec => []ChannelsAccounted
<1>1. IInv /\ Calm => ChannelsAccounted
  BY DEF IInv, Calm, Clean, ChannelsAccounted, Held, Distinct
<1> QED BY <1>1, Invariance, CalmInvariance, PTL

\* The interrupt of a channel finds the transfer that runs on it.
THEOREM TransfersTracked == ASSUME StackAndDevices PROVE Spec => []TransferTracked
<1>1. IInv => TransferTracked
  BY DEF IInv
<1> QED BY <1>1, Invariance, PTL

\* No DMA runs on a channel that was given back.
THEOREM IdleChannelsAreQuiet == ASSUME StackAndDevices PROVE Spec => []IdleIsQuiet
<1>1. IInv => IdleIsQuiet
  <2> SUFFICES ASSUME IInv, NEW c \in IdleChannels PROVE hcchar[c] # "enabled"
    BY DEF IdleIsQuiet
  <2>1. c \in Channel
    BY DEF IInv, TypeOK, IdleChannels
  <2> QED BY <2>1 DEF IInv, FlagsInv
<1> QED BY <1>1, Invariance, PTL

\* What the retry timer starts again as an IN transfer was started as one.
THEOREM RetriesAreIn == ASSUME StackAndDevices PROVE Spec => []RetriedAsIn
<1>1. IInv => RetriedAsIn
  BY DEF IInv
<1> QED BY <1>1, Invariance, PTL

\* Driver and stack agree on the outstanding transfers of open devices.
THEOREM ClaimsBacked == ASSUME StackAndDevices PROVE Spec => []ClaimBacked
<1>1. IInv => ClaimBacked
  BY DEF IInv
<1> QED BY <1>1, Invariance, PTL

\* No channel is given back twice, no timer is set twice.
THEOREM NothingReturnedTwice == ASSUME StackAndDevices PROVE Spec => []NoDoubleReturn
<1>1. IInv => NoDoubleReturn
  BY DEF IInv
<1> QED BY <1>1, Invariance, PTL

\* dwc_find_idle_channel's assertion never fails, whatever the hardware reports: a
\* STALL keeps its channel, but its pipe starts nothing any more either.
THEOREM ChannelsSuffice ==
  ASSUME StackAndDevices, EnoughChannels PROVE Spec => []IdleChannelFound
<1>1. Init => IdleChannelFound
  BY DEF Init, IdleChannelFound
<1>2. IInv /\ IdleChannelFound /\ [Next]_vars => IdleChannelFound'
  BY FoundStep
<1> QED BY <1>1, <1>2, Invariance, PTL DEF Spec

\* It takes a fault to fail any assertion of the driver: late halts, polls that
\* answer NAK and devices that are closed and opened again do not.
THEOREM NoAssertionFails ==
  ASSUME StackAndDevices, EnoughChannels PROVE Spec => []NoAssertFails
<1>1. Calm /\ IdleChannelFound => NoAssertFails
  BY DEF Calm, NoAssertFails, IdleChannelFound
<1>2. Spec => []IdleChannelFound
  BY ChannelsSuffice
<1> QED BY <1>1, <1>2, CalmInvariance, PTL

\* What TransferEnds rests on: as long as no fault happened, a running transfer
\* never waits for an event that cannot come.  Its channel is enabled, so that
\* the device's answer ends it, or its interrupt reports it or puts it on the
\* retry timer.
TransferAdvances ==
  ~faulted => \A e \in Running :
                /\ ic[e] \in Channel /\ owner[ic[e]] = e
                /\ \/ hcchar[ic[e]] = "enabled"
                   \/ Pending(ic[e]) /\ ("xfercompl" \in hcint[ic[e]] \/ IsNakHalt(ic[e]))

\* No transfer is left on a channel nobody will look at again.
THEOREM TransfersAdvance ==
  ASSUME StackAndDevices PROVE Spec => []TransferAdvances
<1>1. IInv /\ Calm => TransferAdvances
  <2> SUFFICES ASSUME IInv, Calm, ~faulted, NEW e \in Running
               PROVE  /\ ic[e] \in Channel /\ owner[ic[e]] = e
                      /\ \/ hcchar[ic[e]] = "enabled"
                         \/ Pending(ic[e]) /\ ("xfercompl" \in hcint[ic[e]] \/ IsNakHalt(ic[e]))
    BY DEF TransferAdvances
  <2>1. ic[e] \in Channel \ IdleChannels /\ owner[ic[e]] = e
    BY DEF IInv, TransferTracked
  <2>2. AtWork(ic[e])
    BY <2>1 DEF Calm, Clean
  <2>3. "xfercompl" \in hcint[ic[e]] \/ IsNakHalt(ic[e]) => Pending(ic[e])
    BY DEF Pending, IsNakHalt
  <2> QED BY <2>1, <2>2, <2>3 DEF AtWork
<1> QED BY <1>1, CalmInvariance, Invariance, PTL

-----------------------------------------------------------------------------
(* The driver as the stack sees it *)

LEMMA ReportEndsOne ==
  ASSUME StackAndDevices, IInv, NEW c \in Channel, owner[c] \in inflight, Report(c)
  PROVE  claimed' = claimed \/ \E q \in Device \X Pipe : Host!Report(q)
<1> DEFINE q == <<dev[owner[c]], pipe[owner[c]]>>
<1>1. q \in Device \X Pipe
  BY DEF IInv, NamesInv
<1>2. claimed \subseteq Device \X Pipe
  BY DEF IInv, TypeOK
<1>3. \A r \in claimed :
        r[1] = dev[owner[c]] /\ r[2].num = pipe[owner[c]].num => r = q
  BY <1>1, <1>2 DEF StackAndDevices, DistinctNumbers
<1>4. claimed' = claimed \/ (q \in claimed /\ claimed' = claimed \ {q})
  BY <1>3 DEF Report
<1> QED BY <1>1, <1>4 DEF Host!Report

LEMMA HostIrq ==
  ASSUME StackAndDevices, IInv, NEW c \in Channel, Irq(c)
  PROVE  claimed' = claimed \/ \E q \in Device \X Pipe : Host!Report(q)
<1>1. CASE IrqUnowned(c) \/ IrqIgnored(c) \/ IrqNakHalt(c) \/ IrqOverrun(c)
  BY <1>1 DEF IrqUnowned, IrqIgnored, IrqNakHalt, IrqOverrun, ArmFails, ReturnFails, Fail,
              stackVars
<1>2. CASE IrqComplete(c)
  <2>1. owner[c] \in inflight
    BY <1>2, OwnerRuns DEF IrqComplete
  <2> QED BY <1>2, <2>1, ReportEndsOne DEF IrqComplete, ReturnFails, Fail, stackVars
<1>3. CASE IrqXactErr(c)
  <2>1. owner[c] \in inflight
    BY <1>3, OwnerRuns DEF IrqXactErr
  <2> QED BY <1>3, <2>1, ReportEndsOne DEF IrqXactErr, ReturnFails, Fail, stackVars
<1> QED BY <1>1, <1>2, <1>3 DEF Irq

LEMMA HostRequest ==
  ASSUME NEW d \in Device, NEW p \in Pipe,
         SetupSend(d, p) \/ \E how \in {"in", "out"} : EdptXfer(d, p, how)
  PROVE  claimed' = claimed \/ Host!Request(<<d, p>>)
<1>1. CASE SetupSend(d, p)
  BY <1>1 DEF SetupSend, StartFails, Fail, stackVars, Host!Request
<1>2. ASSUME NEW how \in {"in", "out"}, EdptXfer(d, p, how)
      PROVE  claimed' = claimed \/ Host!Request(<<d, p>>)
  BY <1>2 DEF EdptXfer, StartFails, Fail, stackVars, Host!Request
<1> QED BY <1>1, <1>2

\* The driver implements AbstractHost: whatever the channels, retries and faults
\* behind it, the stack sees each transfer end once, alone, on the pipe it asked.
THEOREM HostRefinement == ASSUME StackAndDevices PROVE Spec => EndsOneByOne
<1>1. Init => Host!Init
  BY DEF Init, Host!Init
<1>2. IInv /\ [Next]_vars => [Host!Next]_claimed
  <2> SUFFICES ASSUME IInv, Next PROVE claimed' = claimed \/ Host!Next
    BY DEF vars, stackVars
  <2>1. ASSUME NEW d \in Device, NEW p \in Pipe, Open(d, p) PROVE claimed' = claimed
    BY <2>1 DEF Open, stackVars
  <2>2. ASSUME NEW d \in Device, NEW p \in Pipe,
               SetupSend(d, p) \/ \E how \in {"in", "out"} : EdptXfer(d, p, how)
        PROVE  claimed' = claimed \/ Host!Next
    BY <2>2, HostRequest DEF Host!Next
  <2>3. ASSUME NEW d \in Device, Close(d) PROVE Host!Next
    <3>1. claimed \subseteq Device \X Pipe
      BY DEF IInv, TypeOK
    <3>2. claimed' = claimed \ ({d} \X Pipe)
      BY <2>3, <3>1 DEF Close
    <3> QED BY <3>2 DEF Host!Next, Host!Disconnect
  <2>4. ASSUME NEW e \in Endpoint, RetryFires(e) PROVE claimed' = claimed
    BY <2>4 DEF RetryFires, StartFails, Fail, stackVars
  <2>5. ASSUME NEW c \in Channel, Irq(c) PROVE claimed' = claimed \/ Host!Next
    BY <2>5, HostIrq DEF Host!Next
  <2>6. ASSUME NEW c \in Channel, Hw(c) PROVE claimed' = claimed
    BY <2>6 DEF Hw, HwComplete, HwNakHalt, HwNak, HwStall, HwXactErr, HwOverrun, HwHalted,
                HwHaltAgain, HwReport, stackVars
  <2> QED BY <2>1, <2>2, <2>3, <2>4, <2>5, <2>6 DEF Next
<1> QED BY <1>1, <1>2, Invariance, PTL DEF Spec, EndsOneByOne, Host!Spec
=============================================================================
