----------------------------- MODULE ClientProofs ------------------------------
(***************************************************************************)
(* Proofs about Client, for any capacity of its buffer and of the hub's and    *)
(* any number of messages.                                                  *)
(***************************************************************************)
EXTENDS Client, SequenceTheorems, TLAPS

USE ClientAssumption

(***************************************************************************)
(* Sequences.                                                               *)
(***************************************************************************)

Increasing(s) == \A i, j \in DOMAIN s : i < j => s[i] < s[j]

LEMMA JoinAppends ==
    ASSUME NEW S, NEW a \in Seq(S), NEW b \in Seq(S), NEW c \in Seq(S), NEW x \in S
    PROVE  a \o b \o Append(c, x) = Append(a \o b \o c, x)
<1>1. a \o b \in Seq(S)
  BY ConcatProperties
<1>2. <<x>> \in Seq(S)
  OBVIOUS
<1>3. (a \o b) \o (c \o <<x>>) = ((a \o b) \o c) \o <<x>>
  BY <1>1, <1>2, ConcatAssociative
<1>4. (a \o b) \o c \in Seq(S)
  BY <1>1, ConcatProperties
<1>5. Append((a \o b) \o c, x) = ((a \o b) \o c) \o <<x>>
  BY <1>4, AppendIsConcat
<1>6. Append(c, x) = c \o <<x>>
  BY AppendIsConcat
<1> QED
  BY <1>3, <1>5, <1>6

LEMMA JoinMoves ==
    ASSUME NEW S, NEW a \in Seq(S), NEW c \in Seq(S), c # <<>>
    PROVE  a \o <<Head(c)>> \o Tail(c) = a \o <<>> \o c
<1>1. /\ Head(c) = c[1] /\ Head(c) \in S /\ Tail(c) \in Seq(S)
      /\ Len(c) \in 1..Len(c)
  OBVIOUS
<1>2. <<c[1]>> \in Seq(S) /\ <<>> \in Seq(S)
  BY <1>1
<1>3. 1 \in 1..Len(c)
  BY <1>1
<1>4. SubSeq(c, 1, Len(c)) = <<c[1]>> \o SubSeq(c, 1 + 1, Len(c))
  BY <1>1, <1>3, SubSeqRecursiveFirst
<1>5. SubSeq(c, 1, Len(c)) = c
  BY SubSeqFull
<1>6. Tail(c) = SubSeq(c, 2, Len(c))
  BY TailIsSubSeq
<1>7. c = <<Head(c)>> \o Tail(c)
  BY <1>1, <1>4, <1>5, <1>6
<1>8. (a \o <<Head(c)>>) \o Tail(c) = a \o (<<Head(c)>> \o Tail(c))
  BY <1>1, <1>2, ConcatAssociative
<1>9. a \o <<>> = a
  BY ConcatEmptySeq
<1> QED
  BY <1>7, <1>8, <1>9

\* A new number that is larger than all others goes to the end.
LEMMA AppendIncreases ==
    ASSUME NEW n \in Nat, NEW s \in Seq(1..n), Increasing(s)
    PROVE  Increasing(Append(s, n + 1)) /\ ToSet(Append(s, n + 1)) = ToSet(s) \cup {n + 1}
<1>0. PICK t : t = Append(s, n + 1)
  OBVIOUS
<1>1. s \in Seq(Nat) /\ n + 1 \in Nat
  BY SeqMonotonic
<1>2. /\ t \in Seq(Nat) /\ Len(t) = Len(s) + 1
      /\ \A i \in 1..Len(s) : t[i] = s[i]
      /\ t[Len(s) + 1] = n + 1
  BY <1>0, <1>1, AppendProperties
<1>3. /\ Len(s) \in Nat /\ DOMAIN s = 1..Len(s) /\ DOMAIN t = 1..Len(t)
      /\ \A i \in 1..Len(s) : s[i] \in 1..n
  BY <1>2, LenProperties, ElementOfSeq
<1>a. \A i, j \in 1..Len(s) : i < j => s[i] < s[j]
  BY <1>3 DEF Increasing
<1>b. ASSUME NEW i \in 1..Len(t), NEW j \in 1..Len(t), i < j PROVE t[i] < t[j]
  <2>1. i \in 1..Len(s) /\ t[i] = s[i] /\ s[i] \in 1..n
    BY <1>2, <1>3, <1>b
  <2>2. CASE j \in 1..Len(s)
    BY <1>2, <1>a, <1>b, <2>1, <2>2
  <2>3. CASE j = Len(s) + 1
    BY <1>2, <2>1, <2>3
  <2>4. Len(s) \in Nat /\ Len(t) = Len(s) + 1
    BY <1>2, <1>3
  <2>5. j \in 1..Len(s) + 1
    BY <2>4
  <2>6. PICK l : l = Len(s)
    OBVIOUS
  <2>7. l \in Nat /\ j \in 1..l + 1
    BY <2>4, <2>5, <2>6
  <2>8. j \in 1..l \/ j = l + 1
    BY <2>7
  <2> QED
    BY <2>2, <2>3, <2>6, <2>8
<1>4. Increasing(t)
  BY <1>3, <1>b DEF Increasing
<1>c. ToSet(t) = {t[i] : i \in 1..Len(s) + 1} /\ ToSet(s) = {s[i] : i \in 1..Len(s)}
  BY <1>2, <1>3 DEF ToSet
<1>d. 1..Len(s) + 1 = 1..Len(s) \cup {Len(s) + 1}
  BY <1>3
<1>5. ToSet(t) = ToSet(s) \cup {n + 1}
  BY <1>2, <1>c, <1>d
<1> QED
  BY <1>0, <1>4, <1>5

\* What is left of increasing numbers is increasing.
LEMMA DropKeeps ==
    ASSUME NEW n \in Nat, NEW a \in Seq(1..n), NEW b \in Seq(1..n), NEW c \in Seq(1..n),
           Increasing(a \o b \o c)
    PROVE  Increasing(a \o <<>> \o c)
<1>0. PICK d, s, t : d = a \o b /\ s = d \o c /\ t = a \o c
  OBVIOUS
<1>1. /\ d \in Seq(1..n) /\ Len(d) = Len(a) + Len(b)
      /\ \A i \in 1..Len(a) + Len(b) : d[i] = IF i <= Len(a) THEN a[i] ELSE b[i - Len(a)]
  BY <1>0, ConcatProperties
<1>2. /\ t \in Seq(1..n) /\ Len(t) = Len(a) + Len(c)
      /\ \A i \in 1..Len(a) + Len(c) : t[i] = IF i <= Len(a) THEN a[i] ELSE c[i - Len(a)]
  BY <1>0, ConcatProperties
<1>3. /\ s \in Seq(1..n) /\ Len(s) = Len(d) + Len(c)
      /\ \A i \in 1..Len(d) + Len(c) : s[i] = IF i <= Len(d) THEN d[i] ELSE c[i - Len(d)]
  BY <1>0, <1>1, ConcatProperties
<1>4. /\ Len(a) \in Nat /\ Len(b) \in Nat /\ Len(c) \in Nat
      /\ DOMAIN s = 1..Len(s) /\ DOMAIN t = 1..Len(t)
  BY <1>2, <1>3, LenProperties
<1>5. \A i, j \in 1..Len(s) : i < j => s[i] < s[j]
  BY <1>0, <1>4 DEF Increasing
\* Where an element of t is in s.
<1> DEFINE at(i) == IF i <= Len(a) THEN i ELSE i + Len(b)
<1>6. ASSUME NEW i \in 1..Len(t) PROVE at(i) \in 1..Len(s) /\ s[at(i)] = t[i]
  <2>1. CASE i <= Len(a)
    <3>1. i \in 1..Len(d) + Len(c) /\ i <= Len(d) /\ i \in 1..Len(a) + Len(b)
      BY <1>1, <1>4, <1>6, <2>1
    <3>2. s[i] = d[i] /\ d[i] = a[i]
      BY <1>1, <1>3, <2>1, <3>1
    <3>3. t[i] = a[i]
      BY <1>2, <1>4, <1>6, <2>1
    <3> QED
      BY <1>3, <2>1, <3>1, <3>2, <3>3
  <2>2. CASE i > Len(a)
    <3>1. /\ i + Len(b) \in 1..Len(d) + Len(c) /\ ~(i + Len(b) <= Len(d))
          /\ (i + Len(b)) - Len(d) = i - Len(a)
      BY <1>1, <1>2, <1>4, <1>6, <2>2
    <3>2. s[i + Len(b)] = c[i - Len(a)]
      BY <1>3, <3>1
    <3>3. t[i] = c[i - Len(a)]
      BY <1>2, <1>4, <1>6, <2>2
    <3>4. ~(i <= Len(a))
      BY <1>4, <2>2
    <3>5. at(i) = i + Len(b)
      BY <3>4
    <3> QED
      BY <1>3, <3>1, <3>2, <3>3, <3>5
  <2> QED
    BY <1>4, <1>6, <2>1, <2>2
<1>7. \A i, j \in 1..Len(t) : i < j => at(i) < at(j)
  BY <1>4
<1> HIDE DEF at
<1>8. Increasing(t)
  BY <1>4, <1>5, <1>6, <1>7 DEF Increasing
<1>9. a \o <<>> = a
  BY ConcatEmptySeq
<1> QED
  BY <1>0, <1>8, <1>9

(***************************************************************************)
(* Why delivery is in order.  What was offered and not dropped is, as long as *)
(* the writer lives, all of Outgoing; once it has written the close frame it   *)
(* is all of wire, the buffer is closed and nothing can be added.             *)
(***************************************************************************)

OutTypeOK ==
    /\ offered \in Nat /\ dropped \subseteq 1..offered
    /\ send \in Seq(1..offered) /\ Len(send) <= SendCap
    /\ writing \in Seq(1..offered) /\ (writer = "writing" <=> writing # <<>>)
    /\ wire \in Seq(1..offered)
    /\ writer \in {"select", "writing", "closing", "done"}
    /\ open \in BOOLEAN /\ frame \in BOOLEAN

NothingLost ==
    /\ writer \in {"select", "writing"} => ~frame /\ ToSet(Outgoing) = 1..offered \ dropped
    /\ frame => /\ ~open /\ send = <<>> /\ writing = <<>>
                /\ ToSet(wire) = 1..offered \ dropped

OutInv == OutTypeOK /\ Increasing(Outgoing) /\ NothingLost

RestTypeOK ==
    /\ conn \in {"open", "closed"} /\ peer \in {"up", "down"}
    /\ reader \in {"reading", "sending", "leaving", "closing", "done"}
    /\ reads \in 0..MaxReads
    /\ holds \in Kinds \cup {"none"} /\ (reader = "sending" <=> holds # "none")
    /\ incoming \in Seq(Kinds \cup {"foreign"}) /\ Len(incoming) <= IncomingCap
    /\ hub \in {"idle", "authenticating", "replying"}
    /\ auth \in BOOLEAN
    /\ timer \in {"armed", "telling", "closing", "done"}
    /\ offered \in 0..MaxSends + 1
    /\ timer \in {"armed", "telling"} => offered <= MaxSends
    /\ open <=> reader \notin {"closing", "done"}

Inv == OutInv /\ RestTypeOK

LEMMA OutgoingSeq ==
    ASSUME OutTypeOK
    PROVE  Outgoing \in Seq(1..offered)
<1>1. wire \o writing \in Seq(1..offered)
  BY ConcatProperties DEF OutTypeOK
<1> QED
  BY <1>1, ConcatProperties DEF OutTypeOK, Outgoing

\* Whoever calls SendMessage adds one number, to the buffer or to the dropped.
LEMMA SendKeepsOut ==
    ASSUME OutInv, SendMessage, UNCHANGED <<open, pumpVars>>
    PROVE  OutInv'
<1>1. /\ OutTypeOK /\ offered' = offered + 1 /\ offered \in Nat /\ offered' \in Nat
      /\ wire' = wire /\ writing' = writing /\ writer' = writer /\ frame' = frame
      /\ open' = open
  BY DEF OutInv, OutTypeOK, SendMessage, pumpVars
<1>2. 1..offered \subseteq 1..offered'
  BY <1>1
<1>3. 1..offered' = 1..offered \cup {offered'} /\ offered' \notin 1..offered
  BY <1>1
<1>4. /\ send \in Seq(1..offered') /\ writing \in Seq(1..offered') /\ wire \in Seq(1..offered')
  BY <1>1, <1>2, SeqMonotonic DEF OutTypeOK
<1>5. CASE open /\ Len(send) < SendCap
  <2>1. send' = Append(send, offered') /\ dropped' = dropped
    BY <1>5 DEF SendMessage
  <2>2. offered' \in 1..offered'
    BY <1>1
  <2>3. OutTypeOK'
    <3>1. send' \in Seq(1..offered') /\ Len(send') = Len(send) + 1 /\ Len(send) \in Nat
      BY <1>4, <2>1, <2>2
    <3>2. Len(send') <= SendCap
      BY <1>5, <3>1
    <3>3. dropped' \subseteq 1..offered'
      BY <1>1, <1>2, <2>1 DEF OutTypeOK
    <3> QED
      BY <1>1, <1>4, <3>1, <3>2, <3>3 DEF OutTypeOK
  <2>4. Outgoing' = Append(Outgoing, offered')
    BY <1>1, <1>4, <2>1, <2>2, JoinAppends DEF Outgoing
  <2>5. Increasing(Outgoing') /\ ToSet(Outgoing') = ToSet(Outgoing) \cup {offered'}
    BY <1>1, <2>4, OutgoingSeq, AppendIncreases DEF OutInv
  <2>6. NothingLost'
    <3>1. ~frame
      BY <1>5 DEF OutInv, NothingLost
    <3>2. dropped \subseteq 1..offered
      BY <1>1 DEF OutTypeOK
    <3>3. ASSUME writer \in {"select", "writing"}
          PROVE  ToSet(Outgoing') = 1..offered' \ dropped'
      <4>1. ToSet(Outgoing) = 1..offered \ dropped
        BY <3>3 DEF OutInv, NothingLost
      <4> QED
        BY <1>3, <2>1, <2>5, <3>2, <4>1
    <3> QED
      BY <1>1, <3>1, <3>3 DEF NothingLost
  <2> QED
    BY <2>3, <2>5, <2>6 DEF OutInv
<1>6. CASE ~(open /\ Len(send) < SendCap)
  <2>1. send' = send /\ dropped' = dropped \cup {offered'}
    BY <1>6 DEF SendMessage
  <2>2. 1..offered' \ dropped' = 1..offered \ dropped
    BY <1>3, <2>1
  <2>3. dropped' \subseteq 1..offered'
    BY <1>1, <1>3, <2>1 DEF OutTypeOK
  <2>4. Outgoing' = Outgoing
    BY <1>1, <2>1 DEF Outgoing
  <2>5. OutTypeOK'
    BY <1>1, <1>4, <2>1, <2>3 DEF OutTypeOK
  <2>6. NothingLost'
    BY <1>1, <2>1, <2>2, <2>4 DEF OutInv, NothingLost
  <2> QED
    BY <2>4, <2>5, <2>6 DEF OutInv
<1> QED
  BY <1>5, <1>6

\* The writer moves a message from the buffer through its hands to the wire.
LEMMA TakeKeepsOut ==
    ASSUME OutInv, Take
    PROVE  OutInv'
<1>1. /\ OutTypeOK /\ send # <<>> /\ writer = "select" /\ writing = <<>>
      /\ writing' = <<Head(send)>> /\ send' = Tail(send) /\ writer' = "writing"
      /\ offered' = offered /\ dropped' = dropped /\ open' = open /\ wire' = wire
      /\ frame' = frame
  BY DEF OutInv, OutTypeOK, Take
<1>2. /\ send \in Seq(1..offered) /\ wire \in Seq(1..offered) /\ Len(send) <= SendCap
  BY <1>1 DEF OutTypeOK
<1>3. /\ Head(send) \in 1..offered /\ Tail(send) \in Seq(1..offered)
      /\ Len(Tail(send)) = Len(send) - 1 /\ Len(send) \in Nat
  BY <1>1, <1>2, HeadTailProperties, LenProperties
<1>4. writing' \in Seq(1..offered) /\ writing' # <<>>
  BY <1>1, <1>3
<1>5. Len(send') <= SendCap
  BY <1>1, <1>2, <1>3
<1>6. OutTypeOK'
  BY <1>1, <1>3, <1>4, <1>5 DEF OutTypeOK
<1>7. Outgoing' = Outgoing
  BY <1>1, <1>2, JoinMoves DEF Outgoing
<1>8. NothingLost'
  BY <1>1, <1>7 DEF OutInv, NothingLost
<1> QED
  BY <1>6, <1>7, <1>8 DEF OutInv

LEMMA WriteKeepsOut ==
    ASSUME OutInv, Write
    PROVE  OutInv'
<1>1. /\ OutTypeOK /\ writer = "writing"
      /\ wire' = wire \o writing /\ writing' = <<>> /\ writer' = "select"
      /\ send' = send /\ offered' = offered /\ dropped' = dropped
      /\ open' = open /\ frame' = frame
  BY DEF OutInv, Write, outVars
<1>2. wire' \in Seq(1..offered)
  BY <1>1, ConcatProperties DEF OutTypeOK
<1>3. wire' \o <<>> = wire'
  BY <1>2, ConcatEmptySeq
<1>4. Outgoing' = Outgoing
  BY <1>1, <1>3 DEF Outgoing
<1>5. OutTypeOK'
  BY <1>1, <1>2 DEF OutTypeOK
<1>6. NothingLost'
  BY <1>1, <1>4 DEF OutInv, NothingLost
<1> QED
  BY <1>4, <1>5, <1>6 DEF OutInv

LEMMA TakeCloseKeepsOut ==
    ASSUME OutInv, TakeClose
    PROVE  OutInv'
<1>1. /\ OutTypeOK /\ writer = "select" /\ send = <<>> /\ ~open /\ writing = <<>>
      /\ writer' = "closing" /\ frame' \in BOOLEAN
      /\ send' = send /\ offered' = offered /\ dropped' = dropped
      /\ open' = open /\ writing' = writing /\ wire' = wire
  BY DEF OutInv, OutTypeOK, TakeClose, outVars
<1>2. Outgoing' = Outgoing
  BY <1>1 DEF Outgoing
<1>3. Outgoing = wire
  <2>1. wire \in Seq(1..offered)
    BY <1>1 DEF OutTypeOK
  <2>2. wire \o <<>> = wire
    BY <2>1, ConcatEmptySeq
  <2> QED
    BY <1>1, <2>2 DEF Outgoing
<1>4. ToSet(wire) = 1..offered \ dropped
  BY <1>1, <1>3 DEF OutInv, NothingLost
<1>5. OutTypeOK'
  BY <1>1 DEF OutTypeOK
<1>6. NothingLost'
  BY <1>1, <1>4 DEF NothingLost
<1> QED
  BY <1>2, <1>5, <1>6 DEF OutInv

LEMMA FailKeepsOut ==
    ASSUME OutInv, WriteFails
    PROVE  OutInv'
<1>1. /\ OutTypeOK /\ writer \in {"select", "writing"} /\ ~frame
      /\ writing' = <<>> /\ writer' = "closing"
      /\ send' = send /\ offered' = offered /\ dropped' = dropped
      /\ open' = open /\ wire' = wire /\ frame' = frame
  BY DEF OutInv, NothingLost, WriteFails, outVars
<1>2. /\ offered \in Nat /\ wire \in Seq(1..offered) /\ writing \in Seq(1..offered)
      /\ send \in Seq(1..offered) /\ Increasing(wire \o writing \o send)
  BY <1>1 DEF OutInv, OutTypeOK, Outgoing
<1>3. Increasing(wire \o <<>> \o send)
  BY <1>2, DropKeeps
<1>4. Increasing(Outgoing')
  BY <1>1, <1>3 DEF Outgoing
<1>5. <<>> \in Seq(1..offered)
  OBVIOUS
<1>6. OutTypeOK'
  BY <1>1, <1>5 DEF OutTypeOK
<1>7. NothingLost'
  BY <1>1 DEF NothingLost
<1> QED
  BY <1>4, <1>6, <1>7 DEF OutInv

LEMMA SameKeepsOut ==
    ASSUME OutInv, UNCHANGED <<outVars, writing, wire, frame>>,
           open' \in BOOLEAN, open' => open,
           writer' = writer \/ (writer = "closing" /\ writer' = "done")
    PROVE  OutInv'
<1>1. /\ send' = send /\ offered' = offered /\ dropped' = dropped
      /\ writing' = writing /\ wire' = wire /\ frame' = frame
  BY DEF outVars
<1>2. Outgoing' = Outgoing
  BY <1>1 DEF Outgoing
<1>3. OutTypeOK'
  BY <1>1 DEF OutInv, OutTypeOK
<1>4. NothingLost'
  BY <1>1, <1>2 DEF OutInv, NothingLost
<1> QED
  BY <1>2, <1>3, <1>4 DEF OutInv


(***************************************************************************)
(* The steps.                                                               *)
(***************************************************************************)

\* What does not send, write or unregister leaves the messages as they are.
OutSame == UNCHANGED <<outVars, open, pumpVars>>

LEMMA OutSameKeeps ==
    ASSUME OutInv, OutSame
    PROVE  OutInv'
<1>1. /\ UNCHANGED <<outVars, writing, wire, frame>> /\ writer' = writer /\ open' = open
  BY DEF OutSame, outVars, pumpVars
<1>2. open' \in BOOLEAN
  BY <1>1 DEF OutInv, OutTypeOK
<1> QED
  BY <1>1, <1>2, SameKeepsOut

LEMMA OutKept ==
    ASSUME Inv, [Next]_vars
    PROVE  OutInv'
<1>1. OutInv
  BY DEF Inv
<1>2. CASE PeerGoes
  BY <1>1, <1>2, OutSameKeeps DEF PeerGoes, OutSame
<1>3. CASE Reader
  <2>1. OutSame
    BY <1>3 DEF Reader, Read, HandOver, ReadFails, ReaderCloses, OutSame
  <2> QED
    BY <1>1, <2>1, OutSameKeeps
<1>4. CASE Writer
  <2>1. CASE WriterCloses
    <3>1. /\ UNCHANGED <<outVars, writing, wire, frame>> /\ open' = open
          /\ writer = "closing" /\ writer' = "done"
      BY <2>1 DEF WriterCloses
    <3>2. open' \in BOOLEAN
      BY <1>1, <3>1 DEF OutInv, OutTypeOK
    <3> QED
      BY <1>1, <3>1, <3>2, SameKeepsOut
  <2> QED
    BY <1>1, <1>4, <2>1, TakeKeepsOut, WriteKeepsOut, TakeCloseKeepsOut, FailKeepsOut
    DEF Writer
<1>5. CASE Timer
  <2>1. CASE TimerTells
    BY <1>1, <2>1, SendKeepsOut DEF TimerTells
  <2>2. CASE TimeOut \/ TimerCloses
    <3>1. OutSame
      BY <2>2 DEF TimeOut, TimerCloses, OutSame
    <3> QED
      BY <1>1, <3>1, OutSameKeeps
  <2> QED
    BY <1>5, <2>1, <2>2 DEF Timer
<1>6. CASE HubStep
  <2>1. CASE Handle \/ Authenticated
    <3>1. OutSame
      BY <2>1 DEF Handle, Authenticated, OutSame
    <3> QED
      BY <1>1, <3>1, OutSameKeeps
  <2>2. CASE Reply
    <3>1. UNCHANGED <<open, pumpVars>> /\ (SendMessage \/ OutSame)
      BY <2>2 DEF Reply, OutSame
    <3> QED
      BY <1>1, <3>1, SendKeepsOut, OutSameKeeps
  <2> QED
    BY <1>6, <2>1, <2>2 DEF HubStep
<1>7. CASE Unregister
  <2>1. /\ UNCHANGED <<outVars, writing, wire, frame>> /\ writer' = writer /\ open' = FALSE
    BY <1>7 DEF Unregister, pumpVars
  <2> QED
    BY <1>1, <2>1, SameKeepsOut
<1>8. CASE Foreign
  BY <1>1, <1>8, OutSameKeeps DEF Foreign, OutSame
<1>9. CASE LoopSends
  BY <1>1, <1>9, SendKeepsOut DEF LoopSends
<1>10. CASE UNCHANGED vars
  BY <1>1, <1>10, OutSameKeeps DEF vars, OutSame
<1> QED
  BY <1>2, <1>3, <1>4, <1>5, <1>6, <1>7, <1>8, <1>9, <1>10 DEF Next

\* What only sends, writes, or lets time pass.
LEMMA RestKept ==
    ASSUME Inv, [Next]_vars
    PROVE  RestTypeOK'
<1>1. RestTypeOK /\ offered \in Nat
  BY DEF Inv, OutInv, OutTypeOK
<1> USE DEF RestTypeOK
<1>2. CASE PeerGoes
  BY <1>1, <1>2 DEF PeerGoes, inVars, outVars
<1>3. CASE Reader
  <2>1. ASSUME NEW kind \in Kinds, Read(kind) PROVE RestTypeOK'
    BY <1>1, <2>1 DEF Read, outVars, Kinds
  <2>2. CASE HandOver
    <3>1. holds \in Kinds \cup {"foreign"}
      BY <1>1, <2>2 DEF HandOver
    <3>2. /\ incoming' \in Seq(Kinds \cup {"foreign"}) /\ Len(incoming') = Len(incoming) + 1
          /\ Len(incoming) \in Nat
      BY <1>1, <2>2, <3>1, AppendProperties, LenProperties DEF HandOver
    <3>3. Len(incoming') <= IncomingCap
      BY <1>1, <2>2, <3>2 DEF HandOver
    <3> QED
      BY <1>1, <2>2, <3>2, <3>3 DEF HandOver, outVars
  <2>3. CASE ReadFails
    BY <1>1, <2>3 DEF ReadFails, outVars
  <2>4. CASE ReaderCloses
    BY <1>1, <2>4 DEF ReaderCloses, Close, outVars
  <2> QED
    BY <1>3, <2>1, <2>2, <2>3, <2>4 DEF Reader
<1>4. CASE Writer
  <2>1. /\ offered' = offered /\ open' = open /\ UNCHANGED <<peer, inVars, hub, auth, timer>>
        /\ conn' \in {conn, "closed"}
    BY <1>4 DEF Writer, Take, Write, TakeClose, WriteFails, WriterCloses, Close, outVars
  <2> QED
    BY <1>1, <2>1 DEF inVars
<1>5. CASE Timer
  <2>1. CASE TimeOut
    BY <1>1, <2>1 DEF TimeOut, inVars, outVars
  <2>2. CASE TimerTells
    BY <1>1, <2>2 DEF TimerTells, SendMessage, inVars
  <2>3. CASE TimerCloses
    BY <1>1, <2>3 DEF TimerCloses, Close, inVars, outVars
  <2> QED
    BY <1>5, <2>1, <2>2, <2>3 DEF Timer
<1>6. CASE HubStep
  <2>1. CASE Handle
    <3>1. /\ incoming' \in Seq(Kinds \cup {"foreign"}) /\ Len(incoming') = Len(incoming) - 1
          /\ Len(incoming) \in Nat
      BY <1>1, <2>1, HeadTailProperties, LenProperties DEF Handle
    <3>2. Len(incoming') <= IncomingCap
      BY <1>1, <3>1
    <3>3. hub' \in {"idle", "authenticating", "replying"}
      BY <2>1 DEF Handle
    <3> QED
      BY <1>1, <2>1, <3>1, <3>2, <3>3 DEF Handle, outVars
  <2>2. CASE Authenticated
    BY <1>1, <2>2 DEF Authenticated, inVars, outVars
  <2>3. CASE Reply
    BY <1>1, <2>3 DEF Reply, SendMessage, inVars, outVars
  <2> QED
    BY <1>6, <2>1, <2>2, <2>3 DEF HubStep
<1>7. CASE Unregister
  BY <1>1, <1>7 DEF Unregister, outVars
<1>8. CASE Foreign
  <2>1. /\ incoming' \in Seq(Kinds \cup {"foreign"}) /\ Len(incoming') = Len(incoming) + 1
        /\ Len(incoming) \in Nat
    BY <1>1, <1>8, AppendProperties, LenProperties DEF Foreign
  <2>2. Len(incoming') <= IncomingCap
    BY <1>1, <1>8, <2>1 DEF Foreign
  <2> QED
    BY <1>1, <1>8, <2>1, <2>2 DEF Foreign, outVars
<1>9. CASE LoopSends
  BY <1>1, <1>9 DEF LoopSends, SendMessage, inVars
<1>10. CASE UNCHANGED vars
  BY <1>1, <1>10 DEF vars, inVars, outVars
<1> QED
  BY <1>2, <1>3, <1>4, <1>5, <1>6, <1>7, <1>8, <1>9, <1>10 DEF Next

LEMMA InitInv == Init => Inv
<1> SUFFICES ASSUME Init PROVE Inv
  OBVIOUS
<1>1. /\ send = <<>> /\ writing = <<>> /\ wire = <<>> /\ offered = 0 /\ dropped = {}
      /\ writer = "select" /\ frame = FALSE /\ open = TRUE
  BY DEF Init
<1>2. <<>> \in Seq(1..offered) /\ Len(<<>>) = 0
  OBVIOUS
<1>3. Outgoing = <<>>
  BY <1>1, <1>2, ConcatEmptySeq DEF Outgoing
<1>4. 1..offered = {} /\ ToSet(<<>>) = {}
  BY <1>1 DEF ToSet
<1>5. OutTypeOK
  <2>1. /\ offered \in Nat /\ dropped \subseteq 1..offered
        /\ Len(send) <= SendCap /\ writer \in {"select", "writing", "closing", "done"}
    BY <1>1, <1>2 DEF ClientAssumption
  <2>2. writer = "writing" <=> writing # <<>>
    BY <1>1
  <2>3. open \in BOOLEAN /\ frame \in BOOLEAN
    BY <1>1
  <2>4. /\ send \in Seq(1..offered) /\ writing \in Seq(1..offered)
        /\ wire \in Seq(1..offered)
    BY <1>1, <1>2
  <2> QED
    BY <2>1, <2>2, <2>3, <2>4 DEF OutTypeOK
<1>6. Increasing(Outgoing)
  BY <1>3 DEF Increasing
<1>7. NothingLost
  BY <1>1, <1>3, <1>4 DEF NothingLost
<1>8. RestTypeOK
  <2>1. incoming \in Seq(Kinds \cup {"foreign"}) /\ Len(incoming) = 0
    BY DEF Init
  <2>2. /\ Len(incoming) <= IncomingCap /\ reads \in 0..MaxReads
        /\ offered \in 0..MaxSends + 1 /\ offered <= MaxSends
    BY <2>1 DEF Init, ClientAssumption
  <2>3. /\ conn = "open" /\ peer = "up" /\ reader = "reading" /\ holds = "none"
        /\ hub = "idle" /\ auth = FALSE /\ timer = "armed" /\ open = TRUE
    BY DEF Init
  <2> QED
    BY <2>1, <2>2, <2>3 DEF RestTypeOK
<1> QED
  BY <1>5, <1>6, <1>7, <1>8 DEF Inv, OutInv

LEMMA ClientInv == Spec => []Inv
<1>1. Inv /\ [Next]_vars => Inv'
  BY OutKept, RestKept DEF Inv
<1> QED
  BY InitInv, <1>1, PTL DEF Spec

\* The buffers keep to their capacity, Send is open until the hub has
\* unregistered the client, and the writer holds a message only while it writes.
THEOREM ClientTypeCorrect == Spec => []ClientTypeOK
<1>1. Inv => ClientTypeOK
  BY DEF Inv, OutInv, OutTypeOK, RestTypeOK, ClientTypeOK
<1> QED
  BY ClientInv, <1>1, PTL

\* For every capacity: the client receives messages in the order they were sent,
\* none twice, and all that were not dropped before the close frame.
THEOREM DeliveredCorrect == Spec => []DeliveredInOrder
<1>1. Inv => DeliveredInOrder
  BY DEF Inv, OutInv, NothingLost, Increasing, DeliveredInOrder
<1> QED
  BY ClientInv, <1>1, PTL

(***************************************************************************)
(* The connection is cut before its goroutines go.                          *)
(***************************************************************************)

\* A client is authenticated by the hub only while it is not, so that it never
\* becomes a stranger again after the timer has let it stay.
CutInv ==
    /\ NobodyLeftBehind
    /\ hub = "authenticating" => ~auth

LEMMA CutStep == Inv /\ CutInv /\ [Next]_vars => CutInv'
<1> SUFFICES ASSUME Inv, CutInv, [Next]_vars PROVE CutInv'
  OBVIOUS
<1> USE DEF CutInv, NobodyLeftBehind
<1>1. RestTypeOK
  BY DEF Inv
<1>2. CASE PeerGoes \/ Foreign \/ LoopSends
  BY <1>2 DEF PeerGoes, Foreign, LoopSends, inVars, pumpVars
<1>3. CASE Reader
  <2>1. CASE ReaderCloses
    <3>1. ~open
      BY <1>1, <2>1 DEF ReaderCloses, RestTypeOK
    <3> QED
      BY <2>1, <3>1 DEF ReaderCloses, Close, pumpVars
  <2> QED
    BY <1>3, <2>1 DEF Reader, Read, HandOver, ReadFails, pumpVars
<1>4. CASE Writer
  BY <1>4 DEF Writer, Take, Write, TakeClose, WriteFails, WriterCloses, Close, inVars
<1>5. CASE Timer
  BY <1>5 DEF Timer, TimeOut, TimerTells, TimerCloses, Close, inVars, pumpVars
<1>6. CASE HubStep
  BY <1>6 DEF HubStep, Handle, Authenticated, Reply, inVars, pumpVars
<1>7. CASE Unregister
  BY <1>7 DEF Unregister, pumpVars
<1>8. CASE UNCHANGED vars
  BY <1>8 DEF vars, inVars, pumpVars
<1> QED
  BY <1>2, <1>3, <1>4, <1>5, <1>6, <1>7, <1>8 DEF Next

\* The safe half of PumpsReturn and StrangersGo: whichever goroutine is the first to
\* go has closed the connection, from which the others learn of it, and nobody is
\* let stay without a login, although the timer reads Authenticated without a lock
\* and acts on what it read (client.go:40-43, 66-70, auth.go:164-173).
THEOREM NobodyLeftBehindCorrect == Spec => []NobodyLeftBehind
<1>1. Init => CutInv
  BY DEF Init, CutInv, NobodyLeftBehind
<1>2. CutInv => NobodyLeftBehind
  BY DEF CutInv
<1> QED
  BY <1>1, <1>2, CutStep, ClientInv, PTL DEF Spec

================================================================================
