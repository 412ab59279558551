------------------------- MODULE VmwareFifo_proofs -------------------------
(***************************************************************************)
(* The ring never overruns, is empty whenever the device is given up, and  *)
(* implements the queue, for rings of every size.                          *)
(***************************************************************************)
EXTENDS VmwareFifo, SequenceTheorems, TLAPS

(* A word is being written, or waits to be.                                *)
Writing ==
  \/ pc \in {"behind", "wrapped", "store", "advance"}
  \/ pc \in {"sync", "wait"} /\ after = "store"

(* The driver is about to set up the FIFO again.                           *)
Configuring ==
  \/ pc = "configure"
  \/ pc \in {"sync", "wait"} /\ after = "configure"

(* A word in flight is one the driver was given, and Store has put it at   *)
(* NEXT_CMD.                                                               *)
WordInFlight ==
  /\ Writing => value \in Words
  /\ pc = "advance" => fifo[next] = value

(* What the first test ruled out stays ruled out: STOP only moves on       *)
(* towards NEXT_CMD, never back to just before it.                         *)
Tested == pc = "wrapped" => next + 1 # stop

(* Only a driver that waits has asked the host to synchronise, and when    *)
(* the host says it has, no word is left.                                  *)
Waited ==
  /\ pc # "wait" => ~busy
  /\ pc = "wait" /\ ~busy => stop = next \/ Configuring

(* Nothing is in a FIFO the host does not read, and it reads it but        *)
(* between VMWAREStopFIFO and VMWAREInitFIFO, which are called or not for  *)
(* the same reason.                                                        *)
Idle ==
  /\ ~config_done => ~fifo_enabled /\ (pc = "away" \/ Configuring)
  /\ Configuring => stop = next

(* The inductive invariant.                                                *)
IInv ==
  /\ TypeOK /\ NeverOverrun /\ DrainedWhenAway
  /\ WordInFlight /\ Tested /\ Waited /\ Idle

(* The invariant but for the types, which a step keeps for itself.         *)
Parts == NeverOverrun /\ DrainedWhenAway /\ WordInFlight /\ Tested /\ Waited /\ Idle

(* Every offset has a following one, and it is another one.                *)
LEMMA FollowingType ==
  \A i \in Slots : Following(i) \in Slots /\ Following(i) # i
BY FifoAssumption DEF Slots, Following

(* A FIFO just set up is in order.                                         *)
LEMMA InitIInv == Init => IInv
<1> SUFFICES ASSUME Init PROVE IInv
  OBVIOUS
<1>1. Min \in Slots
  BY FifoAssumption DEF Slots
<1>2. TypeOK
  BY <1>1 DEF Init, TypeOK, Points
<1> QED
  BY <1>2 DEF Init, IInv, NeverOverrun, DrainedWhenAway, WordInFlight, Writing,
              Tested, Waited, Idle, Configuring

(* Every step of the driver and of the host keeps the types ...            *)
LEMMA StepType == TypeOK /\ [Next]_vars => TypeOK'
<1> SUFFICES ASSUME TypeOK, [Next]_vars PROVE TypeOK'
  OBVIOUS
<1> USE FollowingType, FifoAssumption DEF TypeOK, Points
<1>1. ASSUME NEW w \in Words, WriteWord(w) PROVE TypeOK'
  BY <1>1 DEF WriteWord, Goto
<1>2. CASE TestBehind
  BY <1>2 DEF TestBehind, Goto, WaitThen
<1>3. CASE TestWrapped
  BY <1>3 DEF TestWrapped, Goto, WaitThen
<1>4. CASE Store
  BY <1>4 DEF Store, Goto, WaitThen
<1>5. CASE Advance
  BY <1>5 DEF Advance, Goto, WaitThen
<1>6. CASE WaitForFB
  BY <1>6 DEF WaitForFB, Goto, WaitThen
<1>7. CASE Sync
  BY <1>7 DEF Sync, Goto, WaitThen
<1>8. CASE WaitEnds
  BY <1>8 DEF WaitEnds, Goto, WaitThen
<1>9. CASE LeaveVT
  BY <1>9 DEF LeaveVT, Goto, WaitThen
<1>10. CASE Restore
  BY <1>10 DEF Restore, Goto, WaitThen
<1>11. CASE EnterVT
  BY <1>11 DEF EnterVT, Goto, WaitThen
<1>12. CASE InitFIFO
  BY <1>12 DEF InitFIFO, Goto, WaitThen, Slots
<1>13. CASE TakeWord
  BY <1>13 DEF TakeWord, Goto, WaitThen
<1>14. CASE Ready
  BY <1>14 DEF Ready, Goto, WaitThen
<1>15. CASE ScreenInit
  BY <1>15 DEF ScreenInit, Goto, WaitThen
<1>16. CASE UNCHANGED vars
  BY <1>16 DEF vars
<1> QED
  BY <1>1, <1>2, <1>3, <1>4, <1>5, <1>6, <1>7, <1>8, <1>9, <1>10, <1>11, <1>12,
     <1>13, <1>14, <1>15, <1>16
  DEF Next, Driver, Host

(* ... and the rest of the invariant.                                      *)
LEMMA StepParts == IInv /\ [Next]_vars => Parts'
<1> SUFFICES ASSUME IInv, [Next]_vars PROVE Parts'
  OBVIOUS
<1> USE FollowingType, FifoAssumption
    DEF IInv, Parts, NeverOverrun, DrainedWhenAway, WordInFlight, Writing, Tested,
        Waited, Idle, Configuring, TypeOK, Points
<1>1. ASSUME NEW w \in Words, WriteWord(w) PROVE Parts'
  BY <1>1 DEF WriteWord, Goto
<1>2. CASE TestBehind
  BY <1>2 DEF TestBehind, Goto, WaitThen
<1>3. CASE TestWrapped
  BY <1>3 DEF TestWrapped, Goto, WaitThen, Slots, Following
<1>4. CASE Store
  BY <1>4 DEF Store, Goto, WaitThen
<1>5. CASE Advance
  BY <1>5 DEF Advance, Goto, WaitThen
<1>6. CASE WaitForFB
  BY <1>6 DEF WaitForFB, Goto, WaitThen
<1>7. CASE Sync
  BY <1>7 DEF Sync, Goto, WaitThen
<1>8. CASE WaitEnds
  BY <1>8 DEF WaitEnds, Goto, WaitThen, Slots, Following
<1>9. CASE LeaveVT
  BY <1>9 DEF LeaveVT, Goto, WaitThen
<1>10. CASE Restore
  BY <1>10 DEF Restore, Goto, WaitThen
<1>11. CASE EnterVT
  BY <1>11 DEF EnterVT, Goto, WaitThen
<1>12. CASE InitFIFO
  BY <1>12 DEF InitFIFO, Goto, WaitThen
<1>13. CASE TakeWord
  BY <1>13 DEF TakeWord, Goto, WaitThen, Slots, Following
<1>14. CASE Ready
  BY <1>14 DEF Ready, Goto, WaitThen
<1>15. CASE ScreenInit
  BY <1>15 DEF ScreenInit, Goto, WaitThen
<1>16. CASE UNCHANGED vars
  BY <1>16 DEF vars
<1> QED
  BY <1>1, <1>2, <1>3, <1>4, <1>5, <1>6, <1>7, <1>8, <1>9, <1>10, <1>11, <1>12,
     <1>13, <1>14, <1>15, <1>16
  DEF Next, Driver, Host

(* The invariant is inductive.                                             *)
THEOREM RingInvariant == Spec => []IInv
<1>1. IInv /\ [Next]_vars => IInv'
  BY StepType, StepParts DEF IInv, Parts
<1> QED
  BY InitIInv, <1>1, PTL DEF Spec

(* Offsets, points and words are what they should be, for every ring.      *)
THEOREM RingTypes == Spec => []TypeOK
<1>1. IInv => TypeOK
  BY DEF IInv
<1> QED
  BY RingInvariant, <1>1, PTL

(* vmwareWriteWordToFIFO never makes a full FIFO look empty.               *)
THEOREM RingNeverOverrun == Spec => []NeverOverrun
<1>1. IInv => NeverOverrun
  BY DEF IInv
<1> QED
  BY RingInvariant, <1>1, PTL

(* VMWARERestore gives up the device only when its FIFO is empty.          *)
THEOREM RingDrained == Spec => []DrainedWhenAway
<1>1. IInv => DrainedWhenAway
  BY DEF IInv
<1> QED
  BY RingInvariant, <1>1, PTL

(* The words queued are a sequence of so many words, none of them where    *)
(* the next is written.                                                    *)
QueuedOK ==
  /\ Count \in 0 .. Size - 1
  /\ \A i \in 1 .. Count : Slot(i) \in Slots /\ Slot(i) # next
  /\ Queued \in Seq(Words \cup {NoWord})
  /\ Len(Queued) = Count
  /\ \A i \in 1 .. Count : Queued[i] = fifo[Slot(i)]

(* Offsets in the ring make it one ...                                     *)
LEMMA QueuedType == TypeOK => QueuedOK
<1> SUFFICES ASSUME TypeOK PROVE QueuedOK
  OBVIOUS
<1>1. /\ next \in Nat /\ stop \in Nat /\ Min \in Nat /\ Max \in Nat
      /\ Min <= next /\ next < Max /\ Min <= stop /\ stop < Max
  BY FifoAssumption DEF TypeOK, Slots
<1>2. Count \in 0 .. Size - 1
  BY <1>1 DEF Count, Size
<1>3. ASSUME NEW i \in 1 .. Count PROVE Slot(i) \in Slots /\ Slot(i) # next
  BY <1>1 DEF Count, Size, Slot, Slots
<1>4. \A i \in 1 .. Count : fifo[Slot(i)] \in Words \cup {NoWord}
  BY <1>3 DEF TypeOK
<1>5. Queued \in Seq(Words \cup {NoWord}) /\ Len(Queued) = Count
  BY <1>2, <1>4 DEF Queued
<1>6. \A i \in 1 .. Count : Queued[i] = fifo[Slot(i)]
  BY DEF Queued
<1> QED
  BY <1>2, <1>3, <1>5, <1>6 DEF QueuedOK

(* ... and a step later too.                                               *)
LEMMA QueuedTypeNext == TypeOK' => QueuedOK'
<1>1. TypeOK => QueuedOK
  BY QueuedType
<1> QED
  BY <1>1, PTL

(* Where words are neither stored nor counted, the queue is the same.      *)
LEMMA QueuedSame ==
  ASSUME UNCHANGED <<fifo, next, stop>>
  PROVE  UNCHANGED Queued
BY DEF Queued, Count, Slot, Size

(* Store writes behind the last word: no word queued is disturbed.         *)
LEMMA StoreStutters ==
  ASSUME TypeOK, Store
  PROVE  UNCHANGED Queued
<1>1. Count' = Count /\ \A i : Slot(i)' = Slot(i)
  BY DEF Store, Count, Slot, Size
<1>2. \A i \in 1 .. Count : fifo'[Slot(i)] = fifo[Slot(i)]
  BY QueuedType DEF QueuedOK, Store, TypeOK
<1> QED
  BY <1>1, <1>2 DEF Queued

(* Advance appends the word that was stored.                               *)
LEMMA AdvancePuts ==
  ASSUME IInv, IInv', Advance
  PROVE  Queue!Put(value)
<1>1. TypeOK /\ TypeOK' /\ pc = "advance"
  BY DEF IInv, Advance
<1>2. value \in Words /\ fifo[next] = value /\ Following(next) # stop
  BY <1>1 DEF IInv, WordInFlight, Writing, NeverOverrun
<1>3. /\ next \in Nat /\ stop \in Nat /\ Min \in Nat /\ Max \in Nat
      /\ Min <= next /\ next < Max /\ Min <= stop /\ stop < Max
      /\ Min + 1 < Max
  BY <1>1, FifoAssumption DEF TypeOK, Slots
<1>4. next' = Following(next) /\ stop' = stop /\ fifo' = fifo /\ taken' = taken
  BY DEF Advance
<1>5. Count' = Count + 1 /\ Count < Size - 1
  BY <1>2, <1>3, <1>4 DEF Count, Size, Following
<1>6. \A i : Slot(i)' = Slot(i)
  BY <1>4 DEF Slot, Size
<1>7. Slot(Count + 1) = next
  BY <1>3 DEF Slot, Count, Size
<1>8. Len(Queued) < Size - 1
  BY <1>1, <1>5, QueuedType DEF QueuedOK
<1> DEFINE appended == Append(Queued, value)
<1>9. /\ Len(appended) = Count + 1
      /\ appended \in Seq(Words \cup {NoWord})
      /\ \A i \in 1 .. Count : appended[i] = Queued[i]
      /\ appended[Count + 1] = value
  BY <1>1, <1>2, QueuedType DEF QueuedOK
<1>10. /\ Queued' \in Seq(Words \cup {NoWord})
       /\ Len(Queued') = Count + 1
       /\ \A i \in 1 .. Count + 1 : Queued'[i] = fifo[Slot(i)]
  <2>1. /\ Queued' \in Seq(Words \cup {NoWord})
        /\ Len(Queued') = Count'
    BY <1>1, QueuedTypeNext DEF QueuedOK
  <2>2. \A i \in 1 .. Count' : Queued'[i] = fifo'[Slot(i)']
    BY <1>1, QueuedTypeNext DEF QueuedOK
  <2> QED
    BY <1>4, <1>5, <1>6, <2>1, <2>2
<1>11. ASSUME NEW i \in 1 .. Count + 1 PROVE Queued'[i] = appended[i]
  <2>1. CASE i = Count + 1
    BY <1>2, <1>7, <1>9, <1>10, <2>1
  <2>2. CASE i # Count + 1
    <3>1. i \in 1 .. Count
      BY <1>1, <2>2, QueuedType DEF QueuedOK
    <3> QED
      BY <1>1, <1>9, <1>10, <3>1, QueuedType DEF QueuedOK
  <2> QED
    BY <2>1, <2>2
<1>12. Queued' = appended
  <2> HIDE DEF appended
  <2> QED
    BY <1>9, <1>10, <1>11, SeqEqual
<1> QED
  BY <1>4, <1>8, <1>12 DEF Queue!Put

(* The host takes the first word.                                          *)
LEMMA TakeWordTakes ==
  ASSUME IInv, IInv', TakeWord
  PROVE  Queue!Take
<1>1. TypeOK /\ TypeOK'
  BY DEF IInv
<1>2. /\ next \in Nat /\ stop \in Nat /\ Min \in Nat /\ Max \in Nat
      /\ Min <= next /\ next < Max /\ Min <= stop /\ stop < Max
      /\ Min + 1 < Max
  BY <1>1, FifoAssumption DEF TypeOK, Slots
<1>3. /\ stop # next /\ stop' = Following(stop) /\ next' = next /\ fifo' = fifo
      /\ taken' = fifo[stop]
  BY DEF TakeWord
<1>4. Count \in Nat /\ Count > 0 /\ Count' = Count - 1
  BY <1>2, <1>3 DEF Count, Size, Following
<1>5. Slot(1) = stop
  BY <1>2 DEF Slot
<1>6. \A i \in 1 .. Count - 1 : Slot(i)' = Slot(i + 1)
  BY <1>2, <1>3 DEF Slot, Count, Size, Following
<1>7. Queued # <<>> /\ Head(Queued) = fifo[stop]
  BY <1>1, <1>4, <1>5, QueuedType DEF QueuedOK
<1> DEFINE rest == Tail(Queued)
<1>8. /\ rest \in Seq(Words \cup {NoWord})
      /\ Len(rest) = Count - 1
      /\ \A i \in 1 .. Count - 1 : rest[i] = Queued[i + 1]
  BY <1>1, <1>7, QueuedType, HeadTailProperties DEF QueuedOK
<1>9. /\ Queued' \in Seq(Words \cup {NoWord})
      /\ Len(Queued') = Count - 1
      /\ \A i \in 1 .. Count - 1 : Queued'[i] = fifo[Slot(i + 1)]
  <2>1. /\ Queued' \in Seq(Words \cup {NoWord})
        /\ Len(Queued') = Count'
    BY <1>1, QueuedTypeNext DEF QueuedOK
  <2>2. \A i \in 1 .. Count' : Queued'[i] = fifo'[Slot(i)']
    BY <1>1, QueuedTypeNext DEF QueuedOK
  <2> QED
    BY <1>3, <1>4, <1>6, <2>1, <2>2
<1>10. \A i \in 1 .. Count - 1 : Queued[i + 1] = fifo[Slot(i + 1)]
  <2> TAKE i \in 1 .. Count - 1
  <2>1. i + 1 \in 1 .. Count
    BY <1>4
  <2> QED
    BY <1>1, <2>1, QueuedType DEF QueuedOK
<1>11. Queued' = rest
  <2> HIDE DEF rest
  <2> QED
    BY <1>8, <1>9, <1>10, SeqEqual
<1> QED
  BY <1>3, <1>7, <1>11 DEF Queue!Take

(* A FIFO just set up is the empty queue.                                  *)
LEMMA InitQueue == Init => Queue!Init
<1> SUFFICES ASSUME Init PROVE Queue!Init
  OBVIOUS
<1>1. TypeOK
  BY InitIInv DEF IInv
<1>2. Count = 0
  BY FifoAssumption DEF Init, Count
<1>3. Queued = <<>>
  BY <1>1, <1>2, QueuedType DEF QueuedOK
<1> QED
  BY <1>3 DEF Init, Queue!Init

(* A step of the driver or the host is a step of the queue or none: only   *)
(* the last write of vmwareWriteWordToFIFO adds a word, and setting up the *)
(* FIFO loses none.                                                        *)
LEMMA StepQueue ==
  IInv /\ IInv' /\ [Next]_vars => [Queue!Next]_<<Queued, taken>>
<1> SUFFICES ASSUME IInv, IInv', [Next]_vars
             PROVE  [Queue!Next]_<<Queued, taken>>
  OBVIOUS
<1>1. CASE Advance
  <2>1. value \in Words
    BY <1>1 DEF Advance, IInv, WordInFlight, Writing
  <2> QED
    BY <1>1, <2>1, AdvancePuts DEF Queue!Next
<1>2. CASE TakeWord
  BY <1>2, TakeWordTakes DEF Queue!Next
<1>3. CASE Store
  BY <1>3, StoreStutters DEF IInv, Store
<1>4. CASE InitFIFO
  <2>1. /\ stop = next /\ next \in Nat
        /\ stop' = Min /\ next' = Min /\ Min \in Nat
        /\ taken' = taken
    BY <1>4, FifoAssumption DEF IInv, InitFIFO, DrainedWhenAway, TypeOK, Slots
  <2>2. Count = 0 /\ Count' = 0
    BY <2>1 DEF Count
  <2>3. Queued = <<>> /\ Queued' = <<>>
    BY <2>2 DEF Queued
  <2> QED
    BY <2>1, <2>3
<1>5. CASE \/ \E w \in Words : WriteWord(w)
           \/ TestBehind \/ TestWrapped \/ WaitForFB \/ Sync \/ WaitEnds
           \/ LeaveVT \/ Restore \/ EnterVT \/ ScreenInit \/ Ready \/ UNCHANGED vars
  <2>1. UNCHANGED <<fifo, next, stop, taken>>
    BY <1>5 DEF WriteWord, TestBehind, TestWrapped, WaitForFB, Sync, WaitEnds,
                LeaveVT, Restore, EnterVT, ScreenInit, Ready, vars
  <2> QED
    BY <2>1, QueuedSame
<1> QED
  BY <1>1, <1>2, <1>3, <1>4, <1>5 DEF Next, Driver, Host

(* The ring is a queue: whatever the interleaving of the driver and the    *)
(* host, every word is taken once, in order, over VT switches too.         *)
THEOREM RingIsQueue == Spec => QueueSpec
<1>1. Spec => Queue!Init /\ [][Queue!Next]_<<Queued, taken>>
  BY InitQueue, StepQueue, RingInvariant, PTL DEF Spec
<1> QED
  BY <1>1 DEF QueueSpec, Queue!Spec
=============================================================================
