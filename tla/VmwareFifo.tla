----------------------------- MODULE VmwareFifo -----------------------------
(***************************************************************************)
(* The command FIFO of the legacy driver (src/vmware.c): a ring of words   *)
(* in device memory.  The driver writes at NEXT_CMD, the host takes words  *)
(* at STOP, whenever it likes and at once when the driver writes SYNC.     *)
(*                                                                         *)
(* The driver is one thread: pc says where it is in vmwareWriteWordToFIFO, *)
(* vmwareWaitForFB, VMWARERestore or VMWAREInitFIFO, and after is where it *)
(* goes on when a wait ends.  Between any two of its accesses to device    *)
(* memory the host may take words.  Offsets count words.                   *)
(***************************************************************************)
EXTENDS Naturals, Sequences

CONSTANTS
  Words,        (* what is written                                        *)
  NoWord,       (* what memory holds before                               *)
  Min, Max      (* SVGA_FIFO_MIN and SVGA_FIFO_MAX                        *)

ASSUME FifoAssumption ==
  /\ Min \in Nat /\ Max \in Nat
  /\ Min + 1 < Max
  /\ NoWord \notin Words

VARIABLES
  fifo,         (* the words from Min to Max - 1                          *)
  next,         (* SVGA_FIFO_NEXT_CMD                                     *)
  stop,         (* SVGA_FIFO_STOP                                         *)
  config_done,  (* SVGA_REG_CONFIG_DONE: the host reads the FIFO          *)
  busy,         (* SVGA_REG_BUSY, set by a write to SVGA_REG_SYNC         *)
  fifo_enabled, (* SavedReg.svga_fifo_enabled: in use before the server   *)
  pc, after, value,
  taken         (* the word the host took last                            *)

vars == <<fifo, next, stop, config_done, busy, fifo_enabled, pc, after, value, taken>>

Slots == Min .. Max - 1

Points == {"away", "idle", "behind", "wrapped", "sync", "wait", "store",
           "advance", "restore", "configure"}

Following(i) == IF i = Max - 1 THEN Min ELSE i + 1

TypeOK ==
  /\ fifo \in [Slots -> Words \cup {NoWord}]
  /\ next \in Slots /\ stop \in Slots
  /\ config_done \in BOOLEAN /\ busy \in BOOLEAN /\ fifo_enabled \in BOOLEAN
  /\ pc \in Points
  /\ after \in {"idle", "store", "restore", "configure"}
  /\ value \in Words \cup {NoWord}
  /\ taken \in Words \cup {NoWord}

(* VMWAREInitFIFO has run, from ScreenInit.                                *)
Init ==
  /\ fifo = [i \in Slots |-> NoWord]
  /\ next = Min /\ stop = Min
  /\ config_done = TRUE /\ busy = FALSE
  /\ fifo_enabled \in BOOLEAN
  /\ pc = "idle" /\ after = "idle" /\ value = NoWord
  /\ taken = NoWord

Goto(point) == pc' = point

WaitThen(point) == Goto("sync") /\ after' = point

----------------------------------------------------------------------------
(* vmwareWriteWordToFIFO.                                                  *)

WriteWord(w) ==
  /\ pc = "idle"
  /\ value' = w
  /\ Goto("behind")
  /\ UNCHANGED <<fifo, next, stop, config_done, busy, fifo_enabled, after, taken>>

(* Mutant: full when they meet.                                            *)
TestBehindOffByOne ==
  /\ pc = "behind"
  /\ IF next = stop THEN WaitThen("store") ELSE Goto("wrapped") /\ UNCHANGED after
  /\ UNCHANGED <<fifo, next, stop, config_done, busy, fifo_enabled, value, taken>>

(* The first test for a full FIFO: NEXT_CMD is just behind STOP.           *)
TestBehind ==
  /\ pc = "behind"
  /\ IF next + 1 = stop THEN WaitThen("store") ELSE Goto("wrapped") /\ UNCHANGED after
  /\ UNCHANGED <<fifo, next, stop, config_done, busy, fifo_enabled, value, taken>>

(* Mutant: a full FIFO is not noticed at the wrap.                         *)
TestWrappedNever ==
  /\ pc = "wrapped"
  /\ Goto("store")
  /\ UNCHANGED <<fifo, next, stop, config_done, busy, fifo_enabled, after, value, taken>>

(* The second, which reads STOP again: they are at the two ends.           *)
TestWrapped ==
  /\ pc = "wrapped"
  /\ IF next = Max - 1 /\ stop = Min THEN WaitThen("store")
                                     ELSE Goto("store") /\ UNCHANGED after
  /\ UNCHANGED <<fifo, next, stop, config_done, busy, fifo_enabled, value, taken>>

Store ==
  /\ pc = "store"
  /\ fifo' = [fifo EXCEPT ![next] = value]
  /\ Goto("advance")
  /\ UNCHANGED <<next, stop, config_done, busy, fifo_enabled, after, value, taken>>

(* Mutant: NEXT_CMD runs past the end.                                     *)
AdvanceNoWrap ==
  /\ pc = "advance"
  /\ next' = next + 1
  /\ Goto("idle")
  /\ UNCHANGED <<fifo, stop, config_done, busy, fifo_enabled, after, value, taken>>

(* After the write barrier.                                                *)
Advance ==
  /\ pc = "advance"
  /\ next' = Following(next)
  /\ Goto("idle")
  /\ UNCHANGED <<fifo, stop, config_done, busy, fifo_enabled, after, value, taken>>

----------------------------------------------------------------------------
(* vmwareWaitForFB, on its own after a cursor is defined, and as a part of *)
(* the above and of what follows.                                          *)

WaitForFB ==
  /\ pc = "idle"
  /\ WaitThen("idle")
  /\ UNCHANGED <<fifo, next, stop, config_done, busy, fifo_enabled, value, taken>>

Sync ==
  /\ pc = "sync"
  /\ busy' = TRUE
  /\ Goto("wait")
  /\ UNCHANGED <<fifo, next, stop, config_done, fifo_enabled, after, value, taken>>

(* The read of SVGA_REG_BUSY that ends the loop.                           *)
WaitEnds ==
  /\ pc = "wait"
  /\ ~busy
  /\ Goto(after)
  /\ UNCHANGED <<fifo, next, stop, config_done, busy, fifo_enabled, after, value, taken>>

----------------------------------------------------------------------------
(* The device is given up (LeaveVT, CloseScreen) and taken again.          *)

(* Mutant: VMWARERestore does not wait.                                    *)
LeaveVTAtOnce ==
  /\ pc = "idle"
  /\ Goto("restore")
  /\ UNCHANGED <<fifo, next, stop, config_done, busy, fifo_enabled, after, value, taken>>

LeaveVT ==
  /\ pc = "idle"
  /\ WaitThen("restore")
  /\ UNCHANGED <<fifo, next, stop, config_done, busy, fifo_enabled, value, taken>>

(* VMWAREStopFIFO, unless the FIFO was in use before the server.           *)
Restore ==
  /\ pc = "restore"
  /\ config_done' = (config_done /\ fifo_enabled)
  /\ Goto("away")
  /\ UNCHANGED <<fifo, next, stop, busy, fifo_enabled, after, value, taken>>

EnterVT ==
  /\ pc = "away"
  /\ IF fifo_enabled THEN Goto("idle") /\ UNCHANGED after ELSE WaitThen("configure")
  /\ UNCHANGED <<fifo, next, stop, config_done, busy, fifo_enabled, value, taken>>

(* The server regenerates: the FIFO is set up whatever it was before.      *)
ScreenInit ==
  /\ pc = "away"
  /\ WaitThen("configure")
  /\ UNCHANGED <<fifo, next, stop, config_done, busy, fifo_enabled, value, taken>>

(* VMWAREInitFIFO after its wait; the host looks on at the end of it.      *)
InitFIFO ==
  /\ pc = "configure"
  /\ next' = Min /\ stop' = Min
  /\ config_done' = TRUE
  /\ Goto("idle")
  /\ UNCHANGED <<fifo, busy, fifo_enabled, after, value, taken>>

----------------------------------------------------------------------------
(* The host.                                                               *)

TakeWord ==
  /\ config_done
  /\ stop # next
  /\ taken' = fifo[stop]
  /\ stop' = Following(stop)
  /\ UNCHANGED <<fifo, next, config_done, busy, fifo_enabled, pc, after, value>>

(* SYNC is done when no word is left that the host may read.               *)
Ready ==
  /\ busy
  /\ stop = next \/ ~config_done
  /\ busy' = FALSE
  /\ UNCHANGED <<fifo, next, stop, config_done, fifo_enabled, pc, after, value, taken>>

----------------------------------------------------------------------------
Driver ==
  \/ \E w \in Words : WriteWord(w)
  \/ TestBehind \/ TestWrapped \/ Store \/ Advance
  \/ WaitForFB \/ Sync \/ WaitEnds
  \/ LeaveVT \/ Restore \/ EnterVT \/ ScreenInit \/ InitFIFO

Host == TakeWord \/ Ready

Next == Driver \/ Host

Spec == Init /\ [][Next]_vars

(* A driver that waits polls on, and a host that was told to synchronise   *)
(* takes what there is and says that it is done.                           *)
Fairness ==
  /\ WF_vars(WaitEnds)
  /\ WF_vars(busy /\ TakeWord)
  /\ WF_vars(Ready)

FairSpec == Spec /\ Fairness

----------------------------------------------------------------------------
(* Properties.                                                             *)

(* The driver never writes a word that makes a full FIFO look empty        *)
(* (NEXT_CMD meets STOP), at the wrap or before it, wherever the host is.  *)
NeverOverrun == pc \in {"store", "advance"} => Following(next) # stop

(* The device is given up only when the host has taken every word: no      *)
(* update or cursor is lost over a VT switch (VMWARERestore).              *)
DrainedWhenAway == pc \in {"restore", "away", "configure"} => stop = next

(* The loop of vmwareWaitForFB always ends: the host catches up with the   *)
(* driver, whatever the offsets were when it wrote SYNC.                   *)
WaitsEnd == (pc = "wait") ~> (pc # "wait")

(* The words between STOP and NEXT_CMD, in the order the host takes them.  *)
Size == Max - Min

Count == IF next >= stop THEN next - stop ELSE next - stop + Size

Slot(i) == IF stop + i - 1 < Max THEN stop + i - 1 ELSE stop + i - 1 - Size

Queued == [i \in 1 .. Count |-> fifo[Slot(i)]]

Queue == INSTANCE CommandQueue WITH queue <- Queued, Capacity <- Size - 1

(* The ring is a queue: the host takes each word once and in order.        *)
QueueSpec == Queue!Spec
=============================================================================
