------------------------------ MODULE RingQueue ------------------------------
(***************************************************************************)
(* utility/ringque.h: a ring of MEM_LEN slots between two pointers, kept   *)
(* here as offsets from static_array_.  An offset equal to MEM_LEN is the  *)
(* address one past the array.                                             *)
(*                                                                         *)
(* Three kinds of owner use the class, each with its own operations:       *)
(*   "udp"      CUdpDevice (bootloader): push_array, pop_array, clear      *)
(*   "console"  CConsole: push, push_array, pop_array                      *)
(*   "mailbox"  CAN mailboxes and queues, sockets: push, pop, clear        *)
(***************************************************************************)
EXTENDS Integers, Sequences

CONSTANTS
  MEM_LEN,   \* slots of static_array_
  Elem,      \* the values a slot may hold
  Zero,      \* the value memset leaves in every slot
  MaxBuf     \* bound: the longest array an owner pushes or asks for

ASSUME MemLenAssumption == MEM_LEN \in Nat \ {0}
ASSUME ZeroAssumption == Zero \in Elem
ASSUME MaxBufAssumption == MaxBuf \in Nat

VARIABLES
  owner,        \* which kind of owner the queue has; never changes
  static_array, \* the slots
  back_ptr,     \* offset of the slot the next push fills
  front_ptr,    \* offset of the oldest element
  out,          \* the elements the last pop copied to its caller
  call          \* which kind of call came last, history only

ringVars == <<owner, static_array, back_ptr, front_ptr, out, call>>

Slots == 0 .. MEM_LEN - 1

(* The number of elements, and the room left for more.  Here and below, a  *)
(* name with a suffix after "_" that the code does not have is a variant   *)
(* with a bug put in, which some property must catch (README.md).          *)
elemsInQue ==
  IF back_ptr - front_ptr < 0 THEN back_ptr - front_ptr + MEM_LEN
                              ELSE back_ptr - front_ptr

emptyElemsInQue_AllSlots == MEM_LEN - elemsInQue

emptyElemsInQue == MEM_LEN - 1 - elemsInQue

empty == back_ptr = front_ptr

(* Room between a pointer and the end of the array. *)
bytesToArrayEnd(ptr) == MEM_LEN - ptr

AtMost(len, bound) == IF len > bound THEN bound ELSE len

(* The slot k positions after offset ptr. *)
SlotAfter_NoWrap(ptr, k) == ptr + k

SlotAfter(ptr, k) ==
  IF ptr + k >= MEM_LEN THEN ptr + k - MEM_LEN ELSE ptr + k

(* The elements, oldest first. *)
Contents == [i \in 1 .. elemsInQue |-> static_array[SlotAfter(front_ptr, i - 1)]]

-----------------------------------------------------------------------------

RingInit ==
  /\ owner \in {"udp", "console", "mailbox"}
  /\ static_array = [s \in Slots |-> Zero]
  /\ back_ptr = 0
  /\ front_ptr = 0
  /\ out = <<>>
  /\ call = "none"

(* push: one element; false when full.  A write at offset MEM_LEN would    *)
(* miss the array.                                                         *)
push(value) ==
  /\ owner \in {"console", "mailbox"}
  /\ emptyElemsInQue # 0
  /\ static_array' = [static_array EXCEPT ![back_ptr] = value]
  /\ back_ptr' = SlotAfter(back_ptr, 1)
  /\ call' = "put"
  /\ UNCHANGED <<owner, front_ptr, out>>

(* front() followed by pop(), as every mailbox reader calls them. *)
pop ==
  /\ owner = "mailbox"
  /\ elemsInQue # 0
  /\ out' = <<static_array[front_ptr]>>
  /\ front_ptr' = SlotAfter(front_ptr, 1)
  /\ call' = "get"
  /\ UNCHANGED <<owner, static_array, back_ptr>>

(* What push_array copies: the part of buf that fits. *)
Accepted(buf) == AtMost(Len(buf), emptyElemsInQue)

(* push_array: up to the end of the array, the rest to its beginning. *)
push_array(buf) ==
  LET len == Accepted(buf)
      tail == bytesToArrayEnd(back_ptr)
      wraps == front_ptr <= back_ptr /\ len >= tail
  IN  /\ owner \in {"udp", "console"}
      /\ emptyElemsInQue # 0
      /\ static_array' =
           [s \in Slots |->
              IF s >= back_ptr /\ s < back_ptr + len THEN buf[s - back_ptr + 1]
              ELSE IF wraps /\ s < len - tail THEN buf[s + tail + 1]
              ELSE static_array[s]]
      /\ back_ptr' = IF wraps THEN len - tail ELSE back_ptr + len
      /\ call' = "put"
      /\ UNCHANGED <<owner, front_ptr, out>>

(* pop_array: a pop that ends exactly at the end of the array leaves the   *)
(* front pointer there.                                                    *)
pop_array(asked) ==
  LET len == AtMost(asked, elemsInQue)
      tail == bytesToArrayEnd(front_ptr)
      wraps == front_ptr > back_ptr /\ len > tail
  IN  /\ owner \in {"udp", "console"}
      /\ elemsInQue # 0
      /\ len # 0
      /\ out' = [i \in 1 .. len |->
                   IF wraps /\ i > tail THEN static_array[i - tail - 1]
                                        ELSE static_array[front_ptr + i - 1]]
      /\ front_ptr' = IF wraps THEN len - tail ELSE front_ptr + len
      /\ call' = "get"
      /\ UNCHANGED <<owner, static_array, back_ptr>>

clear ==
  /\ owner \in {"udp", "mailbox"}
  /\ back_ptr' = front_ptr
  /\ call' = "clear"
  /\ UNCHANGED <<owner, static_array, front_ptr, out>>

RingNext ==
  \/ \E value \in Elem : push(value)
  \/ pop
  \/ \E n \in 0 .. MaxBuf : \E buf \in [1 .. n -> Elem] : push_array(buf)
  \/ \E n \in 0 .. MaxBuf : pop_array(n)
  \/ clear

RingSpec == RingInit /\ [][RingNext]_ringVars

-----------------------------------------------------------------------------

(* The pointers stay on the array or one past it, the copies hold elements. *)
RingTypeOK ==
  /\ owner \in {"udp", "console", "mailbox"}
  /\ static_array \in [Slots -> Elem]
  /\ back_ptr \in 0 .. MEM_LEN
  /\ front_ptr \in 0 .. MEM_LEN
  /\ out \in Seq(Elem)
  /\ call \in {"none", "put", "get", "clear"}

(* Where a pointer may stand one past the array: only pop_array and clear  *)
(* put it there, so the owners that also call push never see their back    *)
(* pointer leave the array, and a mailbox neither pointer.                 *)
PointersByOwner ==
  /\ owner # "udp" => back_ptr < MEM_LEN
  /\ owner = "mailbox" => front_ptr < MEM_LEN
  /\ back_ptr = MEM_LEN => front_ptr = MEM_LEN

(* Every slot a single-element push writes or front() reads lies inside    *)
(* static_array_, whatever calls its owner made before (ringque.h:51, 88). *)
AccessInBounds ==
  /\ owner \in {"console", "mailbox"} => back_ptr \in Slots
  /\ owner = "mailbox" => front_ptr \in Slots

(* The ring behaves as a bounded first-in first-out buffer: nothing is     *)
(* lost, duplicated or reordered across the wrap-around of either pointer, *)
(* and it is never taken for empty when it is full (ringque.h:45, 110-126).*)
Fifo == INSTANCE BoundedFifo WITH Capacity <- MEM_LEN - 1, q <- Contents
RefinesFifo == Fifo!AbsSpec
=============================================================================
