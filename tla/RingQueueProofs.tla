--------------------------- MODULE RingQueueProofs ---------------------------
(***************************************************************************)
(* Proofs about the ring of utility/ringque.h for every array length and   *)
(* every element set: its pointers stay in range, what push and front()    *)
(* touch lies inside the array, and the ring implements BoundedFifo.       *)
(***************************************************************************)
EXTENDS RingQueue, SequenceTheorems, TLAPS

(* The strengthening the other invariants follow from. *)
RingInv == RingTypeOK /\ PointersByOwner

(* The element count is determined by the pointers alone and fits. *)
LEMMA ElemsBound ==
  ASSUME RingInv
  PROVE  /\ elemsInQue \in 0 .. MEM_LEN - 1
         /\ emptyElemsInQue \in 0 .. MEM_LEN - 1
BY MemLenAssumption
DEF RingInv, RingTypeOK, PointersByOwner, elemsInQue, emptyElemsInQue

(* A position within the queue is a slot of the array. *)
LEMMA SlotInArray ==
  ASSUME RingInv, NEW k \in Nat, k < elemsInQue
  PROVE  SlotAfter(front_ptr, k) \in Slots
BY MemLenAssumption
DEF RingInv, RingTypeOK, PointersByOwner, elemsInQue, SlotAfter, Slots

LEMMA RingInitInv == RingInit => RingInv
BY MemLenAssumption, ZeroAssumption
DEF RingInit, RingInv, RingTypeOK, PointersByOwner, Slots

LEMMA PushInv == ASSUME RingInv, NEW value \in Elem, push(value) PROVE RingInv'
BY MemLenAssumption
DEF push, RingInv, RingTypeOK, PointersByOwner, SlotAfter, Slots

LEMMA PopInv == ASSUME RingInv, pop PROVE RingInv'
<1>1. static_array[front_ptr] \in Elem
  BY MemLenAssumption DEF pop, RingInv, RingTypeOK, PointersByOwner, Slots
<1>2. out' \in Seq(Elem)
  BY <1>1 DEF pop
<1> QED
  BY <1>2, MemLenAssumption
  DEF pop, RingInv, RingTypeOK, PointersByOwner, SlotAfter, Slots

LEMMA PushArrayInv ==
  ASSUME RingInv, NEW n \in Nat, NEW buf \in [1 .. n -> Elem], push_array(buf)
  PROVE  RingInv'
<1> DEFINE len == Accepted(buf)
           tail == bytesToArrayEnd(back_ptr)
           wraps == front_ptr <= back_ptr /\ len >= tail
<1>1. Len(buf) = n
  OBVIOUS
<1>2. len \in 0 .. n /\ len <= emptyElemsInQue
  BY <1>1, ElemsBound, MemLenAssumption DEF Accepted, AtMost
<1>3. tail \in 0 .. MEM_LEN
  BY MemLenAssumption DEF RingInv, RingTypeOK, bytesToArrayEnd
<1>4. static_array' \in [Slots -> Elem]
  BY <1>2, <1>3, MemLenAssumption
  DEF push_array, RingInv, RingTypeOK, Slots, bytesToArrayEnd
<1>5. /\ back_ptr' = IF wraps THEN len - tail ELSE back_ptr + len
      /\ call' = "put"
      /\ UNCHANGED <<owner, front_ptr, out>>
  BY DEF push_array
<1>6. back_ptr' \in 0 .. MEM_LEN - 1
  BY <1>2, <1>3, <1>5, MemLenAssumption
  DEF RingInv, RingTypeOK, PointersByOwner, bytesToArrayEnd, emptyElemsInQue,
      elemsInQue
<1> QED
  BY <1>4, <1>5, <1>6, MemLenAssumption
  DEF push_array, RingInv, RingTypeOK, PointersByOwner

LEMMA PopArrayInv ==
  ASSUME RingInv, NEW n \in Nat, pop_array(n)
  PROVE  RingInv'
<1> DEFINE len == AtMost(n, elemsInQue)
           tail == bytesToArrayEnd(front_ptr)
           wraps == front_ptr > back_ptr /\ len > tail
<1>1. len \in 1 .. elemsInQue
  BY ElemsBound, MemLenAssumption DEF pop_array, AtMost
<1>2. tail \in 0 .. MEM_LEN
  BY MemLenAssumption DEF RingInv, RingTypeOK, bytesToArrayEnd
<1>3. /\ front_ptr' = IF wraps THEN len - tail ELSE front_ptr + len
      /\ UNCHANGED <<owner, static_array, back_ptr>>
  BY DEF pop_array
<1>4. front_ptr' \in 0 .. MEM_LEN
  BY <1>1, <1>2, <1>3, MemLenAssumption
  DEF RingInv, RingTypeOK, PointersByOwner, bytesToArrayEnd, elemsInQue
<1>5. out' \in Seq(Elem)
  <2>1. ASSUME NEW i \in 1 .. len, wraps, i > tail
        PROVE  i - tail - 1 \in Slots
    BY <2>1, <1>1, <1>2, ElemsBound, MemLenAssumption DEF Slots
  <2>2. ASSUME NEW i \in 1 .. len, ~(wraps /\ i > tail)
        PROVE  front_ptr + i - 1 \in Slots
    BY <2>2, <1>1, <1>2, ElemsBound, MemLenAssumption
    DEF Slots, bytesToArrayEnd, elemsInQue, RingInv, RingTypeOK, PointersByOwner
  <2>3. out' \in [1 .. len -> Elem]
    BY <2>1, <2>2 DEF pop_array, RingInv, RingTypeOK
  <2> QED
    BY <2>3, <1>1, ElemsBound
<1>6. back_ptr = MEM_LEN => front_ptr' = MEM_LEN
  BY <1>1, <1>2, <1>3, ElemsBound, MemLenAssumption
  DEF RingInv, RingTypeOK, PointersByOwner, bytesToArrayEnd, elemsInQue
<1> QED
  BY <1>3, <1>4, <1>5, <1>6
  DEF pop_array, RingInv, RingTypeOK, PointersByOwner

LEMMA ClearInv == ASSUME RingInv, clear PROVE RingInv'
BY DEF clear, RingInv, RingTypeOK, PointersByOwner

LEMMA RingStepInv == RingInv /\ [RingNext]_ringVars => RingInv'
<1> SUFFICES ASSUME RingInv, [RingNext]_ringVars PROVE RingInv'
  OBVIOUS
<1>1. ASSUME NEW value \in Elem, push(value) PROVE RingInv'
  BY <1>1, PushInv
<1>2. CASE pop
  BY <1>2, PopInv
<1>3. ASSUME NEW n \in 0 .. MaxBuf, NEW buf \in [1 .. n -> Elem], push_array(buf)
      PROVE  RingInv'
  BY <1>3, PushArrayInv, MaxBufAssumption
<1>4. ASSUME NEW n \in 0 .. MaxBuf, pop_array(n) PROVE RingInv'
  BY <1>4, PopArrayInv, MaxBufAssumption
<1>5. CASE clear
  BY <1>5, ClearInv
<1>6. CASE UNCHANGED ringVars
  BY <1>6 DEF ringVars, RingInv, RingTypeOK, PointersByOwner
<1> QED
  BY <1>1, <1>2, <1>3, <1>4, <1>5, <1>6 DEF RingNext

(* RingInv, the type invariant with the places a pointer may take for each *)
(* owner, is inductive: it holds in every reachable state (ringque.h:85-   *)
(* 220), and the theorems below rest on it.                                *)
THEOREM RingInvariant == RingSpec => []RingInv
BY RingInitInv, RingStepInv, PTL DEF RingSpec

(* Whatever its owner calls, the ring's offsets, slots and copies keep     *)
(* their types, for every array length (ringque.h:281-284).                *)
THEOREM RingTypeCorrect == RingSpec => []RingTypeOK
<1>1. RingInv => RingTypeOK
  BY DEF RingInv
<1> QED
  BY <1>1, RingInvariant, PTL

(* push and front() never touch memory outside static_array_, for every    *)
(* array length (ringque.h:51, 88).                                        *)
THEOREM RingAccessInBounds == RingSpec => []AccessInBounds
<1>1. RingInv => AccessInBounds
  BY MemLenAssumption
  DEF RingInv, RingTypeOK, PointersByOwner, AccessInBounds, Slots
<1> QED
  BY <1>1, RingInvariant, PTL

-----------------------------------------------------------------------------
(* The ring implements the bounded queue. *)

(* Appending written out element by element. *)
LEMMA AppendByElement ==
  ASSUME NEW S, NEW s \in Seq(S), NEW t \in Seq(S), NEW r,
         r = [i \in 1 .. Len(s) + Len(t) |->
                IF i <= Len(s) THEN s[i] ELSE t[i - Len(s)]]
  PROVE  r = s \o t
<1>1. r \in Seq(S) /\ Len(r) = Len(s) + Len(t)
  <2>1. r \in [1 .. Len(s) + Len(t) -> S]
    OBVIOUS
  <2> QED
    BY <2>1
<1>2. /\ s \o t \in Seq(S)
      /\ Len(s \o t) = Len(s) + Len(t)
      /\ \A i \in 1 .. Len(s) + Len(t) :
           (s \o t)[i] = IF i <= Len(s) THEN s[i] ELSE t[i - Len(s)]
  BY ConcatProperties
<1> QED
  BY <1>1, <1>2, SeqEqual

(* A part of a sequence written out element by element. *)
LEMMA PartByElement ==
  ASSUME NEW S, NEW s \in Seq(S), NEW m \in 1 .. Len(s) + 1, NEW n \in m - 1 .. Len(s),
         NEW r, r = [i \in 1 .. n - m + 1 |-> s[i + m - 1]]
  PROVE  r = SubSeq(s, m, n)
OBVIOUS

LEMMA ContentsType ==
  ASSUME RingInv
  PROVE  /\ Contents \in [1 .. elemsInQue -> Elem]
         /\ Contents \in Seq(Elem)
         /\ Len(Contents) = elemsInQue
<1>1. Contents \in [1 .. elemsInQue -> Elem]
  <2>1. ASSUME NEW i \in 1 .. elemsInQue
        PROVE  static_array[SlotAfter(front_ptr, i - 1)] \in Elem
    <3>1. i - 1 \in Nat /\ i - 1 < elemsInQue
      BY ElemsBound, MemLenAssumption
    <3> QED
      BY <3>1, SlotInArray DEF RingInv, RingTypeOK
  <2> QED
    BY <2>1 DEF Contents
<1> QED
  BY <1>1, ElemsBound

(* A step that puts n elements behind the others is a put of the fifo. *)
LEMMA PutStep ==
  ASSUME RingInv, RingInv', NEW n \in Nat, NEW added \in [1 .. n -> Elem],
         UNCHANGED <<front_ptr, out>>, call' = "put",
         elemsInQue' = elemsInQue + n, elemsInQue + n <= MEM_LEN - 1,
         \A i \in 1 .. elemsInQue :
           static_array'[SlotAfter(front_ptr, i - 1)]
             = static_array[SlotAfter(front_ptr, i - 1)],
         \A i \in 1 .. n :
           static_array'[SlotAfter(front_ptr, elemsInQue + i - 1)] = added[i]
  PROVE  Fifo!AbsPut
<1>1. added \in Seq(Elem) /\ Len(added) = n
  OBVIOUS
<1>2. Contents \in Seq(Elem) /\ Len(Contents) = elemsInQue
  BY ContentsType
<1>3. elemsInQue \in Nat
  BY ElemsBound
<1>4. n \in 0 .. (MEM_LEN - 1) - Len(Contents)
  BY <1>2, <1>3, MemLenAssumption
<1>5. Contents' = [i \in 1 .. elemsInQue + n |->
                     static_array'[SlotAfter(front_ptr, i - 1)]]
  BY DEF Contents, SlotAfter
<1>6. ASSUME NEW i \in 1 .. elemsInQue + n
      PROVE  static_array'[SlotAfter(front_ptr, i - 1)]
               = IF i <= elemsInQue THEN Contents[i] ELSE added[i - elemsInQue]
  <2>1. CASE i <= elemsInQue
    <3>1. i \in 1 .. elemsInQue
      BY <2>1, <1>3
    <3>2. Contents[i] = static_array[SlotAfter(front_ptr, i - 1)]
      BY <3>1 DEF Contents
    <3> QED
      BY <2>1, <3>1, <3>2
  <2>2. CASE ~(i <= elemsInQue)
    <3> DEFINE j == i - elemsInQue
    <3>1. j \in 1 .. n /\ elemsInQue + j - 1 = i - 1
      BY <2>2, <1>3
    <3>2. static_array'[SlotAfter(front_ptr, elemsInQue + j - 1)] = added[j]
      BY <3>1
    <3> QED
      BY <2>2, <3>1, <3>2
  <2> QED
    BY <2>1, <2>2
<1>7. Contents' = [i \in 1 .. Len(Contents) + Len(added) |->
                     IF i <= Len(Contents) THEN Contents[i]
                                           ELSE added[i - Len(Contents)]]
  BY <1>1, <1>2, <1>5, <1>6
<1>8. Contents' = Contents \o added
  BY <1>1, <1>2, <1>7, AppendByElement
<1> QED
  BY <1>4, <1>8 DEF Fifo!AbsPut

(* A step that advances the front pointer by n elements and copies them    *)
(* out is a get of the fifo.                                               *)
LEMMA GetStep ==
  ASSUME RingInv, NEW n \in 1 .. elemsInQue,
         UNCHANGED static_array, call' = "get",
         elemsInQue' = elemsInQue - n,
         \A k \in 0 .. elemsInQue - n - 1 :
           SlotAfter(front_ptr', k) = SlotAfter(front_ptr, n + k),
         out' = [i \in 1 .. n |-> static_array[SlotAfter(front_ptr, i - 1)]]
  PROVE  Fifo!AbsGet
<1>1. Contents \in Seq(Elem) /\ Len(Contents) = elemsInQue
  BY ContentsType
<1>2. elemsInQue \in Nat
  BY ElemsBound
<1>3. out' = SubSeq(Contents, 1, n)
  <2>1. out' = [i \in 1 .. n - 1 + 1 |-> Contents[i + 1 - 1]]
    BY <1>2 DEF Contents
  <2> QED
    BY <2>1, <1>1, <1>2, PartByElement
<1>4. Contents' = SubSeq(Contents, n + 1, Len(Contents))
  <2>1. Contents' = [i \in 1 .. elemsInQue - n |->
                       static_array[SlotAfter(front_ptr', i - 1)]]
    BY DEF Contents, SlotAfter
  <2>2. ASSUME NEW i \in 1 .. elemsInQue - n
        PROVE  static_array[SlotAfter(front_ptr', i - 1)] = Contents[i + n]
    <3>1. i - 1 \in 0 .. elemsInQue - n - 1 /\ i + n \in 1 .. elemsInQue
      BY <1>2
    <3>2. SlotAfter(front_ptr', i - 1) = SlotAfter(front_ptr, n + (i - 1))
      BY <3>1
    <3>3. n + (i - 1) = i + n - 1
      BY <1>2
    <3> QED
      BY <3>1, <3>2, <3>3 DEF Contents
  <2>3. Contents' = [i \in 1 .. Len(Contents) - (n + 1) + 1 |->
                       Contents[i + (n + 1) - 1]]
    <3>1. Len(Contents) - (n + 1) + 1 = elemsInQue - n
      BY <1>1, <1>2
    <3>2. \A i \in 1 .. elemsInQue - n : i + (n + 1) - 1 = i + n
      BY <1>2
    <3> QED
      BY <2>1, <2>2, <3>1, <3>2
  <2> QED
    BY <2>3, <1>1, <1>2, PartByElement
<1> QED
  BY <1>1, <1>3, <1>4 DEF Fifo!AbsGet

(* Pushing one element puts it alone. *)
LEMMA PushRefines ==
  ASSUME RingInv, RingInv', NEW value \in Elem, push(value)
  PROVE  Fifo!AbsPut
<1> DEFINE added == [i \in 1 .. 1 |-> value]
<1>1. back_ptr \in 0 .. MEM_LEN - 1 /\ front_ptr \in 0 .. MEM_LEN
  BY MemLenAssumption DEF push, RingInv, RingTypeOK, PointersByOwner
<1>2. elemsInQue' = elemsInQue + 1 /\ elemsInQue + 1 <= MEM_LEN - 1
  BY <1>1, MemLenAssumption
  DEF push, SlotAfter, elemsInQue, emptyElemsInQue, RingInv, PointersByOwner
<1>3. ASSUME NEW i \in 1 .. elemsInQue
      PROVE  static_array'[SlotAfter(front_ptr, i - 1)]
               = static_array[SlotAfter(front_ptr, i - 1)]
  <2>1. SlotAfter(front_ptr, i - 1) \in Slots
    BY SlotInArray, ElemsBound, MemLenAssumption
  <2>2. SlotAfter(front_ptr, i - 1) # back_ptr
    BY <1>1, MemLenAssumption DEF SlotAfter, elemsInQue
  <2> QED
    BY <2>1, <2>2 DEF push, RingInv, RingTypeOK
<1>4. ASSUME NEW i \in 1 .. 1
      PROVE  static_array'[SlotAfter(front_ptr, elemsInQue + i - 1)] = added[i]
  <2>1. SlotAfter(front_ptr, elemsInQue + i - 1) = back_ptr
    BY <1>1, MemLenAssumption DEF SlotAfter, elemsInQue, RingInv, PointersByOwner
  <2> QED
    BY <1>1, <2>1 DEF push, RingInv, RingTypeOK, Slots
<1>5. added \in [1 .. 1 -> Elem] /\ UNCHANGED <<front_ptr, out>> /\ call' = "put"
  BY DEF push
<1> HIDE DEF added
<1> QED
  BY <1>2, <1>3, <1>4, <1>5, PutStep

(* front() and pop() get the oldest element. *)
LEMMA PopRefines ==
  ASSUME RingInv, pop
  PROVE  Fifo!AbsGet
<1>1. back_ptr \in 0 .. MEM_LEN - 1 /\ front_ptr \in 0 .. MEM_LEN - 1
  BY MemLenAssumption DEF pop, RingInv, RingTypeOK, PointersByOwner
<1>2. elemsInQue' = elemsInQue - 1 /\ 1 \in 1 .. elemsInQue
  BY <1>1, MemLenAssumption DEF pop, SlotAfter, elemsInQue
<1>3. ASSUME NEW k \in 0 .. elemsInQue - 1 - 1
      PROVE  SlotAfter(front_ptr', k) = SlotAfter(front_ptr, 1 + k)
  BY <1>1, MemLenAssumption DEF pop, SlotAfter, elemsInQue
<1>4. out' = [i \in 1 .. 1 |-> static_array[SlotAfter(front_ptr, i - 1)]]
  BY <1>1, MemLenAssumption DEF pop, SlotAfter
<1>5. UNCHANGED static_array /\ call' = "get"
  BY DEF pop
<1> QED
  BY <1>2, <1>3, <1>4, <1>5, GetStep

(* push_array puts the part of the buffer it accepts. *)
LEMMA PushArrayRefines ==
  ASSUME RingInv, RingInv',
         NEW n \in Nat, NEW buf \in [1 .. n -> Elem], push_array(buf)
  PROVE  Fifo!AbsPut
<1> DEFINE len == Accepted(buf)
           tail == bytesToArrayEnd(back_ptr)
           wraps == front_ptr <= back_ptr /\ len >= tail
           added == [i \in 1 .. len |-> buf[i]]
<1>1. Len(buf) = n
  OBVIOUS
<1>2. len \in 0 .. n /\ len <= emptyElemsInQue
  BY <1>1, ElemsBound, MemLenAssumption DEF Accepted, AtMost
<1>3. /\ back_ptr \in 0 .. MEM_LEN
      /\ front_ptr \in 0 .. MEM_LEN
      /\ back_ptr = MEM_LEN => front_ptr = MEM_LEN
  BY MemLenAssumption DEF RingInv, RingTypeOK, PointersByOwner
<1>4. /\ static_array' =
           [s \in Slots |->
              IF s >= back_ptr /\ s < back_ptr + len THEN buf[s - back_ptr + 1]
              ELSE IF wraps /\ s < len - tail THEN buf[s + tail + 1]
              ELSE static_array[s]]
      /\ back_ptr' = IF wraps THEN len - tail ELSE back_ptr + len
      /\ call' = "put"
      /\ UNCHANGED <<owner, front_ptr, out>>
  BY DEF push_array
<1>5. tail = MEM_LEN - back_ptr
  BY DEF bytesToArrayEnd
<1> HIDE DEF len, tail
<1>6. elemsInQue' = elemsInQue + len /\ elemsInQue + len <= MEM_LEN - 1
  BY <1>2, <1>3, <1>4, <1>5, MemLenAssumption DEF elemsInQue, emptyElemsInQue
<1>7. ASSUME NEW i \in 1 .. elemsInQue
      PROVE  static_array'[SlotAfter(front_ptr, i - 1)]
               = static_array[SlotAfter(front_ptr, i - 1)]
  <2> DEFINE s == SlotAfter(front_ptr, i - 1)
  <2>1. s \in Slots
    BY SlotInArray, ElemsBound, MemLenAssumption
  <2>2. ~(s >= back_ptr /\ s < back_ptr + len) /\ ~(wraps /\ s < len - tail)
    BY <1>2, <1>3, <1>5, MemLenAssumption
    DEF SlotAfter, elemsInQue, emptyElemsInQue
  <2> HIDE DEF s
  <2> QED
    BY <2>1, <2>2, <1>4 DEF s
<1>8. ASSUME NEW i \in 1 .. len
      PROVE  static_array'[SlotAfter(front_ptr, elemsInQue + i - 1)] = added[i]
  <2> DEFINE s == SlotAfter(front_ptr, elemsInQue + i - 1)
  <2>1. s \in Slots
    BY <1>2, <1>3, MemLenAssumption
    DEF SlotAfter, elemsInQue, emptyElemsInQue, Slots
  <2>2. \/ s >= back_ptr /\ s < back_ptr + len /\ s - back_ptr + 1 = i
        \/ /\ ~(s >= back_ptr /\ s < back_ptr + len)
           /\ wraps /\ s < len - tail /\ s + tail + 1 = i
    BY <1>2, <1>3, <1>5, MemLenAssumption
    DEF SlotAfter, elemsInQue, emptyElemsInQue
  <2> HIDE DEF s
  <2>3. static_array'[s] = buf[i]
    BY <2>1, <2>2, <1>4
  <2> QED
    BY <2>3 DEF s
<1>9. added \in [1 .. len -> Elem] /\ len \in Nat
  BY <1>1, <1>2
<1> HIDE DEF added
<1> QED
  BY <1>4, <1>6, <1>7, <1>8, <1>9, PutStep

(* pop_array gets as many of the oldest elements as it is asked for. *)
LEMMA PopArrayRefines ==
  ASSUME RingInv, NEW n \in Nat, pop_array(n)
  PROVE  Fifo!AbsGet
<1> DEFINE len == AtMost(n, elemsInQue)
           tail == bytesToArrayEnd(front_ptr)
           wraps == front_ptr > back_ptr /\ len > tail
<1>1. len \in 1 .. elemsInQue
  BY ElemsBound, MemLenAssumption DEF pop_array, AtMost
<1>2. /\ back_ptr \in 0 .. MEM_LEN
      /\ front_ptr \in 0 .. MEM_LEN
      /\ back_ptr = MEM_LEN => front_ptr = MEM_LEN
  BY MemLenAssumption DEF RingInv, RingTypeOK, PointersByOwner
<1>3. /\ out' = [i \in 1 .. len |->
                   IF wraps /\ i > tail THEN static_array[i - tail - 1]
                                        ELSE static_array[front_ptr + i - 1]]
      /\ front_ptr' = IF wraps THEN len - tail ELSE front_ptr + len
      /\ UNCHANGED <<owner, static_array, back_ptr>>
  BY DEF pop_array
<1>4. tail = MEM_LEN - front_ptr
  BY DEF bytesToArrayEnd
<1> HIDE DEF len, tail
<1>5. elemsInQue' = elemsInQue - len
  BY <1>1, <1>2, <1>3, <1>4, MemLenAssumption DEF elemsInQue
<1>6. ASSUME NEW k \in 0 .. elemsInQue - len - 1
      PROVE  SlotAfter(front_ptr', k) = SlotAfter(front_ptr, len + k)
  BY <1>1, <1>2, <1>3, <1>4, MemLenAssumption DEF elemsInQue, SlotAfter
<1>7. out' = [i \in 1 .. len |-> static_array[SlotAfter(front_ptr, i - 1)]]
  <2>1. ASSUME NEW i \in 1 .. len
        PROVE  SlotAfter(front_ptr, i - 1)
                 = IF wraps /\ i > tail THEN i - tail - 1 ELSE front_ptr + i - 1
    BY <1>1, <1>2, <1>4, MemLenAssumption DEF elemsInQue, SlotAfter
  <2> QED
    BY <2>1, <1>3
<1>8. UNCHANGED static_array /\ call' = "get"
  BY DEF pop_array
<1> QED
  BY <1>1, <1>5, <1>6, <1>7, <1>8, GetStep

(* No element lies between two equal pointers. *)
LEMMA NoElements ==
  ASSUME back_ptr = front_ptr, front_ptr \in Int
  PROVE  Contents = <<>>
<1>1. elemsInQue = 0
  BY DEF elemsInQue
<1> QED
  BY <1>1 DEF Contents

LEMMA ClearRefines == ASSUME RingInv, clear PROVE Fifo!AbsClear
<1>1. /\ front_ptr \in 0 .. MEM_LEN
      /\ front_ptr' = front_ptr /\ back_ptr' = front_ptr /\ out' = out
      /\ call' = "clear"
  BY MemLenAssumption DEF clear, RingInv, RingTypeOK
<1>2. elemsInQue' = 0
  BY <1>1, MemLenAssumption DEF elemsInQue
<1>3. Contents' = <<>>
  BY <1>2 DEF Contents
<1> QED
  BY <1>1, <1>3 DEF Fifo!AbsClear

LEMMA RingStepRefines ==
  RingInv /\ RingInv' /\ [RingNext]_ringVars => [Fifo!AbsNext]_Fifo!absVars
<1> SUFFICES ASSUME RingInv, RingInv', [RingNext]_ringVars
             PROVE  [Fifo!AbsNext]_Fifo!absVars
  OBVIOUS
<1>1. ASSUME NEW value \in Elem, push(value) PROVE Fifo!AbsPut
  BY <1>1, PushRefines
<1>2. CASE pop
  BY <1>2, PopRefines DEF Fifo!AbsNext
<1>3. ASSUME NEW n \in 0 .. MaxBuf, NEW buf \in [1 .. n -> Elem], push_array(buf)
      PROVE  Fifo!AbsPut
  BY <1>3, PushArrayRefines, MaxBufAssumption
<1>4. ASSUME NEW n \in 0 .. MaxBuf, pop_array(n) PROVE Fifo!AbsGet
  BY <1>4, PopArrayRefines, MaxBufAssumption
<1>5. CASE clear
  BY <1>5, ClearRefines DEF Fifo!AbsNext
<1>6. CASE UNCHANGED ringVars
  <2>1. Contents' = Contents /\ out' = out /\ call' = call
    BY <1>6 DEF ringVars, Contents, elemsInQue, SlotAfter
  <2> QED
    BY <2>1 DEF Fifo!absVars
<1> QED
  BY <1>1, <1>2, <1>3, <1>4, <1>5, <1>6 DEF RingNext, Fifo!AbsNext

LEMMA RingInitRefines == RingInit => Fifo!AbsInit
<1> SUFFICES ASSUME RingInit PROVE Fifo!AbsInit
  OBVIOUS
<1>1. Contents = <<>>
  BY NoElements DEF RingInit
<1> QED
  BY <1>1 DEF RingInit, Fifo!AbsInit

(* For every array length and every element set the ring is a bounded      *)
(* first-in first-out buffer: whatever the offsets of its two pointers,    *)
(* nothing is lost, duplicated or reordered (ringque.h:85-210).            *)
THEOREM RingImplementsFifo == RingSpec => RefinesFifo
<1>1. RingSpec => [][Fifo!AbsNext]_Fifo!absVars
  BY RingInvariant, RingStepRefines, PTL DEF RingSpec
<1> QED
  BY <1>1, RingInitRefines, PTL DEF RingSpec, RefinesFifo, Fifo!AbsSpec
=============================================================================
