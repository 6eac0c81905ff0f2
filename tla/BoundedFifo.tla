----------------------------- MODULE BoundedFifo -----------------------------
(***************************************************************************)
(* What a ring queue promises its owner: a first-in first-out buffer of at *)
(* most Capacity elements.  A put appends elements as far as they fit; a    *)
(* get hands out the oldest elements and removes exactly those; only a     *)
(* clear throws elements away.                                             *)
(***************************************************************************)
EXTENDS Naturals, Sequences

CONSTANTS
  Elem,      \* the values a slot may hold
  Capacity   \* the most elements the buffer ever holds

VARIABLES
  q,         \* the elements, oldest first
  out,       \* what the last get delivered
  call       \* which call came last

absVars == <<q, out, call>>

AbsInit == q = <<>> /\ out = <<>> /\ call = "none"

AbsPut == \E n \in 0 .. Capacity - Len(q) : \E added \in [1 .. n -> Elem] :
  /\ call' = "put"
  /\ q' = q \o added
  /\ UNCHANGED out

AbsGet == \E n \in 1 .. Len(q) :
  /\ call' = "get"
  /\ out' = SubSeq(q, 1, n)
  /\ q' = SubSeq(q, n + 1, Len(q))

AbsClear == call' = "clear" /\ q' = <<>> /\ UNCHANGED out

AbsNext == AbsPut \/ AbsGet \/ AbsClear

AbsSpec == AbsInit /\ [][AbsNext]_absVars
=============================================================================
