---------------------------- MODULE MCUpdateSystem ----------------------------
(* Six bits stand for the thirty-two of a word: bits 1 to 3 tell images and  *)
(* boot options apart, 4 and 5 the counts a field may claim, 6 is one the    *)
(* stack mask covers.  A count word other than those of 0, 2, 3 and 4        *)
(* variables reads as a count no field can have; 4 is one the flash driver   *)
(* refuses to write.                                                         *)
EXTENDS UpdateSystem

MCBit == 1 .. 6
MCAddr == 0 .. 7
MCSector == {"app0", "app1", "field"}
(* Three blocks, two of them in one sector; three variables and a check word, *)
(* and the word behind it, which a field of four would use.                   *)
MCSectorOf == [a \in MCAddr |-> IF a \in {0, 1} THEN "app0"
                                ELSE IF a = 2 THEN "app1" ELSE "field"]
MCBlock == 0 .. 2
MCBlockAddr == [b \in MCBlock |-> b]
MCVersion == {"v1", "v2"}
MCImgWord == [v \in MCVersion |-> IF v = "v1" THEN {1, 2} ELSE {1, 3}]
MCStackMask == {6}
MCVarAddr == [i \in 0 .. 4 |-> 3 + i]
APP == {1}
BL == {2}
LOADING == {3}
MCNumWord == {4, 5}
MCNumOf == [w \in SUBSET MCBit |->
  IF w = {4, 5} THEN 3 ELSE IF w = {4} THEN 2 ELSE IF w = {4, 5, 6} THEN 4
  ELSE IF w = {} THEN 0 ELSE 9]
MCDefault == [i \in 0 .. 2 |-> IF i = 0 THEN APP ELSE IF i = 1 THEN MCNumWord ELSE {5, 6}]
MCSetting == {{6}, {3, 6}}

Trouble5(l, e, f, p, s) ==
  [loss |-> l, exit |-> e, flash |-> f, power |-> p, session |-> s]

(* A lost message, a closed tool and a power loss over two sessions; or a    *)
(* flash error and a power loss in one.                                      *)
MCBudget == {Trouble5(1, 1, 0, 1, 2), Trouble5(0, 0, 1, 1, 1)}
(* Power lost once; up to two messages; a flash error and a closed tool; or  *)
(* nothing at all.                                                           *)
LiveBudget == {Trouble5(1, 0, 0, 1, 1), Trouble5(2, 0, 0, 0, 1),
               Trouble5(0, 1, 1, 0, 1), Trouble5(0, 0, 0, 0, 1)}
MCRefused == {"v2"}
HungBudget == {Trouble5(0, 1, 0, 1, 2)}
AckBudget == {Trouble5(0, 1, 0, 0, 2)}
=============================================================================
