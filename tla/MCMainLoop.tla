----------------------------- MODULE MCMainLoop -----------------------------
(* The timer table of the application in small: the adapter's timer of one   *)
(* millisecond, the statistics', the longest, and one router's between them. *)
EXTENDS MainLoop

MCTimer == {"adapter", "statistic", "can"}
MCPeriod == [t \in MCTimer |-> CASE t = "adapter" -> 1 [] t = "can" -> 2 [] OTHER -> 3]
MCCanTimer == <<"can">>
=============================================================================
