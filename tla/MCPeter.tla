------------------------------- MODULE MCPeter -------------------------------
(***************************************************************************)
(* Instances of the whole process for TLC: the schedulers' constants come  *)
(* from MCScheduler.                                                       *)
(***************************************************************************)
EXTENDS Peter, MCScheduler

IdleInitFirst == s1 :> <<Unit("NOSTART", p1, TRUE)>> @@ s2 :> <<RunUnit(p2)>>
IdleInitOne == s1 :> <<Unit("NOSTART", p1, TRUE)>>
=============================================================================
