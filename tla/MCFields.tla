------------------------------ MODULE MCFields ------------------------------
(* Fields with units of a few octets, years of five days and hours of four   *)
(* minutes.                                                                  *)
EXTENDS Fields

MCBases == (0 :> 2) @@ (1 :> 3)

MCMonths == <<3, 2>>

(* Beside the requests that filled them in                                   *)
MCMaxSteps == [k \in Kinds |-> CASE k \in MaskKinds -> 3 [] k = "action" -> 4 [] OTHER -> 5]
=============================================================================
