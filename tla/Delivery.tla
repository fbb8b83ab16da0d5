------------------------------ MODULE Delivery ------------------------------
(***************************************************************************)
(* What a run of the compiler promises about the binary it is asked for,   *)
(* whatever fails: until it has something to write it does not touch the   *)
(* file of an earlier run; from then on that file is gone; it answers      *)
(* once, after it has stopped writing; and only a file with the whole code *)
(* is ever announced as a success, unless the disk gave up.                *)
(***************************************************************************)
VARIABLES binary,    \* "earlier": as it was found; "begun"; "whole": the code is in it
          answer,    \* "none" so far, "success", "failure", "killed" (by a signal)
          trouble    \* the disk has refused data

delivery == << binary, answer, trouble >>

DeliveryInit == binary = "earlier" /\ answer = "none" /\ trouble = FALSE

Begin == /\ answer = "none" /\ binary = "earlier" /\ binary' = "begun"
         /\ UNCHANGED << answer, trouble >>

Break == /\ answer = "none" /\ binary = "begun" /\ trouble' = TRUE
         /\ UNCHANGED << binary, answer >>

Complete == /\ answer = "none" /\ binary = "begun" /\ ~trouble /\ binary' = "whole"
            /\ UNCHANGED << answer, trouble >>

Announce == /\ answer = "none"
            /\ binary = "whole" \/ (binary = "begun" /\ trouble)
            /\ answer' = "success"
            /\ UNCHANGED << binary, trouble >>

\* A file whose code is whole is never given up.
GiveUp == /\ answer = "none" /\ binary # "whole" /\ answer' \in {"failure", "killed"}
          /\ binary = "begun" => (answer' = "failure" /\ trouble)
          /\ UNCHANGED << binary, trouble >>

DeliveryNext == Begin \/ Break \/ Complete \/ Announce \/ GiveUp

DeliverySpec == DeliveryInit /\ [][DeliveryNext]_delivery
=============================================================================
