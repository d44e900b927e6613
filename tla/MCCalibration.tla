--------------------------- MODULE MCCalibration ---------------------------
(* Calibration with the smart lens of hedge-verify. *)
EXTENDS Calibration, Machines

AnyString == STRING

(* Its budget of fifty is lowered, so that it runs out within the workload,  *)
(* and a third transition asks the cell with a Run effect when a session     *)
(* starts.                                                                   *)
Asking ==
    [on |-> "SessionStart", to |-> "watch", guard |-> Always, do |-> <<Run("assess")>>]

Smart ==
    [SmartMachine EXCEPT !.fuel = 2, !.states["watch"].on = Append(@, Asking)]

(* The events of the example itself, and that of the added transition. *)
SmartEvents == {On("Stop"), On("UserPromptSubmit"), On("SessionStart")}
=============================================================================
