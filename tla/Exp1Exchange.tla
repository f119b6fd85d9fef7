--------------------------- MODULE Exp1Exchange ----------------------------
(***************************************************************************)
(* What the Experiment 1 post-processing promises about its exchange file, *)
(* stated without the way it computes it.                                  *)
(*                                                                         *)
(* A run reads one input.  If it succeeds it creates the file, writes into *)
(* it the profiles the input determines, and then completes the file; it   *)
(* may fail at any point, leaving the file as it stands.  The profiles are *)
(* written once, and a completed file holds exactly the expected           *)
(* profiles.                                                               *)
(***************************************************************************)
CONSTANTS
    Inputs,       \* the inputs a run may be given
    Expected(_),  \* the profiles the exchange file must hold for an input
    Blank         \* the profiles of a file in which nothing is written yet

VARIABLES inp, status, file, profiles

avars == <<inp, status, file, profiles>>

Init ==
    /\ inp \in Inputs
    /\ status = "running"
    /\ file = "none"
    /\ profiles = Blank

(* The file is created. *)
Open ==
    /\ status = "running"
    /\ file = "none"
    /\ file' = "partial"
    /\ UNCHANGED <<inp, status, profiles>>

(* The profiles of the input are written into the open file, once. *)
Fill ==
    /\ status = "running"
    /\ file = "partial"
    /\ profiles = Blank
    /\ profiles' = Expected(inp)
    /\ UNCHANGED <<inp, status, file>>

(* A file that holds the expected profiles is completed; the run ends. *)
Close ==
    /\ status = "running"
    /\ file = "partial"
    /\ profiles = Expected(inp)
    /\ file' = "complete"
    /\ status' = "done"
    /\ UNCHANGED <<inp, profiles>>

(* The run fails, leaving the file in whatever state it has reached. *)
Abort ==
    /\ status = "running"
    /\ status' = "failed"
    /\ UNCHANGED <<inp, file, profiles>>

Next == Open \/ Fill \/ Close \/ Abort

(* The safety part: what a run may do. *)
SafeSpec == Init /\ [][Next]_avars

(* A running run does not stop: it ends done or failed. *)
Spec == SafeSpec /\ WF_avars(Next)

====
