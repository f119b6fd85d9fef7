-------------------------- MODULE Exp1Refinement ---------------------------
(***************************************************************************)
(* The script implements the exchange-file specification Exp1Exchange.   *)
(*                                                                         *)
(* Refinement mapping: the input and the file state are the script's own; *)
(* the run is done in pc "done", failed in pc "failed" and running in     *)
(* every other block; the profiles of the file are `out`.  The expected   *)
(* profiles of an input are the samples, taken from the input's meshes,  *)
(* fields and remapped mask, of the points of the transects get_troughs   *)
(* returns for the input's grid.                                          *)
(***************************************************************************)
EXTENDS Exp1Postprocess

(* The profiles of a file in which no profile is written yet. *)
NoProfiles == [t \in 1..NT |-> <<>>]

(* The eight profiles an input determines. *)
ExpectedFor(in) ==
    LET T == TransectsOf(in)
    IN  [t \in 1..NT |->
            [s \in 1..Len(T[t]) |->
                SampleOf(XMOf(in), YMOf(in), in.cont, MaskRefOf(in), T[t][s])]]

(* The status of the run, seen from outside. *)
Status ==
    CASE pc = "done"   -> "done"
      [] pc = "failed" -> "failed"
      [] OTHER         -> "running"

X == INSTANCE Exp1Exchange
        WITH status <- Status, profiles <- out,
             Expected <- ExpectedFor, Blank <- NoProfiles

(* The script's runs are runs of the exchange-file specification: the file *)
(* is created (line 145) before anything is written, the profiles written  *)
(* at lines 257-319 are the expected ones and are written once, the file is *)
(* complete (line 481) only when it holds them, and a run that is done or  *)
(* failed stays so.                                                       *)
Exchange == X!SafeSpec

====
