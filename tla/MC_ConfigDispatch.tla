------------------------- MODULE MC_ConfigDispatch -------------------------
(* The dispatcher on two keys and one value of each Python type. *)
EXTENDS ConfigDispatch

CONSTANTS vFlag, vNumber, vList, vString, vTuple, vNone

(* True, 1.0, [1.0, 2.0], "abc", a tuple and None. *)
MCTypeOf == [v \in {vFlag, vNumber, vList, vString, vTuple, vNone} |->
                CASE v = vFlag   -> "flag"
                  [] v = vNumber -> "number"
                  [] v = vList   -> "numbers"
                  [] v = vString -> "string"
                  [] v = vTuple  -> "other"
                  [] OTHER       -> "none"]

MCTypeOfOp(v) == MCTypeOf[v]
====
