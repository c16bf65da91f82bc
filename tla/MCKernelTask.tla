---------------------------- MODULE MCKernelTask ----------------------------
(* A resume and a cancellation race with each recipe of the kernel.        *)
EXTENDS KernelTask

MCStepIds   == 1..3
MCKeys      == Keys
MCRecipes   == DOMAIN Plans
MCTimes     == 0..2
MCCalls     == {"resume", "cancel"}
MCAction    == [c \in MCCalls |-> IF c = "resume" THEN "RESUME" ELSE "CANCEL"]
=============================================================================
