---------------------------- MODULE MCGoldenTask ----------------------------
(* Two answers that contradict each other, and a cancellation. *)
EXTENDS GoldenTask

MCCalls == {"grant", "deny", "cancel"}
MCCallAction == [c \in MCCalls |-> CASE c = "deny" -> "DENIED" [] c = "cancel" -> "CANCEL" [] OTHER -> "GRANTED"]
MCCallActor == [c \in MCCalls |-> IF c \in {"cancel"} THEN "principal" ELSE "approver"]
MCSkews == {-1, 0, 1}
MCEffects == {"ALLOW", "DENY", "APPROVAL_REQUIRED"}
=============================================================================
