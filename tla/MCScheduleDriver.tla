-------------------------- MODULE MCScheduleDriver --------------------------
EXTENDS ScheduleDriver, TLC

CONSTANTS restate, t1, t2, driverOwner, toolOwner

MCTools == {t1, t2}
MCOwner == (restate :> driverOwner) @@ (t1 :> toolOwner) @@ (t2 :> driverOwner)
MCWindows == {2, 4}
MCLongWindows == {2, 4, 6}
MCOneTool == {t1}
MCOperatorWakes == {<<1, 3>>, <<1, 5>>}
MCToolWakes == {<<1, 3>>, <<3, 5>>, <<3, 9>>}
=============================================================================
