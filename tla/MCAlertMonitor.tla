--------------------------- MODULE MCAlertMonitor ---------------------------
(* The alert monitor over worlds with one fault each, outages of its sources, *)
(* deaths between a commit and its journal, and overlapping runs.            *)
EXTENDS AlertMonitor, TLC

\* The deployment that the monitor expects.
MCExpected == [state |-> "enabled", version |-> "v2", armNext |-> TRUE, release |-> "r1",
   digest |-> "d1", recipe |-> "canary", services |-> {"ScheduleDriver","KernelWorkflowV1","TaskWorkflow","CapabilityServiceV1"}]

\* Rows of a world.
Fire(w, age, st, child) == [window |-> w, age |-> age, state |-> st, child |-> child]
Latch(p,v,j,e) == [pinned |-> p, version |-> v, projection |-> j, evidence |-> e]
Receipt(t,d) == [task |-> t, type |-> "TOOL_RECEIPT", digest |-> d]

\* A world without a fault, and worlds with one fault each.
Sound == [state |-> "enabled", version |-> "v2",
  fires |-> {Fire("w1", 3, "ADMITTED", "t1"), Fire("w2", 1, "ADMITTED", "t2")},
  admissions |-> {"t1","t2"}, tasks |-> {"t1","t2"},
  binding |-> [active |-> "r1", mismatch |-> FALSE, missing |-> FALSE, current |-> TRUE],
  rejection |-> FALSE, operator |-> TRUE, orphans |-> {}, bootstraps |-> {},
  parity |-> FALSE, multi |-> FALSE, head |-> FALSE, isolation |-> FALSE,
  latches |-> {Latch(TRUE,TRUE,TRUE,"matches")}, contract |-> TRUE, records |-> TRUE,
  evidence |-> <<Receipt("t1","d1"), Receipt("t2","d1")>>,
  wakes |-> {"future"}, tight |-> FALSE, services |-> MCExpected.services, door |-> "ok",
  restarts |-> 0, release |-> "r1", armNext |-> "on", digest |-> "valid", recipe |-> "canary"]
MCFacts ==
  ("sound" :> Sound) @@
  ("stateMissing" :> [Sound EXCEPT !.state = "none"]) @@
  ("disabled" :> [Sound EXCEPT !.state = "disabled"]) @@
  ("version" :> [Sound EXCEPT !.version = "v1"]) @@
  ("neverFired" :> [Sound EXCEPT !.fires = {}, !.evidence = <<>>]) @@
  ("stale" :> [Sound EXCEPT !.fires = {Fire("w1", 3, "ADMITTED", "t1")}]) @@
  ("twice" :> [Sound EXCEPT !.fires = @ \cup {Fire("w2", 2, "ADMITTED", "t1")}]) @@
  ("stuckPlanned" :> [Sound EXCEPT !.fires = @ \cup {Fire("w3", 2, "PLANNED", "none")}]) @@
  ("unbound" :> [Sound EXCEPT !.fires = @ \cup {Fire("w3", 2, "ADMITTED", "none")}]) @@
  ("noWake" :> [Sound EXCEPT !.wakes = {}]) @@
  ("stuckWake" :> [Sound EXCEPT !.wakes = {"future","stuck"}]) @@
  ("dueWake" :> [Sound EXCEPT !.wakes = {"due"}]) @@
  ("loop" :> [Sound EXCEPT !.tight = TRUE]) @@
  ("otherRelease" :> [Sound EXCEPT !.binding.active = "r2"]) @@
  ("noBinding" :> [Sound EXCEPT !.binding.current = FALSE]) @@
  ("unadmitted" :> [Sound EXCEPT !.admissions = {"t1"}]) @@
  ("unmaterialised" :> [Sound EXCEPT !.tasks = {"t1"}]) @@
  ("rejection" :> [Sound EXCEPT !.rejection = TRUE]) @@
  ("badDoor" :> [Sound EXCEPT !.door = "bad"]) @@
  ("noOperator" :> [Sound EXCEPT !.operator = FALSE]) @@
  ("noWorker" :> [Sound EXCEPT !.services = @ \ {"TaskWorkflow"}]) @@
  ("noCapability" :> [Sound EXCEPT !.services = @ \ {"CapabilityServiceV1"}]) @@
  ("restarted" :> [Sound EXCEPT !.restarts = 1]) @@
  ("restartLoop" :> [Sound EXCEPT !.restarts = 3]) @@
  ("noEvidence" :> [Sound EXCEPT !.evidence = <<>>]) @@
  ("wrongDigest" :> [Sound EXCEPT !.evidence = <<Receipt("t2","d2"), Receipt("t2", "d1")>>]) @@
  ("anonymous" :> [Sound EXCEPT !.release = "none"]) @@
  ("wrongRelease" :> [Sound EXCEPT !.release = "r2"]) @@
  ("armOff" :> [Sound EXCEPT !.armNext = "off"]) @@
  ("badDigest" :> [Sound EXCEPT !.digest = "malformed"]) @@
  ("otherRecipe" :> [Sound EXCEPT !.recipe = "other"]) @@
  ("orphan" :> [Sound EXCEPT !.orphans = {"t9"}]) @@
  ("bootstrap" :> [Sound EXCEPT !.bootstraps = {1}]) @@
  ("parity" :> [Sound EXCEPT !.parity = TRUE]) @@
  ("multi" :> [Sound EXCEPT !.multi = TRUE]) @@
  ("head" :> [Sound EXCEPT !.head = TRUE]) @@
  ("noLatch" :> [Sound EXCEPT !.latches = {}]) @@
  ("unpinned" :> [Sound EXCEPT !.latches = @ \cup {Latch(FALSE,FALSE,FALSE,"none")}]) @@
  ("leak" :> [Sound EXCEPT !.isolation = TRUE]) @@
  ("unobserved" :> [Sound EXCEPT !.records = FALSE])

\* Every fault alone, coming and going, and some with outages, deaths and
\* overlapping runs.
Sc(ws, down, c, d, m) == [worlds |-> ws \cup {"sound"}, outages |-> {{}, down}, commits |-> c, deaths |-> d, manual |-> m]
MCScenarios ==
  {Sc({"stale","neverFired"}, {"db"}, 3, 1, 0), Sc({"noWake","dueWake"}, {"restate"}, 3, 1, 0), Sc({"noLatch","unpinned"}, {"cognition"}, 3,0,0),
   Sc({"restarted","restartLoop"}, {"door"}, 3,0,0), Sc({"noCapability"}, {"restate"}, 3, 1, 1)}
  \cup {Sc({n}, {}, 3,0,0) : n \in DOMAIN MCFacts}

\* No wake is armed, and then Restate does not answer.
MCOutage == {Sc({"noWake"}, {"restate"}, 2, 0, 0)}
=============================================================================
