------------------------- MODULE MCOperatorCognition -------------------------
(* The two ways a person reaches the kernel's workers: the Telegram operator  *)
(* with the door, and the identity changes with the missions that think under *)
(* that identity.  They share no state, so a behaviour is one of either, its  *)
(* lane, while the other stands still.                                        *)
EXTENDS TelegramOperator, RepoMission, TLC

VARIABLE lane

\* What the operator sends, what other clients send, the gate's task status,
\* the faults and the time of a behaviour, whose clocks agree unless skewed.
OperatorPlan(sc, oth, g, f, t) ==
  [script |-> sc, others |-> oth, gate |-> g, faults |-> f, time |-> t, db |-> 0, door |-> 0, worker |-> 0]
Skewed(p, d, g, w) == [p EXCEPT !.db = d, !.door = g, !.worker = w]
Deny == [who |-> "operator", op |-> "APPROVE", key |-> 0, body |-> "DENIED"]
Grant == [Deny EXCEPT !.body = "GRANTED"]
Cancel == [who |-> "operator", op |-> "CANCEL", key |-> 0, body |-> ""]
Mcp(op, k, b) == [who |-> "mcp", op |-> op, key |-> k, body |-> b]
OperatorCases == {
 OperatorPlan(<<"PRESS","PRESS">>, {}, "APPROVAL_REQUIRED", 1, 0),
 OperatorPlan(<<"PRESS","PRESS">>, {}, "APPROVAL_REQUIRED", 0, 2),
 OperatorPlan(<<"PRESS">>, {Deny}, "APPROVAL_REQUIRED", 1, 0),
 OperatorPlan(<<"PRESS">>, {Cancel}, "COMPILED", 0, 0),
 OperatorPlan(<<"PRESS">>, {}, "COMPILED", 0, 2),
 OperatorPlan(<<"PRESS">>, {}, "COMPILED", 1, 0),
 OperatorPlan(<<"PRESS">>, {}, "APPROVAL_REQUIRED", 2, 0),
 OperatorPlan(<<"PRESS">>, {}, "APPROVAL_REQUIRED", 1, 1),
 Skewed(OperatorPlan(<<"PRESS">>, {}, "APPROVAL_REQUIRED", 0, 1), 0, 0, 1),
 Skewed(OperatorPlan(<<"PRESS">>, {}, "APPROVAL_REQUIRED", 1, 0), 0, 0, 1),
 OperatorPlan(<<"PRESS">>, {Grant}, "APPROVAL_REQUIRED", 0, 2),
 Skewed(OperatorPlan(<<"PRESS">>, {Grant}, "APPROVAL_REQUIRED", 0, 1), 1, 1, 0),
 Skewed(OperatorPlan(<<"PRESS">>, {}, "APPROVAL_REQUIRED", 0, 1), 0, 1, 0),
 OperatorPlan(<<"MISSION","MISSION","STATUS">>, {}, "READY", 2, 0),
 OperatorPlan(<<"MISSION","MISSION">>, {}, "READY", 1, 2),
 OperatorPlan(<<"STATUS","MEMORY","TASK","MALFORMED", "STATUS">>, {}, "READY", 0, 1),
 OperatorPlan(<<"UNAUTHORISED","IGNORED","STRANGE PRESS", "MALFORMED">>, {}, "READY", 1, 0),
 OperatorPlan(<<>>, {Mcp("SUBMIT", 1, "mission"), Mcp("SUBMIT", 1, "brief"), Mcp("SUBMIT", 2, "uppercase")}, "READY", 1, 0),
 OperatorPlan(<<>>, {Mcp("APPROVE", 0, "GRANTED"), Mcp("CANCEL", 0, "")}, "APPROVAL_REQUIRED", 0, 0)}

\* A request for a change, a rollback, and what a behaviour begins with.
Doc(a,c,d) == [id |-> "doc", a |-> a, c |-> c, d |-> d]
Owner == [id |-> "i1", owner |-> "owner"]
Prop(doc) == [actor |-> "owner", human |-> TRUE, kind |-> "PROPOSE", id |-> "i1", doc |-> doc, to |-> 0, sameTenant |-> TRUE, secret |-> FALSE]
Back(v) == [Prop(None) EXCEPT !.kind = "ROLLBACK", !.to = v]
Rules == [BOOTSTRAP |-> "APPROVAL_REQUIRED", A |-> "APPROVAL_REQUIRED", ROLLBACK |-> "APPROVAL_REQUIRED", C |-> "ALLOW", D |-> "ALLOW"]
NoMission == [recipe |-> "none", contract |-> FALSE, faculties |-> FALSE, identityPort |-> FALSE, memory |-> FALSE, independent |-> TRUE, flag |-> FALSE, redeploys |-> {}]
P(prof, seed, r1, r2) == [profile |-> prof, seed |-> seed, requests |-> [t1 |-> r1, t2 |-> r2], rules |-> Rules, members |-> {"owner","member"}, unfreezes |-> FALSE, frozen |-> TRUE, days |-> 0, mission |-> NoMission]
D0 == Doc(0,0,0)
One == <<D0>>
Two == <<D0, Doc(1,0,0)>>
Thaw(p) == [p EXCEPT !.unfreezes = TRUE, !.days = 1]
Nobody == [Prop(D0) EXCEPT !.human = FALSE]
M(m) == [P(Owner, One, Prop(Doc(0,1,0)), Nobody) EXCEPT !.mission = m, !.frozen = FALSE]
Repo == [NoMission EXCEPT !.recipe = "REPO", !.faculties = TRUE, !.identityPort = TRUE, !.redeploys = {"analyst","reviewer"}]
\* Bootstraps that race, changes in flight together, rollbacks, refusals, and
\* missions under a moving deployment and identity.
IdentityCases == {
  P(None, <<>>, Prop(D0), Prop(Doc(1,0,0))),
  P(None, <<>>, Prop(D0), [Prop(Doc(1,0,0)) EXCEPT !.actor = "member", !.id = "i2"]),
  P(None, <<>>, [Prop(D0) EXCEPT !.actor = "stranger"], [Prop(D0) EXCEPT !.secret = TRUE]),
  P(Owner, <<>>, Prop(D0), [Prop(D0) EXCEPT !.actor = "member"]),
  Thaw(P(Owner, One, Prop(Doc(0,1,0)), Prop(Doc(0,0,1)))),
  P(Owner, One, Prop(Doc(0,1,0)), Prop(Doc(1,0,0))),
  P(Owner, Two, Back(1), Prop(Doc(1,1,1))),
  P(Owner, Two, Back(3), Prop(Doc(1,0,1))),
  [P(Owner, One, Prop(Doc(0,1,0)), Prop(D0)) EXCEPT !.rules.C = "DENY"],
  [P(Owner, One, Prop(Doc(1,0,0)), Nobody) EXCEPT !.rules.A = "ALLOW"],
  [P(Owner, One, Prop(Doc(1,0,0)), Prop(Doc(0,0,1))) EXCEPT !.members = {}],
  [P(Owner, One, Nobody, Nobody) EXCEPT !.mission = [NoMission EXCEPT !.recipe = "BRIEF", !.memory = TRUE]],
  [P(Owner, One, Nobody, Nobody) EXCEPT !.mission = [NoMission EXCEPT !.recipe = "REPO", !.independent = FALSE]],
  [P(Owner, One, Nobody, Nobody) EXCEPT !.mission = [Repo EXCEPT !.contract = TRUE, !.faculties = FALSE]],
  [P(None, <<>>, Nobody, Nobody) EXCEPT !.mission = [Repo EXCEPT !.contract = TRUE, !.flag = TRUE]],
  [P(Owner, One, Nobody, Nobody) EXCEPT !.mission = Repo],
  [P(Owner, One, Nobody, Nobody) EXCEPT !.mission = [Repo EXCEPT !.contract = TRUE, !.identityPort = FALSE, !.redeploys = {}]],
  M([Repo EXCEPT !.contract = TRUE, !.flag = TRUE, !.redeploys = {}]),
  [P(Owner, One, Nobody, Nobody) EXCEPT !.mission = [Repo EXCEPT !.contract = TRUE, !.flag = TRUE, !.redeploys = {"flag"}]],
  [P(Owner, One, Nobody, Nobody) EXCEPT !.mission = [Repo EXCEPT !.contract = TRUE, !.flag = TRUE, !.redeploys = {"analyst"}]]
}
MCChanges == {"t1","t2"}

IdlePlan == OperatorPlan(<<>>, {}, "READY", 0, 0)
IdleTerms == P(Owner, One, Nobody, Nobody)
MCPlans == OperatorCases \cup {IdlePlan}
MCIdentityPlans == IdentityCases \cup {IdleTerms}

surfaceVars == <<lane, operatorVars, cognitionVars>>

SurfaceInit ==
    /\ OperatorInit /\ CognitionInit
    /\ \/ lane = "operator" /\ plan # IdlePlan /\ terms = IdleTerms
       \/ lane = "cognition" /\ plan = IdlePlan /\ terms # IdleTerms

OperatorLane(A) == lane = "operator" /\ A /\ UNCHANGED <<lane, cognitionVars>>
CognitionLane(A) == lane = "cognition" /\ A /\ UNCHANGED <<lane, operatorVars>>

SurfaceNext == OperatorLane(OperatorNext) \/ CognitionLane(CognitionNext)

\* OperatorFairness and CognitionFairness, each in its lane.
SurfaceFairness ==
    /\ WF_surfaceVars(OperatorLane(PollerStep))
    /\ WF_surfaceVars(OperatorLane(DoorStep /\ UNCHANGED channelVars))
    /\ WF_surfaceVars(OperatorLane(WorkerStep /\ UNCHANGED channelVars))
    /\ WF_surfaceVars(CognitionLane(MissionWorker))
    /\ \A t \in Changes : WF_surfaceVars(CognitionLane(Workflow(t) /\ UNCHANGED missionVars))
    /\ WF_surfaceVars(CognitionLane(Tick /\ UNCHANGED missionVars))

SurfaceSpec == SurfaceInit /\ [][SurfaceNext]_surfaceVars /\ SurfaceFairness
=============================================================================
