------------------------------ MODULE MCPolicies ------------------------------
(***************************************************************************)
(* Policies for TLC.  A behaviour picks a scenario and keeps to it: an     *)
(* administrator changes policies while a prompt is evaluated, or three    *)
(* chats meet a rate limit and a quota as time passes.                     *)
(***************************************************************************)
EXTENDS MCAiGateway

VARIABLE scenario

AllInputs == RaceInputs \cup LimitInputs

Race == INSTANCE AiGateway
  WITH InitialPolicies <- RacePolicies
Limits == INSTANCE AiGateway
  WITH InitialPolicies <- LimitPolicies

Step(r) == LoadPolicies(r) \/ Handle(r) \/ Respond(r) \/ DatabaseFails(r)
\* One request without tokens is enough for the race.
Alone(r) == /\ req'[r].input \in RaceInputs /\ req'[r].tokens = 0
            /\ \A q \in Requests \ {r} : req[q] = Idle

ScenarioInit ==
  \/ scenario = "race" /\ Race!Init
  \/ scenario = "limits" /\ Limits!Init
ScenarioNext ==
  /\ \/ /\ scenario = "race"
        /\ \/ \E r \in Requests : Step(r) /\ Alone(r)
           \/ \E a \in Admins : Administer(a)
           \/ Crash
     \/ /\ scenario = "limits"
        /\ \/ \E r \in Requests : Step(r) /\ req'[r].input \in LimitInputs
           \/ Crash
           \/ Tick
  /\ UNCHANGED scenario
ScenarioSpec == ScenarioInit /\ [][ScenarioNext]_<<vars, scenario>>
=============================================================================
