----------------------------- MODULE ManagerGraph -----------------------------
(***************************************************************************)
(* The runs of agents: the manager's graph, which classifies a request,    *)
(* plans, lets one team work, may pause for a human's approval and has the *)
(* answer validated; and the agents and team supervisors that a chat runs  *)
(* by name, without the manager.  The manager keeps one thread under a     *)
(* checkpointer, on which a request may follow one that ended, failed or   *)
(* is still paused.                                                        *)
(***************************************************************************)
EXTENDS Teams

CONSTANT Called     \* agents and teams that are also run by name

ASSUME CalledAssumption == Called \subseteq Agents \cup TeamNames

VARIABLES
    pc,         \* the node that runs
    mgr,        \* the manager's channels, as its thread's checkpoint has them
    begun,      \* history: requests made so far
    current,    \* history: the request that is run
    byManager,  \* history: whether the manager runs it
    wanted,     \* history: it was to be approved
    replied     \* history: and the human has replied

mgrVars == <<pc, mgr, begun, current, byManager, wanted, replied>>
vars == <<teamVars, mgrVars>>

Texts == {None} \cup SUBSET Sources

TypeOK ==
    /\ TeamTypeOK
    /\ pc \in {"idle", "guardrail", "intent_classifier", "planner", "team", "team_execute",
               "hitl", "paused", "validator"}
    /\ mgr \in [user_id : BOOLEAN, messages : Seq(Requests), current_team : TeamNames \cup {None},
                plan : Texts, team_output : Texts, final_response : Texts,
                hitl_required : BOOLEAN, hitl_feedback : BOOLEAN]
    /\ begun \subseteq Requests /\ current \in Requests \cup {None}
    /\ byManager \in BOOLEAN /\ wanted \in BOOLEAN /\ replied \in BOOLEAN

Init ==
    /\ TeamInit
    /\ pc = "idle"
    /\ mgr = [user_id |-> FALSE, messages |-> <<>>, current_team |-> None, plan |-> None,
              team_output |-> None, final_response |-> None,
              hitl_required |-> FALSE, hitl_feedback |-> FALSE]
    /\ begun = {} /\ current = None
    /\ byManager = FALSE /\ wanted = FALSE /\ replied = FALSE

-----------------------------------------------------------------------------
\* What both kinds of run begin with.
NewRun(r) ==
    /\ pc \in {"idle", "paused"}
    /\ r \notin begun
    /\ begun' = begun \cup {r} /\ current' = r
    /\ asked' = {} /\ silent' = FALSE /\ leftOut' = FALSE /\ done' = [e \in Effects |-> 0]
    /\ replied' = FALSE

\* A chat names an agent: its graph is given the channels of AgentState, of
\* which a team's state has the messages only.
CallAgent(r, name) ==
    /\ NewRun(r)
    /\ pc' = "team_execute" /\ byManager' = FALSE /\ wanted' = FALSE
    /\ heard' = r /\ channel' = Unwritten
    /\ left' = IF name \in TeamNames THEN Pipeline[name] ELSE <<name>>
    /\ UNCHANGED mgr

\* The manager is given a whole new state; its checkpointed messages are
\* appended to and the feedback, which is not in it, is kept.  Only a run
\* that is the first of its thread may come without messages.
CallManager(r) ==
    /\ NewRun(r)
    /\ pc' = "guardrail" /\ byManager' = TRUE
    /\ \E user, spoken, hitl \in BOOLEAN :
         /\ spoken \/ mgr.messages = <<>>
         /\ mgr' = [mgr EXCEPT !.user_id = user, !.hitl_required = hitl,
                               !.messages = IF spoken THEN Append(@, r) ELSE @,
                               !.current_team = None, !.plan = None,
                               !.team_output = None, !.final_response = None]
         /\ wanted' = hitl
    /\ UNCHANGED <<heard, channel, left>>

-----------------------------------------------------------------------------
(* The manager's nodes.                                                    *)

\* Variant: the first message of the thread.
FirstHuman == IF mgr.messages = <<>> THEN {} ELSE {Head(mgr.messages)}

\* get_last_human_message, as a text.
LastHuman == IF mgr.messages = <<>> THEN {} ELSE {mgr.messages[Len(mgr.messages)]}

Go(node) == pc' = node /\ UNCHANGED <<begun, current, byManager, wanted, replied>>

\* GuardrailNode and _route_after_guardrail.
Guardrail ==
    /\ pc = "guardrail"
    /\ IF ~mgr.user_id \/ mgr.messages = <<>>
       THEN /\ mgr' = [mgr EXCEPT !.final_response = {"fixed"}, !.hitl_required = FALSE]
            /\ Go("idle")
       ELSE /\ UNCHANGED mgr
            /\ Go(IF mgr.final_response # None THEN "idle" ELSE "intent_classifier")
    /\ UNCHANGED teamVars

ManagerAsks(n, prompt) ==
    /\ asked' = asked \cup {[node |-> n, prompt |-> prompt]}
    /\ UNCHANGED <<heard, channel, left, silent, leftOut, done>>

\* Variant: the model's word is taken as it is.
IntentClassifierTrusts ==
    /\ pc = "intent_classifier"
    /\ ManagerAsks("intent_classifier", LastHuman)
    /\ \E said \in TeamNames \cup {"general"} : mgr' = [mgr EXCEPT !.current_team = said]
    /\ Go("planner")

\* _parse_intent: an answer that names no team means docs, and of several
\* the one that the set of teams happens to give first.
IntentClassifier ==
    /\ pc = "intent_classifier"
    /\ ManagerAsks("intent_classifier", LastHuman)
    /\ \E named \in SUBSET TeamNames :
         \E team \in IF named = {} THEN {"docs"} ELSE named :
            mgr' = [mgr EXCEPT !.current_team = team]
    /\ Go("planner")

\* _parse_plan: an empty answer stands for a plan of one step, a list of
\* nothing is an empty plan.
Planner ==
    /\ pc = "planner"
    /\ ManagerAsks("planner", {"model"} \cup LastHuman)
    /\ \E plan \in {{"fixed"}} \cup Answers(LastHuman) : mgr' = [mgr EXCEPT !.plan = plan]
    /\ Go("team")

\* What each team's bridge fills of the team's channels.
DocsChannels == [Unwritten EXCEPT !["raw_input"] = LastHuman]
ResearchChannels == [Unwritten EXCEPT !["query"] = LastHuman]
TechnicalChannels == Unwritten
KnowledgeChannels == Unwritten

EnterTeam ==
    /\ pc = "team"
    /\ heard' = mgr.messages[Len(mgr.messages)]
    /\ channel' = CASE mgr.current_team = "docs" -> DocsChannels
                    [] mgr.current_team = "research" -> ResearchChannels
                    [] mgr.current_team = "technical" -> TechnicalChannels
                    [] mgr.current_team = "knowledge" -> KnowledgeChannels
    /\ left' = Pipeline[mgr.current_team]
    /\ Go("team_execute")
    /\ UNCHANGED <<asked, silent, leftOut, done, mgr>>

\* A node of the team, or of the agent called by name.
TeamWorks ==
    /\ pc = "team_execute" /\ RunAgent
    /\ UNCHANGED mgrVars

\* Variant: the team works before it is asked whether a human shall approve.
LeaveTeamUnasked ==
    /\ pc = "team_execute" /\ left = <<>> /\ byManager
    /\ mgr' = [mgr EXCEPT !.team_output = Composed(mgr.current_team)]
    /\ Go("validator")
    /\ UNCHANGED teamVars

\* The team's output is composed, then _route_after_team.
LeaveTeam ==
    /\ pc = "team_execute" /\ left = <<>> /\ byManager
    /\ mgr' = [mgr EXCEPT !.team_output = Composed(mgr.current_team)]
    /\ Go(IF mgr.hitl_required THEN "hitl" ELSE "validator")
    /\ UNCHANGED teamVars

\* An agent called by name has run.
LeaveAgent ==
    /\ pc = "team_execute" /\ left = <<>> /\ ~byManager
    /\ Go("idle")
    /\ UNCHANGED <<teamVars, mgr>>

\* interrupt(): the run ends at the node, which the checkpoint remembers.
Hitl ==
    /\ pc = "hitl"
    /\ Go("paused")
    /\ UNCHANGED <<teamVars, mgr>>

Reply(next) ==
    /\ pc = "paused"
    /\ replied' = TRUE
    /\ mgr' = [mgr EXCEPT !.hitl_feedback = TRUE, !.hitl_required = FALSE]
    /\ pc' = next
    /\ UNCHANGED <<teamVars, begun, current, byManager, wanted>>

\* Variant: the team is run after the approval, as the topology is drawn.
ResumeToTeam == Reply("team")

\* Command(resume = ...): the node is run again from its start, and only it;
\* nothing looks at what the human replied.
Resume == Reply("validator")

\* The answer less its score, or the team's output when nothing is left.
Validator ==
    /\ pc = "validator"
    /\ LET output == Or(mgr.team_output, {})
       IN  /\ ManagerAsks("validator", output)
           /\ \E answer \in Answers(output) :
                mgr' = [mgr EXCEPT !.final_response = Or(answer, output)]
    /\ Go("idle")

\* A node raises: the run fails and its checkpoint stays as it is.
Fail ==
    /\ \/ pc \in {"intent_classifier", "planner", "validator"} /\ UNCHANGED teamVars
       \/ pc = "team_execute" /\ AgentRaises
    /\ Go("idle")
    /\ UNCHANGED mgr

-----------------------------------------------------------------------------
Next ==
    \/ \E r \in Requests : CallManager(r) \/ \E name \in Called : CallAgent(r, name)
    \/ Guardrail \/ IntentClassifier \/ Planner
    \/ EnterTeam \/ TeamWorks \/ LeaveTeam \/ LeaveAgent
    \/ Hitl \/ Resume \/ Validator
    \/ Fail

Spec == Init /\ [][Next]_vars

-----------------------------------------------------------------------------
\* Nodes whose prompt has the request from the user or the manager itself.
Robust ==
    {"intent_classifier", "planner", "data_processor", "market_scout", "strategic_advisor",
     "visual_interpreter", "knowledge_scout"}

\* Nodes that fall back on the user's text when the models before them
\* answered nothing.
Recovering == {"summarizer", "task_architect"}

\* Nodes whose prompt shall hold the request, after what has been answered.
MustHold(n) ==
    \/ n \in Robust
    \/ n \in Recovering /\ ~leftOut
    \/ n # "sync_manager" /\ ~leftOut /\ ~silent

\* What the manager's models are asked holds the user's request
\* (docs/supervisor.py:68-80 and its like, and the nodes' fallbacks): in the
\* robust nodes whatever the models before them answered, in those that fall
\* back unless one of them answered something and left the request out of it,
\* in the others unless one did so or answered nothing.  The sync report
\* alone may do without.
PromptsKeepRequest ==
    byManager => \A p \in asked : MustHold(p.node) => current \in p.prompt

\* Nothing of an earlier request of the thread, ended, failed or paused,
\* enters a prompt or an answer (messages.py:43-47, graph.py:118-129).
OwnRequestOnly ==
    /\ \A p \in asked : p.prompt \cap Requests \subseteq {current}
    /\ pc = "idle" /\ byManager /\ mgr.final_response # None =>
          mgr.final_response \cap Requests \subseteq {current}

\* Pausing for a human and going on does not repeat what the team has done
\* in the outside world (graph.py:30-36, 101-108).
ActsOnce == \A e \in Effects : done[e] <= 1

\* An answer that was to be approved is not validated before a human has
\* replied (graph.py:45-48).
AnswerAwaitsHuman == pc = "validator" /\ wanted => replied

\* README.md:90, "Send message": what the user sends reaches the agents.
AgentHearsRequest ==
    ~byManager /\ ~silent /\ ~leftOut =>
        \A p \in asked : p.node = "sync_manager" \/ current \in p.prompt
=============================================================================
