-------------------------------- MODULE Teams --------------------------------
(***************************************************************************)
(* The thirteen agents and the four pipelines the teams make of them.  An  *)
(* agent is one node: it reads channels of its team's state, falling back  *)
(* from one to another and at last to a placeholder, asks the model and    *)
(* writes a channel.  A text is the set of what it repeats: a user's       *)
(* request, a model's own words, a placeholder, what the web or a tool     *)
(* said.  {} is an empty text and None a channel nobody has written, which *)
(* Python's `or` does not tell apart.                                      *)
(***************************************************************************)
EXTENDS Naturals, Sequences

CONSTANTS
    Requests,       \* what users ask
    None            \* no value

ASSUME RequestAssumption ==
    Requests \cap {"model", "fixed", "web", "traces", "run"} = {}

VARIABLES
    heard,      \* the last message of the team's state
    channel,    \* the team's other channels
    left,       \* nodes of the pipeline still to run
    asked,      \* history: what the models of this run were asked
    silent,     \* history: some model of the team answered nothing
    leftOut,    \* history: some model of the team answered without the request it was asked
    done        \* history: how often this run acted on the outside world

teamVars == <<heard, channel, left, asked, silent, leftOut, done>>

Sources == Requests \cup {"model", "fixed", "web", "traces", "run"}

ASSUME NoneAssumption == None \notin Requests /\ \A text \in SUBSET Sources : text # None

Channels == {"raw_input", "script", "summary", "tasks", "sync_status",
             "query", "internal_knowledge", "web_results", "recommendation",
             "design_spec", "code_output", "review_report",
             "technical_summary", "lessons", "yaml_output"}
Effects == {"create_task", "run_code", "git_commit"}

TeamNames == {"docs", "research", "technical", "knowledge"}

DocsPipeline == <<"data_processor", "summarizer", "task_architect", "sync_manager">>
ResearchPipeline == <<"internal_brain", "market_scout", "strategic_advisor">>
TechnicalPipeline == <<"visual_interpreter", "code_architect", "quality_gatekeeper">>
KnowledgePipeline == <<"knowledge_scout", "experience_archivist", "yaml_architect">>

Pipeline ==
    [docs |-> DocsPipeline, research |-> ResearchPipeline,
     technical |-> TechnicalPipeline, knowledge |-> KnowledgePipeline]

Agents == UNION {{Pipeline[t][k] : k \in 1..Len(Pipeline[t])} : t \in TeamNames}

\* What each team's _compose_output puts into team_output.
Parts ==
    [docs      |-> {"summary", "tasks", "sync_status"},
     research  |-> {"internal_knowledge", "web_results", "recommendation"},
     technical |-> {"design_spec", "code_output", "review_report"},
     knowledge |-> {"technical_summary", "lessons", "yaml_output"}]

TeamTypeOK ==
    /\ heard \in Requests \cup {None}
    /\ channel \in [Channels -> {None} \cup SUBSET Sources]
    /\ \/ left = <<>>
       \/ \E a \in Agents : left = <<a>>
       \/ \E t \in TeamNames : \E k \in 1..Len(Pipeline[t]) :
             left = SubSeq(Pipeline[t], k, Len(Pipeline[t]))
    /\ \A p \in asked : p.prompt \subseteq Sources
    /\ silent \in BOOLEAN /\ leftOut \in BOOLEAN
    /\ done \in [Effects -> Nat]

Unwritten == [c \in Channels |-> None]

TeamInit ==
    /\ heard = None /\ channel = Unwritten /\ left = <<>>
    /\ asked = {} /\ silent = FALSE /\ leftOut = FALSE /\ done = [e \in Effects |-> 0]

-----------------------------------------------------------------------------
\* v or w.
Or(v, w) == IF v \in {None, {}} THEN w ELSE v

\* The first of a sequence of channels that holds something, or what is said
\* in their stead.
FirstOf(channels, otherwise) ==
    LET held == {k \in 1..Len(channels) : channel[channels[k]] \notin {None, {}}}
    IN  IF held = {} THEN otherwise
        ELSE channel[channels[CHOOSE k \in held : \A j \in held : k <= j]]

Message == IF heard = None THEN {} ELSE {heard}

At(n) == left # <<>> /\ Head(left) = n

Write(c, text) ==
    /\ channel' = [channel EXCEPT ![c] = text]
    /\ left' = Tail(left)

\* What a model may answer: nothing, or words of its own and with them
\* whatever it repeats of what it was asked.
Answers(prompt) == {{}} \cup {{"model"} \cup kept : kept \in SUBSET prompt}

\* A node that asks its model.
Asks(n, prompt, c) ==
    /\ At(n)
    /\ asked' = asked \cup {[node |-> n, prompt |-> prompt]}
    /\ \E text \in Answers(prompt) :
         /\ Write(c, text)
         /\ silent' = (silent \/ text = {})
         /\ leftOut' = (leftOut \/ (text # {} /\ ~(prompt \cap Requests \subseteq text)))
    /\ UNCHANGED heard

\* A node that writes a text of its own.
Says(n, c, text) ==
    /\ At(n)
    /\ Write(c, text)
    /\ UNCHANGED <<heard, asked, silent, leftOut>>

Does(effect) == done' = [done EXCEPT ![effect] = @ + 1]

-----------------------------------------------------------------------------
(* Documentation and operations.                                           *)

DataProcessor ==
    /\ Asks("data_processor", FirstOf(<<"raw_input">>, {}), "script")
    /\ UNCHANGED done

Summarizer ==
    /\ Asks("summarizer", FirstOf(<<"script", "raw_input">>, {}), "summary")
    /\ UNCHANGED done

\* Variant: the summary only.
TaskArchitectNoFallback ==
    /\ Asks("task_architect", FirstOf(<<"summary">>, {}), "tasks")
    /\ UNCHANGED done

\* What does not parse as a list of tasks is an empty list.
TaskArchitect ==
    /\ Asks("task_architect", FirstOf(<<"summary", "script", "raw_input">>, {}), "tasks")
    /\ UNCHANGED done

Tasks == FirstOf(<<"tasks">>, {})

\* create_task for every item, on the backend of the settings: all succeed,
\* or some raise a ToolError, perhaps all of them.
CreateTasks(failed) ==
    \/ Tasks # {} /\ Does("create_task")
    \/ Tasks = failed /\ UNCHANGED done

\* The report tells the model how many were created, and the names of those
\* that were not.
SyncManager ==
    \E failed \in {{}, Tasks} :
        /\ CreateTasks(failed)
        /\ Asks("sync_manager", {"fixed"} \cup failed, "sync_status")

-----------------------------------------------------------------------------
(* Research and advisory.                                                  *)

\* No caller under src/ gives the agent a memory.
InternalBrain == Says("internal_brain", "internal_knowledge", {"fixed"}) /\ UNCHANGED done

\* The first search fails, or its results and those of the follow-up searches
\* that did not fail are put together.
MarketScout ==
    /\ \/ Says("market_scout", "web_results", {"fixed"})
       \/ Asks("market_scout",
               FirstOf(<<"query">>, {}) \cup FirstOf(<<"internal_knowledge">>, {"fixed"}) \cup {"web"},
               "web_results")
    /\ UNCHANGED done

StrategicAdvisor ==
    /\ Asks("strategic_advisor",
            FirstOf(<<"query">>, {}) \cup FirstOf(<<"internal_knowledge">>, {"fixed"})
              \cup FirstOf(<<"web_results">>, {"fixed"}),
            "recommendation")
    /\ UNCHANGED done

-----------------------------------------------------------------------------
(* Technical execution.                                                    *)

VisualInterpreter ==
    /\ IF Message = {} THEN Says("visual_interpreter", "design_spec", {"fixed"})
                       ELSE Asks("visual_interpreter", Message, "design_spec")
    /\ UNCHANGED done

CodeArchitect ==
    /\ Asks("code_architect", FirstOf(<<"design_spec">>, {"fixed"}), "code_output")
    /\ UNCHANGED done

\* run_code: a process runs the code to its end or to the time limit, or none
\* can be started.
RunCode(ok) == Does("run_code") \/ (~ok /\ UNCHANGED done)

\* Without code there is nothing to review.  Python code is run first, and a
\* run that fails is the review; other code is reviewed as it stands.
QualityGatekeeper ==
    LET code == FirstOf(<<"code_output">>, {})
        spec == FirstOf(<<"design_spec">>, {"fixed"})
    IN  \/ /\ code = {}
           /\ Says("quality_gatekeeper", "review_report", {"fixed"}) /\ UNCHANGED done
        \/ /\ code # {}
           /\ Says("quality_gatekeeper", "review_report", {"fixed", "run"}) /\ RunCode(FALSE)
        \/ /\ code # {}
           /\ Asks("quality_gatekeeper", spec \cup code \cup {"run"}, "review_report")
           /\ RunCode(TRUE)
        \/ /\ code # {}
           /\ Asks("quality_gatekeeper", spec \cup code \cup {"fixed"}, "review_report")
           /\ UNCHANGED done

-----------------------------------------------------------------------------
(* Knowledge and learning.                                                 *)

\* No caller under src/ names source_docs.
KnowledgeScout ==
    /\ Asks("knowledge_scout", IF Message = {} THEN {"fixed"} ELSE Message, "technical_summary")
    /\ UNCHANGED done

\* Phoenix gives its traces, or a placeholder stands for them.
ExperienceArchivist ==
    /\ \E trace \in {{"traces"}, {"fixed"}} :
         Asks("experience_archivist", FirstOf(<<"technical_summary">>, {"fixed"}) \cup trace, "lessons")
    /\ UNCHANGED done

\* The file is written and committed whatever the model answered.
YamlArchitect ==
    /\ Asks("yaml_architect",
            FirstOf(<<"technical_summary">>, {"fixed"}) \cup FirstOf(<<"lessons">>, {"fixed"}),
            "yaml_output")
    /\ Does("git_commit")

-----------------------------------------------------------------------------
RunAgent ==
    \/ DataProcessor \/ Summarizer \/ TaskArchitect \/ SyncManager
    \/ InternalBrain \/ MarketScout \/ StrategicAdvisor
    \/ VisualInterpreter \/ CodeArchitect \/ QualityGatekeeper
    \/ KnowledgeScout \/ ExperienceArchivist \/ YamlArchitect

\* A call of the model, or one the node does not guard, raises: the rest of
\* the pipeline is not run.  Tasks may have been created before it, and the
\* code may have been run.
AgentRaises ==
    /\ left # <<>>
    /\ left' = <<>>
    /\ \/ UNCHANGED done
       \/ /\ At("sync_manager") /\ Tasks # {} /\ Does("create_task")
       \/ /\ At("quality_gatekeeper") /\ FirstOf(<<"code_output">>, {}) # {} /\ Does("run_code")
    /\ UNCHANGED <<heard, channel, asked, silent, leftOut>>

\* _compose_output.
Composed(team) ==
    LET said == UNION {FirstOf(<<c>>, {}) : c \in Parts[team]}
    IN  IF said = {} THEN {"fixed"} ELSE said
=============================================================================
