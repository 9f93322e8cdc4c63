-------------------------- MODULE ManagerGraphProofs --------------------------
(***************************************************************************)
(* A run of the manager asks its models about the request it was given and *)
(* no other, acts on the world once and is not answered before a human has *)
(* replied, for any requests in any number and order, any run by name in   *)
(* between, and whatever models answer.  The argument follows a run: what  *)
(* its messages end with is its request; the channels its team is given,   *)
(* and each that a node writes from them, holds nothing of another request *)
(* and, where the team's prompts come from, holds the request or nothing   *)
(* while no model has answered something and left the request out of it;   *)
(* a team's nodes are run in the order of its pipeline, so that what a     *)
(* node reads has been written, and the node that acts is the last.        *)
(***************************************************************************)
EXTENDS ManagerGraph, SequenceTheorems, TLAPS

\* What may be left of a team's pipeline.
DocsLeft ==
    {DocsPipeline, <<"summarizer", "task_architect", "sync_manager">>,
     <<"task_architect", "sync_manager">>, <<"sync_manager">>, <<>>}
ResearchLeft ==
    {ResearchPipeline, <<"market_scout", "strategic_advisor">>, <<"strategic_advisor">>, <<>>}
TechnicalLeft ==
    {TechnicalPipeline, <<"code_architect", "quality_gatekeeper">>, <<"quality_gatekeeper">>, <<>>}
KnowledgeLeft ==
    {KnowledgePipeline, <<"experience_archivist", "yaml_architect">>, <<"yaml_architect">>, <<>>}

Lefts ==
    DocsLeft \cup ResearchLeft \cup TechnicalLeft \cup KnowledgeLeft \cup {<<a>> : a \in Agents}

BeforeTeam == {"guardrail", "intent_classifier", "planner", "team"}

\* Where a run is, what it has done and what it was asked to await.
Course ==
    /\ left \in Lefts
    /\ pc # "team_execute" => left = <<>>
    /\ pc \notin {"idle", "team_execute"} => byManager
    /\ pc # "idle" => current \in Requests
    /\ pc \in BeforeTeam \/ left # <<>> => \A e \in Effects : done[e] = 0
    /\ pc \in {"planner", "team"} \/ (pc = "team_execute" /\ byManager) =>
          mgr.current_team \in TeamNames
    /\ byManager /\ pc \in BeforeTeam \cup {"team_execute"} => (wanted => mgr.hitl_required)

\* A text that holds nothing of another request.
OwnText(text) == text # None => text \cap Requests \subseteq {current}

Own ==
    /\ \A p \in asked : OwnText(p.prompt)
    /\ pc = "team_execute" => heard = current /\ \A c \in Channels : OwnText(channel[c])
    /\ byManager =>
          /\ LastHuman \subseteq {current}
          /\ pc \in BeforeTeam \ {"guardrail"} => LastHuman = {current}
          /\ OwnText(mgr.team_output) /\ OwnText(mgr.final_response)

\* What the prompts of a team come from.
Carrying ==
    {"raw_input", "script", "summary", "query", "recommendation", "design_spec",
     "technical_summary"}

\* What the manager's team has been given and has written.
OnCourse ==
    /\ mgr.current_team = "docs" =>
          /\ left \in DocsLeft /\ channel["raw_input"] = {current}
          /\ left \in {<<"task_architect", "sync_manager">>, <<"sync_manager">>, <<>>} =>
                channel["summary"] # None
    /\ mgr.current_team = "research" =>
          /\ left \in ResearchLeft /\ channel["query"] = {current}
          /\ left = <<>> => channel["recommendation"] # None
    /\ mgr.current_team = "technical" =>
          /\ left \in TechnicalLeft
          /\ left # TechnicalPipeline => channel["design_spec"] # None
    /\ mgr.current_team = "knowledge" =>
          /\ left \in KnowledgeLeft
          /\ left # KnowledgePipeline => channel["technical_summary"] # None

TeamKeeps ==
    /\ OnCourse
    /\ ~silent => \A c \in Channels : channel[c] # {}
    /\ ~leftOut => \A c \in Carrying : channel[c] \in {None, {}} \/ current \in channel[c]

Keeps ==
    /\ PromptsKeepRequest
    /\ byManager /\ pc = "team_execute" => TeamKeeps
    /\ pc \in {"hitl", "paused", "validator"} =>
          mgr.team_output # None /\ (~silent /\ ~leftOut => current \in mgr.team_output)

IInv == TypeOK /\ Course /\ ActsOnce /\ AnswerAwaitsHuman /\ Own /\ Keeps
-----------------------------------------------------------------------------
(* Pipelines.                                                              *)

LEMMA PipelineOf ==
    /\ Pipeline["docs"] = DocsPipeline /\ Len(DocsPipeline) = 4
    /\ Pipeline["research"] = ResearchPipeline /\ Len(ResearchPipeline) = 3
    /\ Pipeline["technical"] = TechnicalPipeline /\ Len(TechnicalPipeline) = 3
    /\ Pipeline["knowledge"] = KnowledgePipeline /\ Len(KnowledgePipeline) = 3
  BY DEF Pipeline, DocsPipeline, ResearchPipeline, TechnicalPipeline, KnowledgePipeline

\* The nodes whose runs act on the outside world.
Actors == {"sync_manager", "quality_gatekeeper", "yaml_architect"}

\* When a node has run, what is left is left of some pipeline again; after one
\* that acts, nothing is.
LEMMA DocsTail ==
    ASSUME NEW s \in DocsLeft, s # <<>>
    PROVE  /\ Tail(s) \in DocsLeft
           /\ Head(s) \in {"data_processor", "summarizer", "task_architect", "sync_manager"}
           /\ Head(s) = "sync_manager" => Tail(s) = <<>>
           /\ Tail(s) \in {<<"task_architect", "sync_manager">>, <<"sync_manager">>, <<>>} =>
                 \/ Head(s) = "summarizer"
                 \/ s \in {<<"task_architect", "sync_manager">>, <<"sync_manager">>, <<>>}
  <1>1. CASE s = <<"data_processor", "summarizer", "task_architect", "sync_manager">>
    <2>1. Tail(s) = <<"summarizer", "task_architect", "sync_manager">> /\ Head(s) = "data_processor"
      BY <1>1
    <2> QED BY <2>1 DEF DocsLeft
  <1>2. CASE s = <<"summarizer", "task_architect", "sync_manager">>
    <2>1. Tail(s) = <<"task_architect", "sync_manager">> /\ Head(s) = "summarizer"
      BY <1>2
    <2> QED BY <2>1 DEF DocsLeft
  <1>3. CASE s = <<"task_architect", "sync_manager">>
    <2>1. Tail(s) = <<"sync_manager">> /\ Head(s) = "task_architect"
      BY <1>3
    <2> QED BY <1>3, <2>1 DEF DocsLeft
  <1>4. CASE s = <<"sync_manager">>
    <2>1. Tail(s) = <<>> /\ Head(s) = "sync_manager"
      BY <1>4
    <2> QED BY <1>4, <2>1 DEF DocsLeft
  <1> QED BY <1>1, <1>2, <1>3, <1>4 DEF DocsLeft, DocsPipeline

LEMMA ResearchTail ==
    ASSUME NEW s \in ResearchLeft, s # <<>>
    PROVE  /\ Tail(s) \in ResearchLeft
           /\ Head(s) \in {"internal_brain", "market_scout", "strategic_advisor"}
           /\ Tail(s) = <<>> => Head(s) = "strategic_advisor"
  <1>1. CASE s = <<"internal_brain", "market_scout", "strategic_advisor">>
    <2>1. Tail(s) = <<"market_scout", "strategic_advisor">> /\ Head(s) = "internal_brain"
      BY <1>1
    <2> QED BY <2>1 DEF ResearchLeft
  <1>2. CASE s = <<"market_scout", "strategic_advisor">>
    <2>1. Tail(s) = <<"strategic_advisor">> /\ Head(s) = "market_scout"
      BY <1>2
    <2> QED BY <2>1 DEF ResearchLeft
  <1>3. CASE s = <<"strategic_advisor">>
    <2>1. Tail(s) = <<>> /\ Head(s) = "strategic_advisor"
      BY <1>3
    <2> QED BY <2>1 DEF ResearchLeft
  <1> QED BY <1>1, <1>2, <1>3 DEF ResearchLeft, ResearchPipeline

LEMMA TechnicalTail ==
    ASSUME NEW s \in TechnicalLeft, s # <<>>
    PROVE  /\ Tail(s) \in TechnicalLeft
           /\ Head(s) \in {"visual_interpreter", "code_architect", "quality_gatekeeper"}
           /\ Head(s) = "quality_gatekeeper" => Tail(s) = <<>>
           /\ Head(s) = "visual_interpreter" <=> s = TechnicalPipeline
  <1>1. CASE s = <<"visual_interpreter", "code_architect", "quality_gatekeeper">>
    <2>1. Tail(s) = <<"code_architect", "quality_gatekeeper">> /\ Head(s) = "visual_interpreter"
      BY <1>1
    <2> QED BY <1>1, <2>1 DEF TechnicalLeft, TechnicalPipeline
  <1>2. CASE s = <<"code_architect", "quality_gatekeeper">>
    <2>1. Tail(s) = <<"quality_gatekeeper">> /\ Head(s) = "code_architect"
      BY <1>2
    <2> QED BY <1>2, <2>1 DEF TechnicalLeft, TechnicalPipeline
  <1>3. CASE s = <<"quality_gatekeeper">>
    <2>1. Tail(s) = <<>> /\ Head(s) = "quality_gatekeeper"
      BY <1>3
    <2> QED BY <1>3, <2>1 DEF TechnicalLeft, TechnicalPipeline
  <1> QED BY <1>1, <1>2, <1>3 DEF TechnicalLeft, TechnicalPipeline

LEMMA KnowledgeTail ==
    ASSUME NEW s \in KnowledgeLeft, s # <<>>
    PROVE  /\ Tail(s) \in KnowledgeLeft
           /\ Head(s) \in {"knowledge_scout", "experience_archivist", "yaml_architect"}
           /\ Head(s) = "yaml_architect" => Tail(s) = <<>>
           /\ Head(s) = "knowledge_scout" <=> s = KnowledgePipeline
  <1>1. CASE s = <<"knowledge_scout", "experience_archivist", "yaml_architect">>
    <2>1. Tail(s) = <<"experience_archivist", "yaml_architect">> /\ Head(s) = "knowledge_scout"
      BY <1>1
    <2> QED BY <1>1, <2>1 DEF KnowledgeLeft, KnowledgePipeline
  <1>2. CASE s = <<"experience_archivist", "yaml_architect">>
    <2>1. Tail(s) = <<"yaml_architect">> /\ Head(s) = "experience_archivist"
      BY <1>2
    <2> QED BY <1>2, <2>1 DEF KnowledgeLeft, KnowledgePipeline
  <1>3. CASE s = <<"yaml_architect">>
    <2>1. Tail(s) = <<>> /\ Head(s) = "yaml_architect"
      BY <1>3
    <2> QED BY <1>3, <2>1 DEF KnowledgeLeft, KnowledgePipeline
  <1> QED BY <1>1, <1>2, <1>3 DEF KnowledgeLeft, KnowledgePipeline

LEMMA LeftsTail ==
    ASSUME NEW s \in Lefts, s # <<>>
    PROVE  /\ Tail(s) \in Lefts
           /\ Head(s) \in Actors => Tail(s) = <<>>
  <1>1. CASE s \in DocsLeft
    BY <1>1, DocsTail DEF Lefts, Actors
  <1>2. CASE s \in ResearchLeft
    BY <1>2, ResearchTail DEF Lefts, Actors
  <1>3. CASE s \in TechnicalLeft
    BY <1>3, TechnicalTail DEF Lefts, Actors
  <1>4. CASE s \in KnowledgeLeft
    BY <1>4, KnowledgeTail DEF Lefts, Actors
  <1>5. ASSUME NEW a \in Agents, s = <<a>>
        PROVE  Tail(s) = <<>> /\ <<>> \in Lefts
    BY <1>5 DEF Lefts, DocsLeft
  <1> QED BY <1>1, <1>2, <1>3, <1>4, <1>5 DEF Lefts

\* A pipeline's suffixes are those that its tails are.
LEMMA Suffixes3 ==
    ASSUME NEW a, NEW b, NEW c
    PROVE  LET p == <<a, b, c>>
           IN  /\ SubSeq(p, 1, 3) = p /\ SubSeq(p, 2, 3) = <<b, c>> /\ SubSeq(p, 3, 3) = <<c>>
  <1> DEFINE p == <<a, b, c>>
  <1>1. p \in Seq({a, b, c}) /\ Len(p) = 3
    OBVIOUS
  <1>2. SubSeq(p, 1, 3) = p
    BY <1>1, SubSeqFull
  <1>3. SubSeq(p, 2, 3) = Tail(SubSeq(p, 1, 3)) /\ SubSeq(p, 3, 3) = Tail(SubSeq(p, 2, 3))
    BY <1>1, HeadTailOfSubSeq
  <1>4. Tail(p) = <<b, c>> /\ Tail(<<b, c>>) = <<c>>
    OBVIOUS
  <1> QED BY <1>2, <1>3, <1>4

LEMMA Suffixes4 ==
    ASSUME NEW a, NEW b, NEW c, NEW d
    PROVE  LET p == <<a, b, c, d>>
           IN  /\ SubSeq(p, 1, 4) = p /\ SubSeq(p, 2, 4) = <<b, c, d>>
               /\ SubSeq(p, 3, 4) = <<c, d>> /\ SubSeq(p, 4, 4) = <<d>>
  <1> DEFINE p == <<a, b, c, d>>
  <1>1. p \in Seq({a, b, c, d}) /\ Len(p) = 4
    OBVIOUS
  <1>2. SubSeq(p, 1, 4) = p
    BY <1>1, SubSeqFull
  <1>3. /\ SubSeq(p, 2, 4) = Tail(SubSeq(p, 1, 4)) /\ SubSeq(p, 3, 4) = Tail(SubSeq(p, 2, 4))
        /\ SubSeq(p, 4, 4) = Tail(SubSeq(p, 3, 4))
    BY <1>1, HeadTailOfSubSeq
  <1>4. Tail(p) = <<b, c, d>> /\ Tail(<<b, c, d>>) = <<c, d>> /\ Tail(<<c, d>>) = <<d>>
    OBVIOUS
  <1> QED BY <1>2, <1>3, <1>4

LEMMA TeamSuffixes ==
    /\ SubSeq(DocsPipeline, 1, 4) = DocsPipeline
    /\ SubSeq(DocsPipeline, 2, 4) = <<"summarizer", "task_architect", "sync_manager">>
    /\ SubSeq(DocsPipeline, 3, 4) = <<"task_architect", "sync_manager">>
    /\ SubSeq(DocsPipeline, 4, 4) = <<"sync_manager">>
    /\ SubSeq(ResearchPipeline, 1, 3) = ResearchPipeline
    /\ SubSeq(ResearchPipeline, 2, 3) = <<"market_scout", "strategic_advisor">>
    /\ SubSeq(ResearchPipeline, 3, 3) = <<"strategic_advisor">>
    /\ SubSeq(TechnicalPipeline, 1, 3) = TechnicalPipeline
    /\ SubSeq(TechnicalPipeline, 2, 3) = <<"code_architect", "quality_gatekeeper">>
    /\ SubSeq(TechnicalPipeline, 3, 3) = <<"quality_gatekeeper">>
    /\ SubSeq(KnowledgePipeline, 1, 3) = KnowledgePipeline
    /\ SubSeq(KnowledgePipeline, 2, 3) = <<"experience_archivist", "yaml_architect">>
    /\ SubSeq(KnowledgePipeline, 3, 3) = <<"yaml_architect">>
  BY Suffixes3, Suffixes4 DEF DocsPipeline, ResearchPipeline, TechnicalPipeline, KnowledgePipeline

\* TeamTypeOK says of what is left that it is a suffix.
LEMMA SuffixIsLeft ==
    ASSUME NEW t \in TeamNames, NEW k \in 1..Len(Pipeline[t])
    PROVE  SubSeq(Pipeline[t], k, Len(Pipeline[t])) \in Lefts
  <1>1. CASE t = "docs"
    <2>1. k \in {1, 2, 3, 4}
      BY <1>1, PipelineOf
    <2> QED BY <1>1, <2>1, PipelineOf, TeamSuffixes DEF Lefts, DocsLeft
  <1>2. CASE t = "research"
    <2>1. k \in {1, 2, 3}
      BY <1>2, PipelineOf
    <2> QED BY <1>2, <2>1, PipelineOf, TeamSuffixes DEF Lefts, ResearchLeft
  <1>3. CASE t = "technical"
    <2>1. k \in {1, 2, 3}
      BY <1>3, PipelineOf
    <2> QED BY <1>3, <2>1, PipelineOf, TeamSuffixes DEF Lefts, TechnicalLeft
  <1>4. CASE t = "knowledge"
    <2>1. k \in {1, 2, 3}
      BY <1>4, PipelineOf
    <2> QED BY <1>4, <2>1, PipelineOf, TeamSuffixes DEF Lefts, KnowledgeLeft
  <1> QED BY <1>1, <1>2, <1>3, <1>4 DEF TeamNames

IsSuffix(s) ==
    \E t \in TeamNames : \E k \in 1..Len(Pipeline[t]) : s = SubSeq(Pipeline[t], k, Len(Pipeline[t]))

LEMMA LeftIsSuffix ==
    ASSUME NEW s \in Lefts
    PROVE  (\E a \in Agents : s = <<a>>) \/ s = <<>> \/ IsSuffix(s)
  <1>1. CASE s \in DocsLeft
    <2>1. ASSUME NEW k \in 1..4, s = SubSeq(DocsPipeline, k, 4)
          PROVE  IsSuffix(s)
      BY <2>1, PipelineOf DEF IsSuffix, TeamNames
    <2>2. 1 \in 1..4 /\ 2 \in 1..4 /\ 3 \in 1..4 /\ 4 \in 1..4
      OBVIOUS
    <2> QED BY <1>1, <2>1, <2>2, TeamSuffixes DEF DocsLeft
  <1>2. CASE s \in ResearchLeft
    <2>1. ASSUME NEW k \in 1..3, s = SubSeq(ResearchPipeline, k, 3)
          PROVE  IsSuffix(s)
      BY <2>1, PipelineOf DEF IsSuffix, TeamNames
    <2>2. 1 \in 1..3 /\ 2 \in 1..3 /\ 3 \in 1..3
      OBVIOUS
    <2> QED BY <1>2, <2>1, <2>2, TeamSuffixes DEF ResearchLeft
  <1>3. CASE s \in TechnicalLeft
    <2>1. ASSUME NEW k \in 1..3, s = SubSeq(TechnicalPipeline, k, 3)
          PROVE  IsSuffix(s)
      BY <2>1, PipelineOf DEF IsSuffix, TeamNames
    <2>2. 1 \in 1..3 /\ 2 \in 1..3 /\ 3 \in 1..3
      OBVIOUS
    <2> QED BY <1>3, <2>1, <2>2, TeamSuffixes DEF TechnicalLeft
  <1>4. CASE s \in KnowledgeLeft
    <2>1. ASSUME NEW k \in 1..3, s = SubSeq(KnowledgePipeline, k, 3)
          PROVE  IsSuffix(s)
      BY <2>1, PipelineOf DEF IsSuffix, TeamNames
    <2>2. 1 \in 1..3 /\ 2 \in 1..3 /\ 3 \in 1..3
      OBVIOUS
    <2> QED BY <1>4, <2>1, <2>2, TeamSuffixes DEF KnowledgeLeft
  <1> QED BY <1>1, <1>2, <1>3, <1>4 DEF Lefts

-----------------------------------------------------------------------------
(* Channels.                                                               *)

Held(c) == channel[c] \notin {None, {}}

LEMMA FirstOf1 ==
    ASSUME NEW c, NEW otherwise
    PROVE  FirstOf(<<c>>, otherwise) = IF Held(c) THEN channel[c] ELSE otherwise
  BY DEF FirstOf, Held

LEMMA FirstOf2 ==
    ASSUME NEW c, NEW d, NEW otherwise
    PROVE  FirstOf(<<c, d>>, otherwise) =
             IF Held(c) THEN channel[c] ELSE IF Held(d) THEN channel[d] ELSE otherwise
  BY DEF FirstOf, Held

LEMMA FirstOf3 ==
    ASSUME NEW c, NEW d, NEW e, NEW otherwise
    PROVE  FirstOf(<<c, d, e>>, otherwise) =
             IF Held(c) THEN channel[c] ELSE IF Held(d) THEN channel[d]
             ELSE IF Held(e) THEN channel[e] ELSE otherwise
  BY DEF FirstOf, Held

-----------------------------------------------------------------------------
(* The nodes of a team.                                                    *)

\* The nodes that a team's course depends on, and what they write.
Outputs(n, c) ==
    /\ c \in Channels \ {"raw_input", "query"}
    /\ n = "summarizer" => c = "summary"
    /\ n = "strategic_advisor" => c = "recommendation"
    /\ n = "visual_interpreter" => c = "design_spec"
    /\ n = "knowledge_scout" => c = "technical_summary"

\* What a node may ask its model.
Proper(n, prompt) ==
    /\ prompt \subseteq Sources /\ prompt \cap Requests \subseteq {current}
    /\ byManager /\ MustHold(n) => current \in prompt

\* A step of a node, whatever it asks.
NodeStep(n, c, text) ==
    /\ pc = "team_execute" /\ UNCHANGED mgrVars
    /\ At(n) /\ Outputs(n, c)
    /\ Write(c, text) /\ UNCHANGED heard
    /\ text \subseteq Sources /\ text \cap Requests \subseteq {current}
    /\ byManager /\ c \in Carrying /\ ~leftOut' => text = {} \/ current \in text
    /\ leftOut' \in BOOLEAN /\ (leftOut => leftOut')
    /\ silent' \in BOOLEAN /\ (silent => silent') /\ (text = {} => silent')
    /\ \A p \in asked' : p \in asked \/ (p.node = n /\ Proper(n, p.prompt))
    /\ done' = done \/ (n \in Actors /\ \E e \in Effects : Does(e))

\* On the manager's team a node follows the one before it, which has written.
LEMMA CourseStep ==
    ASSUME IInv, byManager, NEW n, NEW c, NEW text, NodeStep(n, c, text)
    PROVE  OnCourse'
  <1> USE DEF NodeStep, mgrVars
  <1>1. /\ left # <<>> /\ Head(left) = n /\ left' = Tail(left)
        /\ channel' = [channel EXCEPT ![c] = text]
        /\ c \in Channels /\ c # "raw_input" /\ c # "query" /\ text # None
        /\ channel \in [Channels -> {None} \cup SUBSET Sources]
        /\ OnCourse /\ mgr' = mgr /\ current' = current
    BY NoneAssumption DEF At, Write, Outputs, IInv, TypeOK, TeamTypeOK, Keeps, TeamKeeps
  <1>2. \A d \in Channels : channel'[d] = IF d = c THEN text ELSE channel[d]
    BY <1>1
  <1>3. /\ channel'["raw_input"] = channel["raw_input"] /\ channel'["query"] = channel["query"]
        /\ \A d \in Channels : channel[d] # None => channel'[d] # None
    BY <1>1, <1>2 DEF Channels
  <1>4. {"summary", "recommendation", "design_spec", "technical_summary"} \subseteq Channels
    BY DEF Channels
  <1>5. /\ n = "summarizer" => channel'["summary"] # None
        /\ n = "strategic_advisor" => channel'["recommendation"] # None
        /\ n = "visual_interpreter" => channel'["design_spec"] # None
        /\ n = "knowledge_scout" => channel'["technical_summary"] # None
    BY <1>1, <1>2, <1>4 DEF Outputs
  <1>6. (mgr.current_team = "docs" =>
          /\ left \in DocsLeft /\ channel["raw_input"] = {current}
          /\ left \in {<<"task_architect", "sync_manager">>, <<"sync_manager">>, <<>>} =>
                channel["summary"] # None)'
    BY <1>1, <1>3, <1>4, <1>5, DocsTail DEF OnCourse
  <1>7. (mgr.current_team = "research" =>
          /\ left \in ResearchLeft /\ channel["query"] = {current}
          /\ left = <<>> => channel["recommendation"] # None)'
    BY <1>1, <1>3, <1>4, <1>5, ResearchTail DEF OnCourse
  <1>8. (mgr.current_team = "technical" =>
          /\ left \in TechnicalLeft
          /\ left # TechnicalPipeline => channel["design_spec"] # None)'
    BY <1>1, <1>3, <1>4, <1>5, TechnicalTail DEF OnCourse
  <1>9. (mgr.current_team = "knowledge" =>
          /\ left \in KnowledgeLeft
          /\ left # KnowledgePipeline => channel["technical_summary"] # None)'
    BY <1>1, <1>3, <1>4, <1>5, KnowledgeTail DEF OnCourse
  <1> QED BY <1>6, <1>7, <1>8, <1>9 DEF OnCourse

LEMMA NodeStepIInv ==
    ASSUME IInv, NEW n, NEW c, NEW text, NodeStep(n, c, text)
    PROVE  IInv'
  <1> USE DEF NodeStep, mgrVars
  <1>1. /\ left # <<>> /\ Head(left) = n /\ left' = Tail(left)
        /\ channel' = [channel EXCEPT ![c] = text]
        /\ c \in Channels /\ text # None /\ text \in SUBSET Sources
        /\ channel \in [Channels -> {None} \cup SUBSET Sources]
        /\ left \in Lefts /\ current \in Requests
    BY NoneAssumption DEF At, Write, Outputs, IInv, TypeOK, TeamTypeOK, Course
  <1>2. \A d \in Channels : channel'[d] = IF d = c THEN text ELSE channel[d]
    BY <1>1
  <1>3. /\ left' \in Lefts /\ (n \in Actors => left' = <<>>)
        /\ (\E a \in Agents : left' = <<a>>) \/ left' = <<>> \/ IsSuffix(left')
    BY <1>1, LeftsTail, LeftIsSuffix
  <1>4. \A e \in Effects : done[e] = 0
    BY <1>1 DEF IInv, Course
  <1>5. done \in [Effects -> Nat]
    BY DEF IInv, TypeOK, TeamTypeOK
  <1>6. TypeOK'
    <2>1. done' \in [Effects -> Nat]
      BY <1>5 DEF Does
    <2>2. channel' \in [Channels -> {None} \cup SUBSET Sources]
      BY <1>1
    <2>3. \A p \in asked' : p.prompt \subseteq Sources
      BY DEF Proper, IInv, TypeOK, TeamTypeOK
    <2>4. TeamTypeOK'
      BY <2>1, <2>2, <2>3, <1>3 DEF TeamTypeOK, IsSuffix, IInv, TypeOK
    <2> QED BY <2>4 DEF IInv, TypeOK, Texts
  <1>7. Course'
    <2>1. left' # <<>> => \A e \in Effects : done'[e] = 0
      BY <1>3, <1>4
    <2> QED BY <2>1, <1>3 DEF IInv, Course, BeforeTeam
  <1>8. ActsOnce'
    BY <1>4, <1>5 DEF Does, ActsOnce, Effects
  <1>9. AnswerAwaitsHuman'
    BY DEF AnswerAwaitsHuman
  <1>10. Own'
    <2>1. \A p \in asked' : OwnText(p.prompt)
      BY DEF IInv, Own, OwnText, Proper
    <2>2. \A d \in Channels : OwnText(channel'[d])
      BY <1>2 DEF IInv, Own, OwnText
    <2> QED BY <2>1, <2>2 DEF IInv, Own, OwnText, LastHuman
  <1>11. Keeps'
    <2>1. PromptsKeepRequest'
      BY DEF IInv, Keeps, PromptsKeepRequest, Proper, MustHold
    <2>2. ASSUME byManager PROVE TeamKeeps'
      <3>1. OnCourse'
        BY <2>2, CourseStep
      <3>2. ~silent' => \A d \in Channels : channel'[d] # {}
        BY <1>2, <2>2 DEF IInv, Keeps, TeamKeeps
      <3>3. ~leftOut' => \A d \in Carrying : channel'[d] \in {None, {}} \/ current \in channel'[d]
        <4>1. Carrying \subseteq Channels
          BY DEF Carrying, Channels
        <4> QED BY <1>2, <2>2, <4>1 DEF IInv, Keeps, TeamKeeps
      <3> QED BY <3>1, <3>2, <3>3 DEF TeamKeeps
    <2> QED BY <2>1, <2>2 DEF Keeps
  <1> QED BY <1>6, <1>7, <1>8, <1>9, <1>10, <1>11 DEF IInv

\* A model brings in no request that it was not asked.
LEMMA AnswersOwn ==
    ASSUME NEW prompt, prompt \subseteq Sources, prompt \cap Requests \subseteq {current},
           NEW text \in Answers(prompt)
    PROVE  text \subseteq Sources /\ text \cap Requests \subseteq {current}
  BY RequestAssumption DEF Answers, Sources

\* A node that asks its model, and one that writes a text of its own.
LEMMA AsksIInv ==
    ASSUME IInv, pc = "team_execute", UNCHANGED mgrVars,
           NEW n, NEW prompt, NEW c, Asks(n, prompt, c), Outputs(n, c), Proper(n, prompt),
           byManager /\ c \in Carrying /\ ~leftOut => current \in prompt,
           done' = done \/ (n \in Actors /\ \E e \in Effects : Does(e))
    PROVE  IInv'
  <1>1. PICK text \in Answers(prompt) :
          /\ Write(c, text)
          /\ silent' = (silent \/ text = {})
          /\ leftOut' = (leftOut \/ (text # {} /\ ~(prompt \cap Requests \subseteq text)))
    BY DEF Asks
  <1>2. text \subseteq Sources /\ text \cap Requests \subseteq {current}
    BY AnswersOwn DEF Proper
  <1>3. silent \in BOOLEAN /\ leftOut \in BOOLEAN /\ current \in Requests
    BY DEF IInv, TypeOK, TeamTypeOK, Course
  <1>7. /\ leftOut' \in BOOLEAN /\ (leftOut => leftOut')
        /\ byManager /\ c \in Carrying /\ ~leftOut' => text = {} \/ current \in text
    BY <1>1, <1>3
  <1>4. silent' \in BOOLEAN /\ (silent => silent') /\ (text = {} => silent')
    BY <1>1, <1>3
  <1>5. \A p \in asked' : p \in asked \/ (p.node = n /\ Proper(n, p.prompt))
    BY DEF Asks
  <1>6. NodeStep(n, c, text)
    BY <1>1, <1>2, <1>4, <1>5, <1>7 DEF NodeStep, Asks
  <1> QED BY <1>6, NodeStepIInv

LEMMA SaysIInv ==
    ASSUME IInv, pc = "team_execute", UNCHANGED mgrVars,
           NEW n, NEW c, NEW text, Says(n, c, text), Outputs(n, c),
           text # {}, text \subseteq {"fixed", "run"},
           byManager => c \notin Carrying,
           done' = done \/ (n \in Actors /\ \E e \in Effects : Does(e))
    PROVE  IInv'
  <1>1. text \subseteq Sources /\ text \cap Requests \subseteq {current}
    BY RequestAssumption DEF Sources
  <1>2. /\ silent' \in BOOLEAN /\ (silent => silent') /\ (text = {} => silent')
        /\ leftOut' \in BOOLEAN /\ (leftOut => leftOut')
    BY DEF IInv, TypeOK, TeamTypeOK, Says
  <1>3. \A p \in asked' : p \in asked \/ (p.node = n /\ Proper(n, p.prompt))
    BY DEF Says
  <1>4. At(n) /\ Write(c, text) /\ UNCHANGED heard
    BY DEF Says
  <1>5. NodeStep(n, c, text)
    BY <1>1, <1>2, <1>3, <1>4 DEF NodeStep
  <1> QED BY <1>5, NodeStepIInv

\* What a node reads holds nothing of another request.
LEMMA ReadsOwn ==
    ASSUME IInv, pc = "team_execute", NEW c \in Channels,
           NEW otherwise, otherwise \subseteq {"fixed"}
    PROVE  /\ FirstOf(<<c>>, otherwise) \subseteq Sources
           /\ FirstOf(<<c>>, otherwise) \cap Requests \subseteq {current}
           /\ Held(c) => channel[c] \subseteq Sources /\ channel[c] \cap Requests \subseteq {current}
           /\ Message = {current} /\ current \in Requests
  <1>1. Held(c) => channel[c] \subseteq Sources /\ channel[c] \cap Requests \subseteq {current}
    BY DEF IInv, TypeOK, TeamTypeOK, Own, OwnText, Held
  <1>2. otherwise \subseteq Sources /\ otherwise \cap Requests \subseteq {current}
    BY RequestAssumption DEF Sources
  <1>3. Message = {current} /\ current \in Requests
    BY NoneAssumption DEF IInv, Own, Course, Message
  <1> QED BY <1>1, <1>2, <1>3, FirstOf1

\* Which team the manager runs, from the node that comes next.
LEMMA TeamOf ==
    ASSUME IInv, pc = "team_execute", byManager, NEW n, At(n)
    PROVE  /\ n \in {"data_processor", "summarizer", "task_architect", "sync_manager"} =>
                 mgr.current_team = "docs"
           /\ n \in {"internal_brain", "market_scout", "strategic_advisor"} =>
                 mgr.current_team = "research"
           /\ n \in {"visual_interpreter", "code_architect", "quality_gatekeeper"} =>
                 mgr.current_team = "technical"
           /\ n \in {"knowledge_scout", "experience_archivist", "yaml_architect"} =>
                 mgr.current_team = "knowledge"
  <1>1. left # <<>> /\ Head(left) = n /\ OnCourse /\ mgr.current_team \in TeamNames
    BY DEF At, IInv, Keeps, TeamKeeps, Course
  <1>2. mgr.current_team = "docs" =>
            n \in {"data_processor", "summarizer", "task_architect", "sync_manager"}
    BY <1>1, DocsTail DEF OnCourse
  <1>3. mgr.current_team = "research" =>
            n \in {"internal_brain", "market_scout", "strategic_advisor"}
    BY <1>1, ResearchTail DEF OnCourse
  <1>4. mgr.current_team = "technical" =>
            n \in {"visual_interpreter", "code_architect", "quality_gatekeeper"}
    BY <1>1, TechnicalTail DEF OnCourse
  <1>5. mgr.current_team = "knowledge" =>
            n \in {"knowledge_scout", "experience_archivist", "yaml_architect"}
    BY <1>1, KnowledgeTail DEF OnCourse
  <1> QED BY <1>1, <1>2, <1>3, <1>4, <1>5 DEF TeamNames

\* What the manager's team reads holds the request.
LEMMA ReadsRequest ==
    ASSUME IInv, pc = "team_execute", byManager
    PROVE  /\ mgr.current_team = "docs" => Held("raw_input") /\ channel["raw_input"] = {current}
           /\ mgr.current_team = "research" => Held("query") /\ channel["query"] = {current}
           /\ ~leftOut => \A c \in Carrying : Held(c) => current \in channel[c]
           /\ ~silent => \A c \in Carrying : channel[c] # None => Held(c)
  <1>1. TeamKeeps /\ Carrying \subseteq Channels
    BY DEF IInv, Keeps, Carrying, Channels
  <1>2. {current} # None /\ {current} # {}
    BY NoneAssumption DEF IInv, Course, Sources
  <1> QED BY <1>1, <1>2 DEF TeamKeeps, OnCourse, Held

-----------------------------------------------------------------------------
(* The thirteen agents, team by team.                                      *)

LEMMA DocsIInv ==
    ASSUME IInv, pc = "team_execute", UNCHANGED mgrVars,
           DataProcessor \/ Summarizer \/ TaskArchitect \/ SyncManager
    PROVE  IInv'
  <1> USE DEF Outputs, Channels, Carrying, MustHold, Robust, Recovering
  <1>0. \A c \in Channels : Held(c) =>
           channel[c] \subseteq Sources /\ channel[c] \cap Requests \subseteq {current}
    <2>1. {} \subseteq {"fixed"}
      OBVIOUS
    <2> QED BY <2>1, ReadsOwn
  <1>1. CASE DataProcessor
    <2> DEFINE prompt == FirstOf(<<"raw_input">>, {})
    <2>1. Asks("data_processor", prompt, "script") /\ done' = done /\ At("data_processor")
      BY <1>1 DEF DataProcessor, Asks
    <2>2. byManager => current \in prompt
      BY <2>1, TeamOf, ReadsRequest, FirstOf1
    <2>3. Proper("data_processor", prompt)
      BY <2>2, ReadsOwn DEF Proper
    <2> HIDE DEF prompt
    <2> QED BY <2>1, <2>2, <2>3, AsksIInv
  <1>2. CASE Summarizer
    <2> DEFINE prompt == FirstOf(<<"script", "raw_input">>, {})
    <2>1. Asks("summarizer", prompt, "summary") /\ done' = done /\ At("summarizer")
      BY <1>2 DEF Summarizer, Asks
    <2>2. byManager /\ ~leftOut => current \in prompt
      BY <2>1, TeamOf, ReadsRequest, FirstOf2
    <2>3. Proper("summarizer", prompt)
      BY <2>2, <1>0, FirstOf2 DEF Proper
    <2> HIDE DEF prompt
    <2> QED BY <2>1, <2>2, <2>3, AsksIInv
  <1>3. CASE TaskArchitect
    <2> DEFINE prompt == FirstOf(<<"summary", "script", "raw_input">>, {})
    <2>1. Asks("task_architect", prompt, "tasks") /\ done' = done /\ At("task_architect")
      BY <1>3 DEF TaskArchitect, Asks
    <2>2. byManager /\ ~leftOut => current \in prompt
      BY <2>1, TeamOf, ReadsRequest, FirstOf3
    <2>3. Proper("task_architect", prompt)
      BY <2>2, <1>0, FirstOf3 DEF Proper
    <2> HIDE DEF prompt
    <2> QED BY <2>1, <2>2, <2>3, AsksIInv
  <1>4. CASE SyncManager
    <2>1. PICK failed \in {{}, Tasks} :
            CreateTasks(failed) /\ Asks("sync_manager", {"fixed"} \cup failed, "sync_status")
      BY <1>4 DEF SyncManager
    <2> DEFINE prompt == {"fixed"} \cup failed
    <2>2. done' = done \/ ("sync_manager" \in Actors /\ \E e \in Effects : Does(e))
      BY <2>1 DEF CreateTasks, Actors, Effects
    <2>3. Proper("sync_manager", prompt)
      BY <2>1, ReadsOwn, RequestAssumption DEF Proper, Tasks, Sources
    <2>4. Asks("sync_manager", prompt, "sync_status")
      BY <2>1
    <2> HIDE DEF prompt
    <2> QED BY <2>2, <2>3, <2>4, AsksIInv
  <1> QED BY <1>1, <1>2, <1>3, <1>4

LEMMA ResearchIInv ==
    ASSUME IInv, pc = "team_execute", UNCHANGED mgrVars,
           InternalBrain \/ MarketScout \/ StrategicAdvisor
    PROVE  IInv'
  <1> USE DEF Outputs, Channels, Carrying, MustHold, Robust, Recovering
  <1>1. CASE InternalBrain
    BY <1>1, SaysIInv DEF InternalBrain
  <1>2. CASE MarketScout
    <2> DEFINE prompt == FirstOf(<<"query">>, {}) \cup FirstOf(<<"internal_knowledge">>, {"fixed"})
                           \cup {"web"}
    <2>1. done' = done
      BY <1>2 DEF MarketScout
    <2>2. CASE Says("market_scout", "web_results", {"fixed"})
      BY <2>1, <2>2, SaysIInv
    <2>3. CASE Asks("market_scout", prompt, "web_results")
      <3>1. byManager => current \in FirstOf(<<"query">>, {})
        BY <2>3, TeamOf, ReadsRequest, FirstOf1 DEF Asks
      <3>2. Proper("market_scout", prompt)
        BY <3>1, ReadsOwn, RequestAssumption DEF Proper, Sources
      <3> HIDE DEF prompt
      <3> QED BY <2>1, <2>3, <3>2, AsksIInv
    <2> QED BY <1>2, <2>2, <2>3 DEF MarketScout
  <1>3. CASE StrategicAdvisor
    <2> DEFINE prompt == FirstOf(<<"query">>, {}) \cup FirstOf(<<"internal_knowledge">>, {"fixed"})
                           \cup FirstOf(<<"web_results">>, {"fixed"})
    <2>1. Asks("strategic_advisor", prompt, "recommendation") /\ done' = done
          /\ At("strategic_advisor")
      BY <1>3 DEF StrategicAdvisor, Asks
    <2>2. byManager => current \in prompt
      BY <2>1, TeamOf, ReadsRequest, FirstOf1
    <2>3. Proper("strategic_advisor", prompt)
      BY <2>2, ReadsOwn DEF Proper
    <2> HIDE DEF prompt
    <2> QED BY <2>1, <2>2, <2>3, AsksIInv
  <1> QED BY <1>1, <1>2, <1>3

LEMMA TechnicalIInv ==
    ASSUME IInv, pc = "team_execute", UNCHANGED mgrVars,
           VisualInterpreter \/ CodeArchitect \/ QualityGatekeeper
    PROVE  IInv'
  <1> USE DEF Outputs, Channels, Carrying, MustHold, Robust, Recovering
  <1>1. CASE VisualInterpreter
    <2>1. Message = {current} /\ current \in Requests
      BY ReadsOwn
    <2>2. Asks("visual_interpreter", {current}, "design_spec") /\ done' = done
      BY <1>1, <2>1 DEF VisualInterpreter
    <2>3. Proper("visual_interpreter", {current})
      BY <2>1 DEF Proper, Sources
    <2> QED BY <2>2, <2>3, AsksIInv
  <1>2. At("code_architect") \/ At("quality_gatekeeper") =>
           (byManager /\ ~silent /\ ~leftOut => Held("design_spec") /\ current \in channel["design_spec"])
    <2> SUFFICES ASSUME At("code_architect") \/ At("quality_gatekeeper"), byManager, ~silent, ~leftOut
                 PROVE  Held("design_spec") /\ current \in channel["design_spec"]
      OBVIOUS
    <2>1. mgr.current_team = "technical"
      BY TeamOf
    <2>2. left # TechnicalPipeline /\ OnCourse
      BY DEF At, TechnicalPipeline, IInv, Keeps, TeamKeeps
    <2> QED BY <2>1, <2>2, ReadsRequest DEF OnCourse
  <1> DEFINE spec == FirstOf(<<"design_spec">>, {"fixed"})
             code == FirstOf(<<"code_output">>, {})
  <1>3. /\ spec \subseteq Sources /\ spec \cap Requests \subseteq {current}
        /\ code \subseteq Sources /\ code \cap Requests \subseteq {current}
    BY ReadsOwn
  <1>4. At("code_architect") \/ At("quality_gatekeeper") =>
           (byManager /\ ~silent /\ ~leftOut => current \in spec)
    BY <1>2, FirstOf1
  <1>5. CASE CodeArchitect
    <2>1. Asks("code_architect", spec, "code_output") /\ done' = done
      BY <1>5 DEF CodeArchitect
    <2>2. Proper("code_architect", spec)
      BY <1>3, <1>4, <2>1 DEF Proper, Asks
    <2> HIDE DEF spec
    <2> QED BY <2>1, <2>2, AsksIInv
  <1>6. CASE QualityGatekeeper
    <2>1. ASSUME NEW ran \in {"run", "fixed"},
                 Asks("quality_gatekeeper", spec \cup code \cup {ran}, "review_report"),
                 done' = done \/ Does("run_code")
          PROVE  IInv'
      <3> DEFINE prompt == spec \cup code \cup {ran}
      <3>1. Proper("quality_gatekeeper", prompt)
        BY <1>3, <1>4, <2>1, RequestAssumption DEF Proper, Sources, Asks
      <3>2. done' = done \/ ("quality_gatekeeper" \in Actors /\ \E e \in Effects : Does(e))
        BY <2>1 DEF Actors, Effects
      <3>3. Asks("quality_gatekeeper", prompt, "review_report")
        BY <2>1
      <3> HIDE DEF prompt
      <3> QED BY <3>1, <3>2, <3>3, AsksIInv
    <2>2. ASSUME NEW text \in {{"fixed"}, {"fixed", "run"}},
                 Says("quality_gatekeeper", "review_report", text),
                 done' = done \/ Does("run_code")
          PROVE  IInv'
      <3>1. done' = done \/ ("quality_gatekeeper" \in Actors /\ \E e \in Effects : Does(e))
        BY <2>2 DEF Actors, Effects
      <3> QED BY <2>2, <3>1, SaysIInv
    <2> HIDE DEF spec, code
    <2>3. \/ Says("quality_gatekeeper", "review_report", {"fixed"}) /\ done' = done
          \/ Says("quality_gatekeeper", "review_report", {"fixed", "run"}) /\ RunCode(FALSE)
          \/ Asks("quality_gatekeeper", spec \cup code \cup {"run"}, "review_report") /\ RunCode(TRUE)
          \/ Asks("quality_gatekeeper", spec \cup code \cup {"fixed"}, "review_report")
             /\ done' = done
      BY <1>6 DEF QualityGatekeeper, spec, code
    <2> QED BY <2>1, <2>2, <2>3 DEF RunCode
  <1> QED BY <1>1, <1>5, <1>6

LEMMA KnowledgeIInv ==
    ASSUME IInv, pc = "team_execute", UNCHANGED mgrVars,
           KnowledgeScout \/ ExperienceArchivist \/ YamlArchitect
    PROVE  IInv'
  <1> USE DEF Outputs, Channels, Carrying, MustHold, Robust, Recovering
  <1>1. CASE KnowledgeScout
    <2>1. Message = {current} /\ current \in Requests
      BY ReadsOwn
    <2>2. Asks("knowledge_scout", {current}, "technical_summary") /\ done' = done
      BY <1>1, <2>1 DEF KnowledgeScout
    <2>3. Proper("knowledge_scout", {current})
      BY <2>1 DEF Proper, Sources
    <2> QED BY <2>2, <2>3, AsksIInv
  <1>2. At("experience_archivist") \/ At("yaml_architect") =>
           (byManager /\ ~silent /\ ~leftOut =>
              Held("technical_summary") /\ current \in channel["technical_summary"])
    <2> SUFFICES ASSUME At("experience_archivist") \/ At("yaml_architect"), byManager, ~silent, ~leftOut
                 PROVE  Held("technical_summary") /\ current \in channel["technical_summary"]
      OBVIOUS
    <2>1. mgr.current_team = "knowledge"
      BY TeamOf
    <2>2. left # KnowledgePipeline /\ OnCourse
      BY DEF At, KnowledgePipeline, IInv, Keeps, TeamKeeps
    <2> QED BY <2>1, <2>2, ReadsRequest DEF OnCourse
  <1> DEFINE summary == FirstOf(<<"technical_summary">>, {"fixed"})
             lessons == FirstOf(<<"lessons">>, {"fixed"})
  <1>3. /\ summary \subseteq Sources /\ summary \cap Requests \subseteq {current}
        /\ lessons \subseteq Sources /\ lessons \cap Requests \subseteq {current}
    BY ReadsOwn
  <1>4. At("experience_archivist") \/ At("yaml_architect") =>
           (byManager /\ ~silent /\ ~leftOut => current \in summary)
    BY <1>2, FirstOf1
  <1>5. CASE ExperienceArchivist
    <2>1. PICK trace \in {{"traces"}, {"fixed"}} :
            Asks("experience_archivist", summary \cup trace, "lessons")
      BY <1>5 DEF ExperienceArchivist
    <2> DEFINE prompt == summary \cup trace
    <2>2. Proper("experience_archivist", prompt)
      BY <1>3, <1>4, <2>1, RequestAssumption DEF Proper, Sources, Asks
    <2>3. Asks("experience_archivist", prompt, "lessons") /\ done' = done
      BY <1>5, <2>1 DEF ExperienceArchivist
    <2> HIDE DEF prompt
    <2> QED BY <2>2, <2>3, AsksIInv
  <1>6. CASE YamlArchitect
    <2> DEFINE prompt == summary \cup lessons
    <2>1. Asks("yaml_architect", prompt, "yaml_output") /\ Does("git_commit")
      BY <1>6 DEF YamlArchitect
    <2>2. Proper("yaml_architect", prompt)
      BY <1>3, <1>4, <2>1 DEF Proper, Asks
    <2>3. done' = done \/ ("yaml_architect" \in Actors /\ \E e \in Effects : Does(e))
      BY <2>1 DEF Actors, Effects
    <2> HIDE DEF prompt
    <2> QED BY <2>1, <2>2, <2>3, AsksIInv
  <1> QED BY <1>1, <1>5, <1>6

LEMMA TeamWorksIInv == ASSUME IInv, TeamWorks PROVE IInv'
  BY DocsIInv, ResearchIInv, TechnicalIInv, KnowledgeIInv DEF TeamWorks, RunAgent

-----------------------------------------------------------------------------
(* The manager's actions.                                                  *)

LEMMA LastAppended ==
    ASSUME NEW m \in Seq(Requests), NEW r \in Requests
    PROVE  Append(m, r) \in Seq(Requests) /\ Append(m, r) # <<>>
           /\ Append(m, r)[Len(Append(m, r))] = r
  OBVIOUS

\* A run begins with nothing asked and nothing done.
LEMMA NewRunBasics ==
    ASSUME IInv, NEW r \in Requests, NewRun(r)
    PROVE  /\ left = <<>>
           /\ begun' \subseteq Requests /\ current' = r
           /\ asked' = {} /\ silent' = FALSE /\ leftOut' = FALSE /\ done' \in [Effects -> Nat]
           /\ \A e \in Effects : done'[e] = 0
  BY DEF NewRun, IInv, TypeOK, Course

LEMMA CallAgentIInv ==
    ASSUME IInv, NEW r \in Requests, NEW name \in Called, CallAgent(r, name)
    PROVE  IInv'
  <1>1. /\ begun' \subseteq Requests /\ current' = r
        /\ asked' = {} /\ silent' = FALSE /\ leftOut' = FALSE /\ done' \in [Effects -> Nat]
        /\ \A e \in Effects : done'[e] = 0
    BY NewRunBasics DEF CallAgent
  <1>2. left' \in Lefts /\ left' # <<>>
    <2>1. CASE name \in TeamNames
      <3>1. left' = Pipeline[name]
        BY <2>1 DEF CallAgent
      <3> QED BY <2>1, <3>1 DEF Pipeline, TeamNames, Lefts, DocsLeft, ResearchLeft, TechnicalLeft,
                    KnowledgeLeft, DocsPipeline, ResearchPipeline, TechnicalPipeline,
                    KnowledgePipeline
    <2>2. CASE name \notin TeamNames
      <3>1. left' = <<name>> /\ name \in Agents
        BY <2>2, CalledAssumption DEF CallAgent
      <3> QED BY <3>1 DEF Lefts
    <2> QED BY <2>1, <2>2
  <1>3. /\ pc' = "team_execute" /\ byManager' = FALSE /\ wanted' = FALSE /\ replied' = FALSE
        /\ heard' = r /\ channel' = Unwritten /\ mgr' = mgr
    BY DEF CallAgent, NewRun
  <1>4. TypeOK'
    <2>1. channel' \in [Channels -> {None} \cup SUBSET Sources]
      BY <1>3 DEF Unwritten
    <2>2. (\E a \in Agents : left' = <<a>>) \/ left' = <<>> \/ IsSuffix(left')
      BY <1>2, LeftIsSuffix
    <2>3. /\ silent' \in BOOLEAN /\ leftOut' \in BOOLEAN /\ \A p \in asked' : p.prompt \subseteq Sources
          /\ heard' \in Requests \cup {None} /\ done' \in [Effects -> Nat]
      BY <1>1, <1>3
    <2>4. TeamTypeOK'
      BY <2>1, <2>2, <2>3 DEF TeamTypeOK, IsSuffix
    <2> QED BY <1>1, <1>3, <2>4 DEF TypeOK, IInv, Texts
  <1>5. Course'
    BY <1>1, <1>2, <1>3 DEF Course
  <1>6. ActsOnce' /\ AnswerAwaitsHuman'
    BY <1>1, <1>3 DEF ActsOnce, AnswerAwaitsHuman
  <1>7. Own'
    <2>1. \A c \in Channels : channel'[c] = None
      BY <1>3 DEF Unwritten
    <2> QED BY <1>1, <1>3, <2>1 DEF Own, OwnText
  <1>8. Keeps'
    BY <1>3 DEF Keeps, PromptsKeepRequest
  <1> QED BY <1>4, <1>5, <1>6, <1>7, <1>8 DEF IInv

LEMMA CallManagerIInv ==
    ASSUME IInv, NEW r \in Requests, CallManager(r)
    PROVE  IInv'
  <1>1. /\ begun' \subseteq Requests /\ current' = r
        /\ asked' = {} /\ silent' = FALSE /\ leftOut' = FALSE /\ done' \in [Effects -> Nat]
        /\ \A e \in Effects : done'[e] = 0
        /\ left' = <<>> /\ heard' = heard /\ channel' = channel
        /\ pc' = "guardrail" /\ byManager' = TRUE /\ replied' = FALSE
    BY NewRunBasics DEF CallManager, NewRun
  <1>2. PICK user \in BOOLEAN, spoken \in BOOLEAN, hitl \in BOOLEAN :
          /\ spoken \/ mgr.messages = <<>>
          /\ mgr' = [mgr EXCEPT !.user_id = user, !.hitl_required = hitl,
                                !.messages = IF spoken THEN Append(@, r) ELSE @,
                                !.current_team = None, !.plan = None,
                                !.team_output = None, !.final_response = None]
          /\ wanted' = hitl
    BY DEF CallManager
  <1>3. mgr.messages \in Seq(Requests)
    BY DEF IInv, TypeOK
  <1>4. /\ mgr'.messages = IF spoken THEN Append(mgr.messages, r) ELSE <<>>
        /\ mgr'.messages \in Seq(Requests)
        /\ mgr'.team_output = None /\ mgr'.final_response = None /\ mgr'.hitl_required = hitl
    BY <1>2, <1>3, LastAppended DEF IInv, TypeOK
  <1>5. TypeOK'
    <2>1. TeamTypeOK'
      BY <1>1 DEF TeamTypeOK, IInv, TypeOK
    <2>2. mgr' \in [user_id : BOOLEAN, messages : Seq(Requests),
                    current_team : TeamNames \cup {None}, plan : Texts, team_output : Texts,
                    final_response : Texts, hitl_required : BOOLEAN, hitl_feedback : BOOLEAN]
      <3>1. CASE spoken
        BY <1>2, <3>1, <1>3, LastAppended DEF IInv, TypeOK, Texts
      <3>2. CASE ~spoken
        BY <1>2, <3>2, <1>3 DEF IInv, TypeOK, Texts
      <3> QED BY <3>1, <3>2
    <2>3. wanted' \in BOOLEAN
      BY <1>2
    <2> QED BY <1>1, <2>1, <2>2, <2>3 DEF TypeOK
  <1>6. Course'
    <2>1. wanted' => mgr'.hitl_required
      BY <1>2, <1>4
    <2> QED BY <1>1, <2>1 DEF Course, Lefts, DocsLeft, BeforeTeam
  <1>7. ActsOnce' /\ AnswerAwaitsHuman'
    BY <1>1 DEF ActsOnce, AnswerAwaitsHuman
  <1>8. Own'
    <2>1. LastHuman' \subseteq {current'}
      BY <1>1, <1>3, <1>4, LastAppended DEF LastHuman
    <2> QED BY <1>1, <1>4, <2>1 DEF Own, OwnText
  <1>9. Keeps'
    BY <1>1 DEF Keeps, PromptsKeepRequest
  <1> QED BY <1>5, <1>6, <1>7, <1>8, <1>9 DEF IInv

LEMMA GuardrailIInv == ASSUME IInv, Guardrail PROVE IInv'
  <1>1. pc = "guardrail" /\ UNCHANGED teamVars /\ UNCHANGED <<begun, current, byManager, wanted, replied>>
    BY DEF Guardrail, Go
  <1>2. \/ /\ pc' = "idle"
           /\ mgr' = [mgr EXCEPT !.final_response = {"fixed"}, !.hitl_required = FALSE]
        \/ pc' = "idle" /\ mgr' = mgr
        \/ pc' = "intent_classifier" /\ mgr' = mgr /\ mgr.messages # <<>>
    BY DEF Guardrail, Go
  <1>3. /\ mgr'.messages = mgr.messages /\ mgr'.team_output = mgr.team_output
        /\ mgr'.final_response = mgr.final_response \/ mgr'.final_response = {"fixed"}
    BY <1>2 DEF IInv, TypeOK
  <1>4. TypeOK'
    <2>1. {"fixed"} \in Texts
      BY DEF Texts, Sources
    <2>2. TeamTypeOK'
      BY <1>1 DEF TeamTypeOK, IInv, TypeOK, teamVars
    <2> QED BY <1>1, <1>2, <2>1, <2>2 DEF IInv, TypeOK
  <1>5. Course'
    BY <1>1, <1>2 DEF IInv, Course, teamVars, BeforeTeam
  <1>6. ActsOnce' /\ AnswerAwaitsHuman'
    BY <1>1, <1>2 DEF ActsOnce, AnswerAwaitsHuman, teamVars, IInv
  <1>7. Own'
    BY <1>1, <1>2, <1>3, RequestAssumption DEF IInv, Own, OwnText, LastHuman, teamVars, Course,
       BeforeTeam
  <1>8. Keeps'
    BY <1>1, <1>2 DEF IInv, Keeps, PromptsKeepRequest, MustHold, teamVars
  <1> QED BY <1>4, <1>5, <1>6, <1>7, <1>8 DEF IInv

\* A model of the manager is asked with what is its request's own.
LEMMA ManagerAsksOwn ==
    ASSUME IInv, NEW n, NEW prompt, ManagerAsks(n, prompt),
           prompt \subseteq Sources, prompt \cap Requests \subseteq {current}, current' = current
    PROVE  TeamTypeOK' /\ \A p \in asked' : OwnText(p.prompt)'
  <1>1. \A p \in asked' : p \in asked \/ p.prompt = prompt
    BY DEF ManagerAsks
  <1>2. TeamTypeOK'
    BY <1>1 DEF ManagerAsks, IInv, TypeOK, TeamTypeOK
  <1>3. \A p \in asked' : OwnText(p.prompt)'
    BY <1>1 DEF IInv, Own, OwnText
  <1> QED BY <1>2, <1>3

\* After the guardrail the last message is the request.
LEMMA LastIsRequest ==
    ASSUME IInv, pc \in BeforeTeam \ {"guardrail"}
    PROVE  /\ byManager /\ current \in Requests /\ LastHuman = {current}
           /\ mgr.messages # <<>> /\ mgr.messages[Len(mgr.messages)] = current
           /\ left = <<>> /\ \A e \in Effects : done[e] = 0
  <1>1. byManager /\ current \in Requests /\ LastHuman = {current}
    BY DEF IInv, Course, Own, BeforeTeam
  <1> QED BY <1>1 DEF IInv, Course, LastHuman, BeforeTeam

LEMMA IntentClassifierIInv == ASSUME IInv, IntentClassifier PROVE IInv'
  <1>1. /\ ManagerAsks("intent_classifier", LastHuman)
        /\ pc = "intent_classifier" /\ pc' = "planner"
        /\ UNCHANGED <<begun, current, byManager, wanted, replied>>
    BY DEF IntentClassifier, Go
  <1>2. PICK team \in TeamNames : mgr' = [mgr EXCEPT !.current_team = team]
    BY DEF IntentClassifier, TeamNames
  <1>3. /\ byManager /\ current \in Requests /\ LastHuman = {current}
        /\ left = <<>> /\ \A e \in Effects : done[e] = 0
    BY <1>1, LastIsRequest DEF BeforeTeam
  <1>4. TeamTypeOK' /\ \A p \in asked' : OwnText(p.prompt)'
    BY <1>1, <1>3, ManagerAsksOwn DEF Sources
  <1>5. /\ mgr'.messages = mgr.messages /\ mgr'.hitl_required = mgr.hitl_required
        /\ mgr'.team_output = mgr.team_output /\ mgr'.final_response = mgr.final_response
    BY <1>2 DEF IInv, TypeOK
  <1>6. TypeOK'
    BY <1>1, <1>2, <1>4 DEF IInv, TypeOK
  <1>7. Course'
    BY <1>1, <1>2, <1>3, <1>5 DEF ManagerAsks, IInv, Course, BeforeTeam
  <1>8. ActsOnce' /\ AnswerAwaitsHuman'
    BY <1>1 DEF ManagerAsks, ActsOnce, AnswerAwaitsHuman, IInv
  <1>9. Own'
    BY <1>1, <1>3, <1>4, <1>5 DEF IInv, Own, OwnText, LastHuman
  <1>10. Keeps'
    BY <1>1, <1>3 DEF IInv, Keeps, PromptsKeepRequest, MustHold, Robust, ManagerAsks
  <1> QED BY <1>6, <1>7, <1>8, <1>9, <1>10 DEF IInv

LEMMA PlannerIInv == ASSUME IInv, Planner PROVE IInv'
  <1> DEFINE prompt == {"model"} \cup LastHuman
  <1>1. /\ ManagerAsks("planner", prompt)
        /\ pc = "planner" /\ pc' = "team"
        /\ UNCHANGED <<begun, current, byManager, wanted, replied>>
    BY DEF Planner, Go
  <1>2. PICK plan \in {{"fixed"}} \cup Answers(LastHuman) : mgr' = [mgr EXCEPT !.plan = plan]
    BY DEF Planner
  <1>3. /\ byManager /\ current \in Requests /\ LastHuman = {current}
        /\ left = <<>> /\ \A e \in Effects : done[e] = 0
    BY <1>1, LastIsRequest DEF BeforeTeam
  <1>4. prompt \subseteq Sources /\ prompt \cap Requests \subseteq {current} /\ current \in prompt
    BY <1>3, RequestAssumption DEF Sources
  <1> HIDE DEF prompt
  <1>5. TeamTypeOK' /\ \A p \in asked' : OwnText(p.prompt)'
    BY <1>1, <1>4, ManagerAsksOwn
  <1>6. /\ mgr'.messages = mgr.messages /\ mgr'.hitl_required = mgr.hitl_required
        /\ mgr'.team_output = mgr.team_output /\ mgr'.final_response = mgr.final_response
        /\ mgr'.current_team = mgr.current_team
    BY <1>2 DEF IInv, TypeOK
  <1>7. TypeOK'
    <2>1. plan \in Texts
      BY <1>3 DEF Texts, Sources, Answers
    <2> QED BY <1>1, <1>2, <1>5, <2>1 DEF IInv, TypeOK
  <1>8. Course'
    BY <1>1, <1>3, <1>6 DEF ManagerAsks, IInv, Course, BeforeTeam
  <1>9. ActsOnce' /\ AnswerAwaitsHuman'
    BY <1>1 DEF ManagerAsks, ActsOnce, AnswerAwaitsHuman, IInv
  <1>10. Own'
    BY <1>1, <1>3, <1>5, <1>6 DEF IInv, Own, OwnText, LastHuman
  <1>11. Keeps'
    BY <1>1, <1>4 DEF IInv, Keeps, PromptsKeepRequest, MustHold, Robust, ManagerAsks
  <1> QED BY <1>7, <1>8, <1>9, <1>10, <1>11 DEF IInv

LEMMA EnterTeamIInv == ASSUME IInv, EnterTeam PROVE IInv'
  <1>1. /\ pc = "team" /\ pc' = "team_execute" /\ mgr' = mgr
        /\ UNCHANGED <<begun, current, byManager, wanted, replied, asked, silent, leftOut, done>>
        /\ heard' = mgr.messages[Len(mgr.messages)] /\ left' = Pipeline[mgr.current_team]
    BY DEF EnterTeam, Go
  <1>2. /\ byManager /\ current \in Requests /\ LastHuman = {current} /\ heard' = current
        /\ \A e \in Effects : done[e] = 0
    BY <1>1, LastIsRequest DEF BeforeTeam
  <1>3. mgr.current_team \in TeamNames
    BY <1>1 DEF IInv, Course
  <1>4. /\ mgr.current_team = "docs" => left' \in DocsLeft /\ channel' = DocsChannels
              /\ left' \notin {<<"task_architect", "sync_manager">>, <<"sync_manager">>, <<>>}
        /\ mgr.current_team = "research" => left' \in ResearchLeft /\ channel' = ResearchChannels
              /\ left' # <<>>
        /\ mgr.current_team = "technical" => left' = TechnicalPipeline /\ channel' = Unwritten
        /\ mgr.current_team = "knowledge" => left' = KnowledgePipeline /\ channel' = Unwritten
    <2>1. CASE mgr.current_team = "docs"
      BY <1>1, <2>1, PipelineOf DEF EnterTeam, DocsLeft, DocsPipeline
    <2>2. CASE mgr.current_team = "research"
      BY <1>1, <2>2, PipelineOf DEF EnterTeam, ResearchLeft, ResearchPipeline
    <2>3. CASE mgr.current_team = "technical"
      BY <1>1, <2>3, PipelineOf DEF EnterTeam, TechnicalChannels
    <2>4. CASE mgr.current_team = "knowledge"
      BY <1>1, <2>4, PipelineOf DEF EnterTeam, KnowledgeChannels
    <2> QED BY <1>3, <2>1, <2>2, <2>3, <2>4 DEF TeamNames
  <1>5. left' \in Lefts /\ left' # <<>>
    BY <1>3, <1>4 DEF Lefts, TechnicalLeft, KnowledgeLeft, TeamNames, TechnicalPipeline,
       KnowledgePipeline, DocsLeft, ResearchLeft, DocsPipeline, ResearchPipeline
  <1>6. /\ channel' \in [Channels -> {None, {current}}]
        /\ mgr.current_team = "docs" => channel'["raw_input"] = {current}
        /\ mgr.current_team = "research" => channel'["query"] = {current}
    <2>1. {"raw_input", "query"} \subseteq Channels
      BY DEF Channels
    <2> QED BY <1>2, <1>3, <1>4, <2>1 DEF TeamNames, DocsChannels, ResearchChannels, Unwritten
  <1>7. {} # None /\ {current} \subseteq Sources
    BY <1>2, NoneAssumption DEF Sources
  <1>8. TypeOK'
    <2>1. channel' \in [Channels -> {None} \cup SUBSET Sources]
      BY <1>6, <1>7
    <2>2. (\E a \in Agents : left' = <<a>>) \/ left' = <<>> \/ IsSuffix(left')
      BY <1>5, LeftIsSuffix
    <2>3. TeamTypeOK'
      BY <1>1, <1>2, <2>1, <2>2 DEF TeamTypeOK, IsSuffix, IInv, TypeOK
    <2> QED BY <1>1, <2>3 DEF IInv, TypeOK
  <1>9. Course'
    BY <1>1, <1>2, <1>3, <1>5 DEF IInv, Course, BeforeTeam
  <1>10. ActsOnce' /\ AnswerAwaitsHuman'
    BY <1>1 DEF ActsOnce, AnswerAwaitsHuman, IInv
  <1>11. Own'
    BY <1>1, <1>2, <1>6 DEF IInv, Own, OwnText, LastHuman
  <1>12. Keeps'
    <2>1. PromptsKeepRequest'
      BY <1>1 DEF IInv, Keeps, PromptsKeepRequest, MustHold
    <2>2. OnCourse'
      BY <1>1, <1>4, <1>6 DEF OnCourse, TechnicalLeft, KnowledgeLeft
    <2>3. \A c \in Channels : channel'[c] # {}
      BY <1>6, <1>7
    <2>4. \A c \in Carrying : channel'[c] = None \/ current \in channel'[c]
      BY <1>6 DEF Carrying, Channels
    <2>5. TeamKeeps'
      BY <1>1, <2>2, <2>3, <2>4 DEF TeamKeeps
    <2> QED BY <1>1, <2>1, <2>5 DEF Keeps
  <1> QED BY <1>8, <1>9, <1>10, <1>11, <1>12 DEF IInv

\* The team's output is the request's own and, unless a model was silent
\* or left it out, holds it.
LEMMA ComposedKeeps ==
    ASSUME IInv, pc = "team_execute", left = <<>>, byManager
    PROVE  LET output == Composed(mgr.current_team)
           IN  /\ output \subseteq Sources /\ output # None /\ output \cap Requests \subseteq {current}
               /\ ~silent /\ ~leftOut => current \in output
  <1> DEFINE team == mgr.current_team
             said == UNION {FirstOf(<<c>>, {}) : c \in Parts[team]}
             output == Composed(team)
  <1>1. team \in TeamNames
    BY DEF IInv, Course
  <1>2. Parts[team] \subseteq Channels
    BY <1>1 DEF TeamNames, Parts, Channels
  <1>3. \A c \in Channels : FirstOf(<<c>>, {}) \subseteq Sources
                            /\ FirstOf(<<c>>, {}) \cap Requests \subseteq {current}
    <2>1. {} \subseteq {"fixed"}
      OBVIOUS
    <2> QED BY <2>1, ReadsOwn
  <1>4. said \subseteq Sources /\ said \cap Requests \subseteq {current}
    BY <1>2, <1>3
  <1>5. output = IF said = {} THEN {"fixed"} ELSE said
    BY DEF Composed
  <1>6. output \subseteq Sources /\ output \cap Requests \subseteq {current}
    BY <1>4, <1>5, RequestAssumption DEF Sources
  <1>7. ASSUME ~silent, ~leftOut PROVE current \in said
    <2>1. OnCourse
      BY DEF IInv, Keeps, TeamKeeps
    <2>2. \E c \in Parts[team] \cap Carrying : channel[c] # None
      <3>1. left # TechnicalPipeline /\ left # KnowledgePipeline
        BY DEF TechnicalPipeline, KnowledgePipeline
      <3>2. CASE team = "docs"
        BY <2>1, <3>2 DEF OnCourse, Parts, Carrying
      <3>3. CASE team = "research"
        BY <2>1, <3>3 DEF OnCourse, Parts, Carrying
      <3>4. CASE team = "technical"
        BY <2>1, <3>1, <3>4 DEF OnCourse, Parts, Carrying
      <3>5. CASE team = "knowledge"
        BY <2>1, <3>1, <3>5 DEF OnCourse, Parts, Carrying
      <3> QED BY <1>1, <3>2, <3>3, <3>4, <3>5 DEF TeamNames
    <2>3. PICK c \in Parts[team] : Held(c) /\ current \in channel[c]
      BY <1>7, <2>2, ReadsRequest
    <2>4. FirstOf(<<c>>, {}) = channel[c]
      BY <2>3, FirstOf1
    <2> QED BY <2>3, <2>4
  <1>8. output # None
    BY <1>6, NoneAssumption
  <1>9. ~silent /\ ~leftOut => current \in output
    BY <1>5, <1>7
  <1> HIDE DEF output
  <1> QED BY <1>6, <1>8, <1>9 DEF output

LEMMA LeaveTeamIInv == ASSUME IInv, LeaveTeam PROVE IInv'
  <1> DEFINE output == Composed(mgr.current_team)
  <1>1. /\ pc = "team_execute" /\ left = <<>> /\ byManager /\ UNCHANGED teamVars
        /\ UNCHANGED <<begun, current, byManager, wanted, replied>>
        /\ mgr' = [mgr EXCEPT !.team_output = output]
        /\ pc' = IF mgr.hitl_required THEN "hitl" ELSE "validator"
    BY DEF LeaveTeam, Go
  <1>2. /\ output \subseteq Sources /\ output # None /\ output \cap Requests \subseteq {current}
        /\ ~silent /\ ~leftOut => current \in output
    BY <1>1, ComposedKeeps
  <1> HIDE DEF output
  <1>3. /\ mgr'.messages = mgr.messages /\ mgr'.team_output = output
        /\ mgr'.final_response = mgr.final_response
    BY <1>1 DEF IInv, TypeOK
  <1>4. pc' \in {"hitl", "validator"} /\ (pc' = "validator" => ~mgr.hitl_required)
    BY <1>1
  <1>5. current \in Requests /\ (wanted => mgr.hitl_required) /\ left \in Lefts
    BY <1>1 DEF IInv, Course
  <1>6. TypeOK'
    <2>1. output \in Texts
      BY <1>2 DEF Texts
    <2>2. TeamTypeOK'
      BY <1>1 DEF IInv, TypeOK, TeamTypeOK, teamVars
    <2> QED BY <1>1, <1>4, <2>1, <2>2 DEF IInv, TypeOK
  <1>7. Course'
    BY <1>1, <1>4, <1>5 DEF Course, teamVars, BeforeTeam
  <1>8. ActsOnce' /\ AnswerAwaitsHuman'
    BY <1>1, <1>4, <1>5 DEF ActsOnce, AnswerAwaitsHuman, IInv, teamVars
  <1>9. Own'
    BY <1>1, <1>2, <1>3, <1>4 DEF IInv, Own, OwnText, LastHuman, teamVars, BeforeTeam
  <1>10. Keeps'
    BY <1>1, <1>2, <1>3, <1>4 DEF IInv, Keeps, PromptsKeepRequest, MustHold, teamVars
  <1> QED BY <1>6, <1>7, <1>8, <1>9, <1>10 DEF IInv

\* A step that only moves the run on, or ends it.
Moves(node) ==
    /\ pc' = node /\ mgr' = mgr /\ UNCHANGED teamVars
    /\ UNCHANGED <<begun, current, byManager, wanted, replied>>

LEMMA MovesIInv ==
    ASSUME IInv, \/ Moves("idle") /\ left = <<>>
                 \/ Moves("paused") /\ pc = "hitl"
    PROVE  IInv'
  <1> USE DEF Moves
  <1>1. TypeOK'
    BY DEF IInv, TypeOK, TeamTypeOK, teamVars
  <1>2. Course'
    BY DEF IInv, Course, teamVars, BeforeTeam
  <1>3. ActsOnce' /\ AnswerAwaitsHuman'
    BY DEF ActsOnce, AnswerAwaitsHuman, IInv, teamVars
  <1>4. Own'
    BY DEF IInv, Own, OwnText, LastHuman, teamVars, BeforeTeam
  <1>5. Keeps'
    BY DEF IInv, Keeps, PromptsKeepRequest, MustHold, teamVars
  <1> QED BY <1>1, <1>2, <1>3, <1>4, <1>5 DEF IInv

LEMMA LeaveAgentIInv == ASSUME IInv, LeaveAgent PROVE IInv'
  BY MovesIInv DEF LeaveAgent, Moves, Go

LEMMA HitlIInv == ASSUME IInv, Hitl PROVE IInv'
  BY MovesIInv DEF Hitl, Moves, Go

LEMMA ResumeIInv == ASSUME IInv, Resume PROVE IInv'
  <1>1. /\ pc = "paused" /\ pc' = "validator" /\ replied' = TRUE /\ UNCHANGED teamVars
        /\ UNCHANGED <<begun, current, byManager, wanted>>
        /\ mgr' = [mgr EXCEPT !.hitl_feedback = TRUE, !.hitl_required = FALSE]
    BY DEF Resume, Reply
  <1>2. /\ mgr'.messages = mgr.messages /\ mgr'.team_output = mgr.team_output
        /\ mgr'.final_response = mgr.final_response
    BY <1>1 DEF IInv, TypeOK
  <1>3. TypeOK'
    <2>1. TeamTypeOK'
      BY <1>1 DEF IInv, TypeOK, TeamTypeOK, teamVars
    <2> QED BY <1>1, <2>1 DEF IInv, TypeOK
  <1>4. Course'
    BY <1>1 DEF IInv, Course, teamVars, BeforeTeam
  <1>5. ActsOnce' /\ AnswerAwaitsHuman'
    BY <1>1 DEF ActsOnce, AnswerAwaitsHuman, IInv, teamVars
  <1>6. Own'
    BY <1>1, <1>2 DEF IInv, Own, OwnText, LastHuman, teamVars, BeforeTeam
  <1>7. Keeps'
    BY <1>1, <1>2 DEF IInv, Keeps, PromptsKeepRequest, MustHold, teamVars
  <1> QED BY <1>3, <1>4, <1>5, <1>6, <1>7 DEF IInv

LEMMA ValidatorIInv == ASSUME IInv, Validator PROVE IInv'
  <1> DEFINE output == Or(mgr.team_output, {})
  <1>1. /\ pc = "validator" /\ pc' = "idle" /\ ManagerAsks("validator", output)
        /\ UNCHANGED <<begun, current, byManager, wanted, replied>>
    BY DEF Validator, Go
  <1>2. PICK answer \in Answers(output) :
          mgr' = [mgr EXCEPT !.final_response = Or(answer, output)]
    BY DEF Validator
  <1>3. /\ mgr.team_output \in SUBSET Sources /\ OwnText(mgr.team_output) /\ left = <<>>
        /\ mgr.team_output # None /\ (~silent /\ ~leftOut => current \in mgr.team_output)
    BY <1>1 DEF IInv, TypeOK, Texts, Course, Own, Keeps
  <1>4. /\ output \subseteq Sources /\ output \cap Requests \subseteq {current}
        /\ ~silent /\ ~leftOut => current \in output
    BY <1>3 DEF Or, OwnText
  <1>5. Or(answer, output) \subseteq Sources /\ Or(answer, output) \cap Requests \subseteq {current}
    BY <1>2, <1>4, AnswersOwn DEF Or
  <1> HIDE DEF output
  <1>6. TeamTypeOK' /\ \A p \in asked' : OwnText(p.prompt)'
    BY <1>1, <1>4, ManagerAsksOwn
  <1>7. /\ mgr'.messages = mgr.messages /\ mgr'.team_output = mgr.team_output
        /\ mgr'.final_response = Or(answer, output)
    BY <1>2 DEF IInv, TypeOK
  <1>8. TypeOK'
    <2>1. Or(answer, output) \in Texts
      BY <1>5 DEF Texts
    <2> QED BY <1>1, <1>2, <1>6, <2>1 DEF IInv, TypeOK
  <1>9. Course'
    BY <1>1, <1>3 DEF ManagerAsks, IInv, Course, BeforeTeam
  <1>10. ActsOnce' /\ AnswerAwaitsHuman'
    BY <1>1 DEF ManagerAsks, ActsOnce, AnswerAwaitsHuman, IInv
  <1>11. Own'
    BY <1>1, <1>5, <1>6, <1>7 DEF IInv, Own, OwnText, LastHuman, BeforeTeam
  <1>12. Keeps'
    BY <1>1, <1>4 DEF IInv, Keeps, PromptsKeepRequest, ManagerAsks, MustHold, Robust, Recovering
  <1> QED BY <1>8, <1>9, <1>10, <1>11, <1>12 DEF IInv

\* The effects a node had before it raised are had once.
LEMMA FailIInv == ASSUME IInv, Fail PROVE IInv'
  <1>1. CASE pc \in {"intent_classifier", "planner", "validator"} /\ UNCHANGED teamVars
    <2>1. left = <<>>
      BY <1>1 DEF IInv, Course
    <2>2. Moves("idle")
      BY <1>1 DEF Fail, Moves, Go
    <2> QED BY <2>1, <2>2, MovesIInv
  <1>2. CASE pc = "team_execute" /\ AgentRaises
    <2>1. /\ pc' = "idle" /\ mgr' = mgr /\ left # <<>> /\ left' = <<>>
          /\ UNCHANGED <<begun, current, byManager, wanted, replied, heard, channel, asked, silent, leftOut>>
          /\ done' = done \/ \E e \in Effects : Does(e)
      BY <1>2 DEF Fail, Go, AgentRaises, Effects
    <2>2. done \in [Effects -> Nat] /\ \A e \in Effects : done[e] = 0
      BY <2>1 DEF IInv, TypeOK, TeamTypeOK, Course
    <2>3. done' \in [Effects -> Nat] /\ \A e \in Effects : done'[e] <= 1
      BY <2>1, <2>2 DEF Does
    <2>4. TypeOK'
      <3>1. TeamTypeOK'
        BY <2>1, <2>3 DEF IInv, TypeOK, TeamTypeOK
      <3> QED BY <2>1, <3>1 DEF IInv, TypeOK
    <2>5. Course'
      BY <2>1 DEF IInv, Course, BeforeTeam, Lefts, DocsLeft
    <2>6. ActsOnce' /\ AnswerAwaitsHuman'
      BY <2>1, <2>3 DEF ActsOnce, AnswerAwaitsHuman
    <2>7. Own'
      BY <2>1 DEF IInv, Own, OwnText, LastHuman, BeforeTeam
    <2>8. Keeps'
      BY <2>1 DEF IInv, Keeps, PromptsKeepRequest, MustHold
    <2> QED BY <2>4, <2>5, <2>6, <2>7, <2>8 DEF IInv
  <1> QED BY <1>1, <1>2 DEF Fail
-----------------------------------------------------------------------------
LEMMA InitIInv == Init => IInv
  <1> SUFFICES ASSUME Init PROVE IInv
    OBVIOUS
  <1> USE DEF Init, TeamInit
  <1>1. TypeOK
    <2>1. TeamTypeOK
      BY DEF TeamTypeOK, Unwritten
    <2>2. mgr \in [user_id : BOOLEAN, messages : Seq(Requests),
                   current_team : TeamNames \cup {None}, plan : Texts, team_output : Texts,
                   final_response : Texts, hitl_required : BOOLEAN, hitl_feedback : BOOLEAN]
      BY DEF Texts
    <2> QED BY <2>1, <2>2 DEF TypeOK
  <1>2. Course
    BY DEF Course, Lefts, DocsLeft, BeforeTeam
  <1>3. ActsOnce /\ AnswerAwaitsHuman
    BY DEF ActsOnce, AnswerAwaitsHuman
  <1>4. Own /\ Keeps
    BY DEF Own, Keeps, PromptsKeepRequest
  <1> QED BY <1>1, <1>2, <1>3, <1>4 DEF IInv

LEMMA StutterIInv == ASSUME IInv, UNCHANGED vars PROVE IInv'
  <1> USE DEF vars, teamVars, mgrVars
  <1>1. TypeOK'
    BY DEF IInv, TypeOK, TeamTypeOK
  <1>2. Course'
    BY DEF IInv, Course
  <1>3. ActsOnce' /\ AnswerAwaitsHuman'
    BY DEF ActsOnce, AnswerAwaitsHuman, IInv
  <1>4. Own'
    BY DEF IInv, Own, OwnText, LastHuman
  <1>5. Keeps'
    BY DEF IInv, Keeps, PromptsKeepRequest, MustHold, TeamKeeps, OnCourse
  <1> QED BY <1>1, <1>2, <1>3, <1>4, <1>5 DEF IInv

LEMMA NextIInv == IInv /\ [Next]_vars => IInv'
  BY CallAgentIInv, CallManagerIInv, GuardrailIInv, IntentClassifierIInv, PlannerIInv,
     EnterTeamIInv, TeamWorksIInv, LeaveTeamIInv, LeaveAgentIInv, HitlIInv, ResumeIInv,
     ValidatorIInv, FailIInv, StutterIInv
  DEF Next

LEMMA Invariance == Spec => []IInv
  BY InitIInv, NextIInv, PTL DEF Spec

\* The channels have their types, and what is left of a pipeline is a suffix
\* of it, whatever agents and teams are run (state.py, teams/*/graph.py).
THEOREM TypeCorrect == Spec => []TypeOK
  <1>1. IInv => TypeOK
    BY DEF IInv
  <1> QED BY <1>1, Invariance, PTL

\* Every prompt of a manager's run holds the request of that run, in the
\* robust nodes whatever the models answered, in those that fall back unless
\* a model left the request out of its answer, in the others unless a model
\* did so or was silent.
THEOREM PromptsKeepRequestCorrect == Spec => []PromptsKeepRequest
  <1>1. IInv => PromptsKeepRequest
    BY DEF IInv, Keeps
  <1> QED BY <1>1, Invariance, PTL

\* No prompt and no answer holds another request, of however many that the
\* thread has had.
THEOREM OwnRequestOnlyCorrect == Spec => []OwnRequestOnly
  <1>1. IInv => OwnRequestOnly
    <2> SUFFICES ASSUME IInv PROVE OwnRequestOnly
      OBVIOUS
    <2>1. ASSUME NEW p \in asked PROVE p.prompt \cap Requests \subseteq {current}
      <3>1. p.prompt # None
        BY NoneAssumption DEF IInv, TypeOK, TeamTypeOK
      <3> QED BY <3>1 DEF IInv, Own, OwnText
    <2>2. byManager /\ mgr.final_response # None =>
            mgr.final_response \cap Requests \subseteq {current}
      BY DEF IInv, Own, OwnText
    <2> QED BY <2>1, <2>2 DEF OwnRequestOnly
  <1> QED BY <1>1, Invariance, PTL

\* No run creates its tasks, runs its code or commits its file twice, with
\* or without a pause for approval.
THEOREM ActsOnceCorrect == Spec => []ActsOnce
  <1>1. IInv => ActsOnce
    BY DEF IInv
  <1> QED BY <1>1, Invariance, PTL

\* What was to be approved reaches the validator after a reply only.
THEOREM AnswerAwaitsHumanCorrect == Spec => []AnswerAwaitsHuman
  <1>1. IInv => AnswerAwaitsHuman
    BY DEF IInv
  <1> QED BY <1>1, Invariance, PTL
=============================================================================
