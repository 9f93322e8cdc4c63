-------------------------- MODULE ChatStreamProofs --------------------------
(***************************************************************************)
(* Proofs about ChatStream for any number of users, threads, requests and  *)
(* agents, any limits and any set of faults.  Each action changes the      *)
(* local state of one request, or of all those a crash ends, so types and  *)
(* RunShape are proved request by request (LocalStep); RunningHasOwner     *)
(* relates the threads table to the requests and comes after.  What a run  *)
(* has said, been billed and written (ToldShape) is proved the same way;   *)
(* from it follow what becomes of an answer when its run goes wrong, and   *)
(* the refinement of AnswerContract.                                       *)
(***************************************************************************)
EXTENDS ChatRefinement, TLAPS

LEMMA DefaultAgent == (CHOOSE a \in KnownAgents : TRUE) \in Agents
  BY AgentAssumption

LEMMA DefaultUser == (CHOOSE u \in Users : TRUE) \in Users
  BY CallerAssumption

\* Members of the sets the fields of a run range over, so that the proofs
\* of types need not expand those sets.
LEMMA Names ==
  /\ "idle" \in PC /\ "closed" \in PC /\ "create" \in PC /\ "created" \in PC
  /\ "open" \in PC /\ "get" \in PC /\ "commit" \in PC /\ "refresh" \in PC
  /\ "stream" \in PC /\ "record" \in PC /\ "recorded" \in PC
  /\ "done" \in PC /\ "fail" \in PC
  /\ "running" \in Target /\ "awaiting_approval" \in Target
  /\ "completed" \in Target /\ "error" \in Target
  /\ NoTxn \in Snapshot /\ \A s \in Status : s \in Snapshot
  /\ \A s \in Target : s \in Status /\ s \in Live
  /\ "none" \in Status /\ "deleted" \in Status /\ "active" \in Status
  /\ "awaiting_approval" \in Events /\ "done" \in Events /\ "error" \in Events
  /\ "running" \notin Final /\ Target = {"running"} \cup Final
  BY DEF PC, Handler, Streaming, Update, Target, Final, Status, Live,
     Snapshot, NoTxn, Events

LEMMA LocalStep ==
  ASSUME TypeOK, RunShape, NEW r \in Runs, NEW x \in Run, RunOK(x),
         run' = [run EXCEPT ![r] = x]
  PROVE  run' \in [Runs -> Run] /\ RunShape'
<1>1. run' \in [Runs -> Run]
  BY DEF TypeOK
<1>2. \A q \in Runs : run'[q] = IF q = r THEN x ELSE run[q]
  BY DEF TypeOK
<1>3. ASSUME NEW q \in Runs PROVE RunOK(run'[q])
  BY <1>2 DEF RunShape
<1>4. RunShape'
  BY <1>3 DEF RunShape
<1>5. QED
  BY <1>1, <1>4

LEMMA ChatLocal ==
  ASSUME TypeOK, RunShape, NEW r \in Runs, NEW t \in Threads, NEW a \in Agents, Chat(r, t, a)
  PROVE  TypeOK' /\ RunShape'
<1> DEFINE x == [run[r] EXCEPT !.pc = "open", !.thread = t,
                               !.agent = a, !.snap = status[t]]
<1>1. run[r] \in Run /\ RunOK(run[r])
  BY DEF TypeOK, RunShape
<1>a. status[t] \in Snapshot
  BY Names DEF TypeOK
<1>2. x \in Run
  BY <1>1, <1>a, Names DEF Run, Chat
<1>3. RunOK(x)
  BY <1>1 DEF RunOK, Run, Begun, Chat
<1>4. run' = [run EXCEPT ![r] = x]
  BY <1>1 DEF Chat, TypeOK, Run
<1>5. QED
  BY LocalStep, <1>2, <1>3, <1>4 DEF TypeOK, Chat

LEMMA ChatNewThreadLocal ==
  ASSUME TypeOK, RunShape, NEW r \in Runs, NEW a \in Agents, ChatNewThread(r, a)
  PROVE  TypeOK' /\ RunShape'
<1> DEFINE x == [run[r] EXCEPT !.pc = "create", !.agent = a]
<1>1. run[r] \in Run /\ RunOK(run[r])
  BY DEF TypeOK, RunShape
<1>2. x \in Run
  BY <1>1, Names DEF Run, ChatNewThread
<1>3. RunOK(x)
  BY <1>1 DEF RunOK, Run, Begun, ChatNewThread
<1>4. run' = [run EXCEPT ![r] = x]
  BY <1>1 DEF ChatNewThread, TypeOK, Run
<1>5. QED
  BY LocalStep, <1>2, <1>3, <1>4 DEF TypeOK, ChatNewThread

LEMMA ChatRefusedLocal ==
  ASSUME TypeOK, RunShape, NEW r \in Runs, ChatRefused(r)
  PROVE  TypeOK' /\ RunShape'
<1> DEFINE x == [run[r] EXCEPT !.pc = "closed"]
<1>1. run[r] \in Run /\ RunOK(run[r])
  BY DEF TypeOK, RunShape
<1>2. x \in Run
  BY <1>1, Names DEF Run, ChatRefused
<1>3. RunOK(x)
  BY <1>1 DEF RunOK, Run, Begun, ChatRefused
<1>4. run' = [run EXCEPT ![r] = x]
  BY <1>1 DEF ChatRefused, TypeOK, Run
<1>5. QED
  BY LocalStep, <1>2, <1>3, <1>4 DEF TypeOK, ChatRefused

LEMMA InsertThreadType ==
  ASSUME TypeOK, NEW r \in Runs, NEW t \in Threads, InsertThread(r, t)
  PROVE  /\ status' \in [Threads -> Status]
         /\ owner' \in [Threads -> Users]
         /\ agentName' \in [Threads -> Agents]
<1>1. Caller[r] \in Users
  BY CallerAssumption
<1>2. run[r].agent \in Agents
  BY DEF TypeOK, Run
<1>3. QED
  BY <1>1, <1>2, Names DEF TypeOK, InsertThread

LEMMA CreateCommitLocal ==
  ASSUME TypeOK, RunShape, NEW r \in Runs, NEW t \in Threads, CreateCommit(r, t)
  PROVE  TypeOK' /\ RunShape'
<1> DEFINE x == [run[r] EXCEPT !.pc = "created", !.thread = t]
<1>1. run[r] \in Run /\ RunOK(run[r])
  BY DEF TypeOK, RunShape
<1>2. x \in Run
  BY <1>1, Names DEF Run, CreateCommit
<1>3. RunOK(x)
  BY <1>1 DEF RunOK, Run, Begun, CreateCommit
<1>4. run' = [run EXCEPT ![r] = x]
  BY <1>1 DEF CreateCommit, TypeOK, Run
<1>5. QED
  BY LocalStep, <1>2, <1>3, <1>4, InsertThreadType DEF TypeOK, CreateCommit, InsertThread

LEMMA CreateRefreshLocal ==
  ASSUME TypeOK, RunShape, NEW r \in Runs, CreateRefresh(r)
  PROVE  TypeOK' /\ RunShape'
<1> DEFINE x == [run[r] EXCEPT
         !.pc = IF status[run[r].thread] \in Live THEN "open" ELSE "closed",
         !.snap = status[run[r].thread]]
<1>1. run[r] \in Run /\ RunOK(run[r])
  BY DEF TypeOK, RunShape
<1>a. run[r].thread \in Threads
  BY <1>1 DEF RunOK, CreateRefresh, Update
<1>b. status[run[r].thread] \in Snapshot
  BY <1>a, Names DEF TypeOK
<1>2. x \in Run
  BY <1>1, <1>b, Names DEF Run, CreateRefresh
<1>3. RunOK(x)
  BY <1>1 DEF RunOK, Run, Begun, CreateRefresh
<1>4. run' = [run EXCEPT ![r] = x]
  BY <1>1 DEF CreateRefresh, TypeOK, Run
<1>5. QED
  BY LocalStep, <1>2, <1>3, <1>4 DEF TypeOK, CreateRefresh

LEMMA ResumeChatLocal ==
  ASSUME TypeOK, RunShape, NEW r \in Runs, NEW t \in Threads, ResumeChat(r, t)
  PROVE  TypeOK' /\ RunShape'
<1> DEFINE x == [run[r] EXCEPT !.pc = "open", !.thread = t,
                          !.kind = "resume", !.agent = agentName[t],
                          !.snap = status[t]]
<1>1. run[r] \in Run /\ RunOK(run[r])
  BY DEF TypeOK, RunShape
<1>a. status[t] \in Snapshot
  BY Names DEF TypeOK
<1>b. agentName[t] \in Agents
  BY DEF TypeOK
<1>2. x \in Run
  BY <1>1, <1>a, <1>b, Names DEF Run, ResumeChat
<1>3. RunOK(x)
  BY <1>1 DEF RunOK, Run, Begun, ResumeChat
<1>4. run' = [run EXCEPT ![r] = x]
  BY <1>1 DEF ResumeChat, TypeOK, Run
<1>5. QED
  BY LocalStep, <1>2, <1>3, <1>4 DEF TypeOK, ResumeChat

LEMMA ResumeRefusedLocal ==
  ASSUME TypeOK, RunShape, NEW r \in Runs, ResumeRefused(r)
  PROVE  TypeOK' /\ RunShape'
<1> DEFINE x == [run[r] EXCEPT !.pc = "closed", !.kind = "resume"]
<1>1. run[r] \in Run /\ RunOK(run[r])
  BY DEF TypeOK, RunShape
<1>2. x \in Run
  BY <1>1, Names DEF Run, ResumeRefused
<1>3. RunOK(x)
  BY <1>1 DEF RunOK, Run, Begun, ResumeRefused
<1>4. run' = [run EXCEPT ![r] = x]
  BY <1>1 DEF ResumeRefused, TypeOK, Run
<1>5. QED
  BY LocalStep, <1>2, <1>3, <1>4 DEF TypeOK, ResumeRefused

LEMMA StartStreamLocal ==
  ASSUME TypeOK, RunShape, NEW r \in Runs, StartStream(r)
  PROVE  TypeOK' /\ RunShape'
<1>1. run[r] \in Run /\ RunOK(run[r])
  BY DEF TypeOK, RunShape
<1>2. PICK s \in {run[r].snap, NoTxn} :
        run' = IF run[r].agent \in KnownAgents
               THEN [run EXCEPT ![r].pc = "get", ![r].snap = s]
               ELSE [run EXCEPT ![r].pc = "closed", ![r].snap = s,
                                ![r].sent = @ \cup {"error"}]
  BY DEF StartStream
<1>3. s \in Snapshot
  BY <1>1, Names DEF Run
<1>4. CASE run[r].agent \in KnownAgents
  <2> DEFINE x == [run[r] EXCEPT !.pc = "get", !.snap = s]
  <2>1. x \in Run
    BY <1>1, <1>3, Names DEF Run
  <2>2. RunOK(x)
    BY <1>1 DEF RunOK, Run, Begun, StartStream
  <2>3. run' = [run EXCEPT ![r] = x]
    BY <1>1, <1>2, <1>4 DEF TypeOK, Run
  <2>4. QED
    BY LocalStep, <2>1, <2>2, <2>3 DEF TypeOK, StartStream
<1>5. CASE run[r].agent \notin KnownAgents
  <2> DEFINE x == [run[r] EXCEPT !.pc = "closed", !.snap = s,
                                 !.sent = @ \cup {"error"}]
  <2>1. x \in Run
    BY <1>1, <1>3, Names DEF Run
  <2>2. RunOK(x)
    BY <1>1 DEF RunOK, Run, Begun, StartStream
  <2>3. run' = [run EXCEPT ![r] = x]
    BY <1>1, <1>2, <1>5 DEF TypeOK, Run
  <2>4. QED
    BY LocalStep, <2>1, <2>2, <2>3 DEF TypeOK, StartStream
<1>6. QED
  BY <1>4, <1>5

\* What an exception inside the try block or its except branch makes of a
\* run, and what the end of update_status makes of one.
LEMMA RaisedLocal ==
  ASSUME TypeOK, RunShape, NEW r \in Runs, NEW b \in BOOLEAN,
         run[r].pc \in Update \cup {"stream", "record", "recorded"}
  PROVE  Raised(r, b) \in Run /\ RunOK(Raised(r, b))
<1>1. run[r] \in Run /\ RunOK(run[r])
  BY DEF TypeOK, RunShape
<1>2. Raised(r, b) \in Run
  BY <1>1, Names DEF Raised, Run
<1>3. RunOK(Raised(r, b))
  BY <1>1 DEF RunOK, Run, Begun, Raised, Update
<1>4. QED
  BY <1>2, <1>3

LEMMA DbRaisedLocal ==
  ASSUME TypeOK, RunShape, NEW r \in Runs, NEW b \in BOOLEAN,
         run[r].pc \in Update \cup {"record", "recorded"}
  PROVE  DbRaised(r, b) \in Run /\ RunOK(DbRaised(r, b))
<1>1. Raised(r, b) \in Run /\ RunOK(Raised(r, b))
  BY RaisedLocal
<1>2. DbRaised(r, b) \in Run
  BY <1>1 DEF DbRaised, Run
<1>3. RunOK(DbRaised(r, b))
  BY <1>1 DEF DbRaised, RunOK, Run
<1>4. QED
  BY <1>2, <1>3

LEMMA RaisedSnapLocal ==
  ASSUME TypeOK, RunShape, NEW r \in Runs, NEW s \in Snapshot,
         run[r].pc \in {"refresh", "recorded"}
  PROVE  LET x == [Raised(r, FALSE) EXCEPT !.snap = s] IN x \in Run /\ RunOK(x)
<1> DEFINE x == [Raised(r, FALSE) EXCEPT !.snap = s]
<1>1. Raised(r, FALSE) \in Run /\ RunOK(Raised(r, FALSE))
  BY RaisedLocal DEF Update
<1>2. Raised(r, FALSE).pc # "commit"
  BY DEF Raised, TypeOK, Run
<1>3. x \in Run
  BY <1>1 DEF Run
<1>4. RunOK(x)
  BY <1>1, <1>2 DEF RunOK, Run
<1>5. QED
  BY <1>3, <1>4

LEMMA ReturnedLocal ==
  ASSUME TypeOK, RunShape, NEW r \in Runs, NEW s \in Snapshot,
         run[r].pc \in Update, ~run[r].poisoned
  PROVE  LET x == Returned([run[r] EXCEPT !.snap = s]) IN x \in Run /\ RunOK(x)
<1> DEFINE x == Returned([run[r] EXCEPT !.snap = s])
<1>1. run[r] \in Run /\ RunOK(run[r])
  BY DEF TypeOK, RunShape
<1>2. x \in Run
  BY <1>1, Names DEF Returned, Run
<1>3. RunOK(x)
  BY <1>1 DEF RunOK, Run, Begun, Returned, Update
<1>4. QED
  BY <1>2, <1>3

LEMMA UpdateGetLocal ==
  ASSUME TypeOK, RunShape, NEW r \in Runs, UpdateGet(r)
  PROVE  TypeOK' /\ RunShape'
<1> DEFINE seen == IF run[r].snap = NoTxn THEN status[run[r].thread] ELSE run[r].snap
           x == run'[r]
<1>1. run[r] \in Run /\ RunOK(run[r]) /\ run[r].pc = "get"
  BY DEF TypeOK, RunShape, UpdateGet
<1>2. run[r].thread \in Threads
  BY <1>1 DEF RunOK
<1>3. seen \in Snapshot
  BY <1>1, <1>2, Names DEF TypeOK, Run
<1>4. x = IF run[r].poisoned THEN Raised(r, TRUE)
          ELSE IF seen \in Live THEN [run[r] EXCEPT !.snap = seen, !.pc = "commit"]
          ELSE Returned([run[r] EXCEPT !.snap = seen])
  BY <1>1 DEF UpdateGet, TypeOK, Run
<1>5. x \in Run /\ RunOK(x)
  <2>1. CASE run[r].poisoned
    BY <2>1, <1>1, <1>4, RaisedLocal DEF Update
  <2>2. CASE ~run[r].poisoned /\ seen \in Live
    <3>1. seen # NoTxn
      BY <2>2 DEF Live, Final, NoTxn
    <3>2. x = [run[r] EXCEPT !.snap = seen, !.pc = "commit"]
      BY <2>2, <1>4
    <3>3. x \in Run
      BY <3>2, <1>1, <1>3, Names DEF Run
    <3>4. RunOK(x)
      BY <3>1, <3>2, <2>2, <1>1 DEF RunOK, Run, Begun
    <3>5. QED
      BY <3>3, <3>4
  <2>3. CASE ~run[r].poisoned /\ seen \notin Live
    BY <2>3, <1>1, <1>3, <1>4, ReturnedLocal DEF Update
  <2>4. QED
    BY <2>1, <2>2, <2>3
<1>6. run' = [run EXCEPT ![r] = x]
  BY <1>4 DEF UpdateGet, TypeOK
<1>7. QED
  BY LocalStep, <1>5, <1>6 DEF TypeOK, UpdateGet

LEMMA UpdateCommitLocal ==
  ASSUME TypeOK, RunShape, NEW r \in Runs, UpdateCommit(r)
  PROVE  TypeOK' /\ RunShape'
<1>1. run[r] \in Run /\ RunOK(run[r]) /\ run[r].pc = "commit"
  BY DEF TypeOK, RunShape, UpdateCommit
<1>2. run[r].thread \in Threads
  BY <1>1 DEF RunOK
<1>3. CASE run[r].snap # run[r].target /\ status[run[r].thread] \notin Live
  <2>1. run' = [run EXCEPT ![r] = Raised(r, TRUE)] /\ UNCHANGED <<status, pausedAt>>
    BY <1>3 DEF UpdateCommit
  <2>2. Raised(r, TRUE) \in Run /\ RunOK(Raised(r, TRUE))
    BY <1>1, RaisedLocal DEF Update
  <2>3. QED
    BY LocalStep, <2>1, <2>2 DEF TypeOK, UpdateCommit
<1>4. CASE ~(run[r].snap # run[r].target /\ status[run[r].thread] \notin Live)
  <2> DEFINE w == IF run[r].snap # run[r].target /\ run[r].target \in Final
                  THEN run[r].wrote \cup {run[r].target} ELSE run[r].wrote
             x == [run[r] EXCEPT !.pc = "refresh", !.snap = NoTxn, !.wrote = w]
  <2>1. /\ status' = [status EXCEPT ![run[r].thread] =
                         IF run[r].snap # run[r].target THEN run[r].target ELSE @]
        /\ pausedAt' = [pausedAt EXCEPT ![run[r].thread] =
                         IF run[r].target = "awaiting_approval" THEN run[r].node ELSE @]
        /\ run' = [run EXCEPT ![r] = x]
    BY <1>1, <1>4 DEF UpdateCommit, TypeOK, Run
  <2>2. w \in SUBSET Final
    BY <1>1 DEF Run
  <2>3. x \in Run
    BY <1>1, <2>2, Names DEF Run
  <2>4. RunOK(x)
    BY <1>1 DEF RunOK, Run, Begun
  <2>5. run[r].target \in Status /\ run[r].node \in 0..MaxNodes
    BY <1>1, Names DEF Run
  <2>6. status' \in [Threads -> Status] /\ pausedAt' \in [Threads -> 0..MaxNodes]
    BY <1>2, <2>1, <2>5 DEF TypeOK
  <2>7. QED
    BY LocalStep, <2>1, <2>3, <2>4, <2>6 DEF TypeOK, UpdateCommit
<1>5. QED
  BY <1>3, <1>4

LEMMA UpdateRefreshLocal ==
  ASSUME TypeOK, RunShape, NEW r \in Runs, UpdateRefresh(r)
  PROVE  TypeOK' /\ RunShape'
<1> DEFINE s == status[run[r].thread]
           x == IF s \in Live THEN Returned([run[r] EXCEPT !.snap = s])
                ELSE [Raised(r, FALSE) EXCEPT !.snap = s]
<1>1. run[r] \in Run /\ RunOK(run[r]) /\ run[r].pc = "refresh"
  BY DEF TypeOK, RunShape, UpdateRefresh
<1>2. run[r].thread \in Threads /\ ~run[r].poisoned
  BY <1>1 DEF RunOK, Run
<1>3. s \in Snapshot
  BY <1>2, Names DEF TypeOK
<1>4. x \in Run /\ RunOK(x)
  <2>1. CASE s \in Live
    BY <2>1, <1>1, <1>2, <1>3, ReturnedLocal DEF Update
  <2>2. CASE s \notin Live
    BY <2>2, <1>1, <1>3, RaisedSnapLocal
  <2>3. QED
    BY <2>1, <2>2
<1>5. run' = [run EXCEPT ![r] = x]
  BY DEF UpdateRefresh
<1>6. QED
  BY LocalStep, <1>4, <1>5 DEF TypeOK, UpdateRefresh

LEMMA AgentOutputLocal ==
  ASSUME TypeOK, RunShape, NEW r \in Runs, AgentOutput(r)
  PROVE  TypeOK' /\ RunShape'
<1>1. run[r] \in Run /\ RunOK(run[r])
  BY DEF TypeOK, RunShape
<1>2. run' = [run EXCEPT ![r].node = @ + 1]
  BY DEF AgentOutput
<1> DEFINE x == [run[r] EXCEPT !.node = @ + 1]
<1>3. run[r].node + 1 \in 0..MaxNodes
  BY <1>1, NodesAssumption DEF AgentOutput, Run
<1>4. x \in Run
  BY <1>1, <1>3 DEF Run
<1>5. RunOK(x)
  BY <1>1 DEF RunOK, Run, Begun, AgentOutput
<1>6. run' = [run EXCEPT ![r] = x]
  BY <1>1, <1>2 DEF TypeOK, Run
<1>7. QED
  BY LocalStep, <1>4, <1>5, <1>6 DEF TypeOK, AgentOutput

LEMMA AgentHitlLocal ==
  ASSUME TypeOK, RunShape, NEW r \in Runs, AgentHitl(r)
  PROVE  TypeOK' /\ RunShape'
<1> DEFINE x == [run[r] EXCEPT !.pc = "get", !.target = "awaiting_approval",
                               !.sent = @ \cup {"awaiting_approval"}]
<1>1. run[r] \in Run /\ RunOK(run[r])
  BY DEF TypeOK, RunShape
<1>a. run[r].sent \cup {"awaiting_approval"} \in SUBSET Events
  BY <1>1, Names DEF Run
<1>2. x \in Run
  BY <1>1, <1>a, Names DEF Run, AgentHitl
<1>3. RunOK(x)
  BY <1>1 DEF RunOK, Run, Begun, AgentHitl
<1>4. run' = [run EXCEPT ![r] = x]
  BY <1>1 DEF AgentHitl, TypeOK, Run
<1>5. QED
  BY LocalStep, <1>2, <1>3, <1>4 DEF TypeOK, AgentHitl

LEMMA AgentRaiseLocal ==
  ASSUME TypeOK, RunShape, NEW r \in Runs, AgentRaise(r)
  PROVE  TypeOK' /\ RunShape'
<1>1. Raised(r, FALSE) \in Run /\ RunOK(Raised(r, FALSE))
  BY RaisedLocal DEF AgentRaise
<1>2. QED
  BY LocalStep, <1>1 DEF TypeOK, AgentRaise

LEMMA AgentEndLocal ==
  ASSUME TypeOK, RunShape, NEW r \in Runs, AgentEnd(r)
  PROVE  TypeOK' /\ RunShape'
<1> DEFINE x == [run[r] EXCEPT !.pc = "record"]
<1>1. run[r] \in Run /\ RunOK(run[r])
  BY DEF TypeOK, RunShape
<1>2. x \in Run
  BY <1>1, Names DEF Run, AgentEnd
<1>3. RunOK(x)
  BY <1>1 DEF RunOK, Run, Begun, AgentEnd
<1>4. run' = [run EXCEPT ![r] = x]
  BY <1>1 DEF AgentEnd, TypeOK, Run
<1>5. QED
  BY LocalStep, <1>2, <1>3, <1>4 DEF TypeOK, AgentEnd

LEMMA InsertUsageType ==
  ASSUME TypeOK, RunShape, NEW r \in Runs, run[r].pc \in {"record", "recorded"}
  PROVE  /\ Period[run[r].period] \in Periods
         /\ <<r, Period[run[r].period]>> \in Runs \X Periods
         /\ run[r].period \in 1..3
<1>1. run[r] \in Run /\ RunOK(run[r])
  BY DEF TypeOK, RunShape
<1>2. run[r].period \in 1..3
  BY <1>1 DEF Run, RunOK
<1>3. Period[run[r].period] \in Periods
  BY <1>2 DEF Period, Periods
<1>4. QED
  BY <1>2, <1>3

LEMMA RecordCommitLocal ==
  ASSUME TypeOK, RunShape, NEW r \in Runs, RecordCommit(r)
  PROVE  TypeOK' /\ RunShape'
<1> DEFINE x == [run[r] EXCEPT !.pc = "recorded", !.snap = NoTxn,
                               !.billed = @ \cup {Period[run[r].period]}]
<1>1. run[r] \in Run /\ RunOK(run[r]) /\ run[r].pc = "record"
  BY DEF TypeOK, RunShape, RecordCommit
<1>2. Period[run[r].period] \in Periods /\ run[r].period \in 1..3
  BY <1>1, InsertUsageType
<1>3. x \in Run
  BY <1>1, <1>2, Names DEF Run
<1>4. \A i \in 1..3 : i <= x.period => Period[i] \in x.billed
  <2>1. x.period = run[r].period /\ x.billed = run[r].billed \cup {Period[run[r].period]}
    BY <1>1 DEF Run
  <2>2. \A i \in 1..3 : i <= run[r].period => i < run[r].period \/ i = run[r].period
    BY <1>2
  <2>3. \A i \in 1..3 : i < run[r].period => Period[i] \in run[r].billed
    BY <1>1 DEF RunOK
  <2>4. QED
    BY <2>1, <2>2, <2>3
<1>5. x.billed \subseteq Periods /\ run[r].billed \subseteq x.billed
  BY <1>1, <1>2 DEF Run
<1>6. RunOK(x)
  BY <1>1, <1>4, <1>5 DEF RunOK, Run, Begun
<1>7. run' = [run EXCEPT ![r] = x]
  BY <1>1 DEF RecordCommit, TypeOK, Run
<1>8. usage' \subseteq Runs \X Periods
  BY <1>1, InsertUsageType DEF RecordCommit, InsertUsage, TypeOK
<1>9. QED
  BY LocalStep, <1>3, <1>6, <1>7, <1>8 DEF TypeOK, RecordCommit, InsertUsage

LEMMA RecordRefreshLocal ==
  ASSUME TypeOK, RunShape, NEW r \in Runs, RecordRefresh(r)
  PROVE  TypeOK' /\ RunShape'
<1> DEFINE s == status[run[r].thread]
           rec == [run[r] EXCEPT !.snap = s,
                     !.pc = IF run[r].period = 3 THEN "done" ELSE "record",
                     !.period = @ + 1]
           x == IF <<r, Period[run[r].period]>> \in usage THEN rec
                ELSE [Raised(r, FALSE) EXCEPT !.snap = s]
<1>1. run[r] \in Run /\ RunOK(run[r]) /\ run[r].pc = "recorded"
  BY DEF TypeOK, RunShape, RecordRefresh
<1>2. run[r].thread \in Threads /\ run[r].period \in 1..3
  BY <1>1, InsertUsageType DEF RunOK
<1>3. s \in Snapshot
  BY <1>2, Names DEF TypeOK
<1>4. rec \in Run
  <2>1. run[r].period + 1 \in 1..4
    BY <1>2
  <2>2. QED
    BY <2>1, <1>1, <1>3, Names DEF Run
<1>5. RunOK(rec)
  <2>1. rec.period = run[r].period + 1 /\ rec.billed = run[r].billed
    BY <1>1 DEF Run
  <2>2. \A i \in 1..3 : i < rec.period => Period[i] \in rec.billed
    BY <1>1, <1>2, <2>1 DEF RunOK
  <2>3. run[r].period = 3 => rec.billed = Periods
    <3>1. SUFFICES ASSUME run[r].period = 3 PROVE Periods \subseteq run[r].billed
      BY <1>1, <2>1 DEF Run
    <3>2. Period[1] \in run[r].billed /\ Period[2] \in run[r].billed
          /\ Period[3] \in run[r].billed
      BY <3>1, <2>1, <2>2
    <3>3. QED
      BY <3>2 DEF Period, Periods
  <2>4. QED
    BY <1>1, <1>2, <2>2, <2>3 DEF RunOK, Run, Begun
<1>6. x \in Run /\ RunOK(x)
  BY <1>1, <1>3, <1>4, <1>5, RaisedSnapLocal
<1>7. run' = [run EXCEPT ![r] = x]
  BY DEF RecordRefresh
<1>8. QED
  BY LocalStep, <1>6, <1>7 DEF TypeOK, RecordRefresh

LEMMA SendDoneLocal ==
  ASSUME TypeOK, RunShape, NEW r \in Runs, SendDone(r)
  PROVE  TypeOK' /\ RunShape'
<1> DEFINE x == [run[r] EXCEPT !.pc = "get", !.target = "completed",
                               !.sent = @ \cup {"done"}]
<1>1. run[r] \in Run /\ RunOK(run[r])
  BY DEF TypeOK, RunShape
<1>a. run[r].sent \cup {"done"} \in SUBSET Events
  BY <1>1, Names DEF Run
<1>2. x \in Run
  BY <1>1, <1>a, Names DEF Run, SendDone
<1>3. RunOK(x)
  BY <1>1 DEF RunOK, Run, Begun, SendDone
<1>4. run' = [run EXCEPT ![r] = x]
  BY <1>1 DEF SendDone, TypeOK, Run
<1>5. QED
  BY LocalStep, <1>2, <1>3, <1>4 DEF TypeOK, SendDone

LEMMA SendErrorLocal ==
  ASSUME TypeOK, RunShape, NEW r \in Runs, SendError(r)
  PROVE  TypeOK' /\ RunShape'
<1> DEFINE x == [run[r] EXCEPT !.pc = "get", !.target = "error",
                               !.sent = @ \cup {"error"}]
<1>1. run[r] \in Run /\ RunOK(run[r])
  BY DEF TypeOK, RunShape
<1>a. run[r].sent \cup {"error"} \in SUBSET Events
  BY <1>1, Names DEF Run
<1>2. x \in Run
  BY <1>1, <1>a, Names DEF Run, SendError
<1>3. RunOK(x)
  BY <1>1 DEF RunOK, Run, Begun, SendError
<1>4. run' = [run EXCEPT ![r] = x]
  BY <1>1 DEF SendError, TypeOK, Run
<1>5. QED
  BY LocalStep, <1>2, <1>3, <1>4 DEF TypeOK, SendError

LEMMA DisconnectLocal ==
  ASSUME TypeOK, RunShape, NEW r \in Runs, Disconnect(r)
  PROVE  TypeOK' /\ RunShape'
<1> DEFINE x == [run[r] EXCEPT !.pc = "closed", !.lost = TRUE]
<1>1. run[r] \in Run /\ RunOK(run[r])
  BY DEF TypeOK, RunShape
<1>2. x \in Run
  BY <1>1, Names DEF Run, Disconnect
<1>3. RunOK(x)
  BY <1>1 DEF RunOK, Run, Begun, Disconnect
<1>4. run' = [run EXCEPT ![r] = x]
  BY <1>1 DEF Disconnect, TypeOK, Run
<1>5. QED
  BY LocalStep, <1>2, <1>3, <1>4 DEF TypeOK, Disconnect

LEMMA CrashLocal == ASSUME TypeOK, RunShape, Crash PROVE TypeOK' /\ RunShape'
<1>1. ASSUME NEW r \in Runs PROVE run'[r] \in Run /\ RunOK(run'[r])
  <2> DEFINE x == [run[r] EXCEPT !.pc = "closed", !.lost = TRUE]
  <2>1. run[r] \in Run /\ RunOK(run[r])
    BY DEF TypeOK, RunShape
  <2>2. run'[r] = x \/ run'[r] = run[r]
    BY DEF Crash
  <2>3. x \in Run
    BY <2>1, Names DEF Run
  <2>4. RunOK(x)
    BY <2>1 DEF RunOK, Run, Begun
  <2>5. QED
    BY <2>1, <2>2, <2>3, <2>4
<1>2. run' \in [Runs -> Run]
  BY <1>1 DEF Crash
<1>3. RunShape'
  BY <1>1 DEF RunShape
<1>4. QED
  BY <1>2, <1>3 DEF TypeOK, Crash

LEMMA DbFailLocal ==
  ASSUME TypeOK, RunShape, NEW r \in Runs, DbFail(r)
  PROVE  TypeOK' /\ RunShape'
<1> DEFINE x == [run[r] EXCEPT !.pc = "closed", !.lost = TRUE]
<1>1. run[r] \in Run /\ RunOK(run[r])
  BY DEF TypeOK, RunShape
<1>2. CASE run[r].pc \in Handler
  <2>1. x \in Run
    BY <1>1, Names DEF Run
  <2>2. RunOK(x)
    BY <1>1 DEF RunOK, Run, Begun
  <2>3. run' = [run EXCEPT ![r] = x]
    BY <1>2 DEF DbFail, Handler, Update
  <2>4. QED
    BY LocalStep, <2>1, <2>2, <2>3 DEF TypeOK, DbFail
<1>3. CASE run[r].pc \notin Handler
  <2>1. PICK b \in BOOLEAN : run' = [run EXCEPT ![r] = DbRaised(r, b)]
    BY <1>3 DEF DbFail
  <2>2. DbRaised(r, b) \in Run /\ RunOK(DbRaised(r, b))
    BY <1>3, DbRaisedLocal DEF DbFail
  <2>3. QED
    BY LocalStep, <2>1, <2>2 DEF TypeOK, DbFail
<1>4. QED
  BY <1>2, <1>3

LEMMA DbFailAfterCommitLocal ==
  ASSUME TypeOK, RunShape, NEW r \in Runs, DbFailAfterCommit(r)
  PROVE  TypeOK' /\ RunShape'
<1>1. run[r] \in Run /\ RunOK(run[r])
  BY DEF TypeOK, RunShape
<1>2. CASE run[r].pc = "create"
  <2> DEFINE x == [run[r] EXCEPT !.pc = "closed", !.lost = TRUE]
  <2>1. PICK t \in Threads : InsertThread(r, t)
    BY <1>2 DEF DbFailAfterCommit
  <2>2. x \in Run
    BY <1>1, Names DEF Run
  <2>3. RunOK(x)
    BY <1>1 DEF RunOK, Run, Begun
  <2>4. run' = [run EXCEPT ![r] = x]
    BY <1>1, <1>2 DEF DbFailAfterCommit, TypeOK, Run
  <2>5. QED
    BY LocalStep, InsertThreadType, <2>1, <2>2, <2>3, <2>4 DEF TypeOK, InsertThread
<1>3. CASE run[r].pc = "record"
  <2> DEFINE x == [DbRaised(r, TRUE) EXCEPT !.billed = @ \cup {Period[run[r].period]}]
  <2>1. DbRaised(r, TRUE) \in Run /\ RunOK(DbRaised(r, TRUE))
    BY <1>3, DbRaisedLocal
  <2>2. Period[run[r].period] \in Periods
    BY <1>3, InsertUsageType
  <2>3. x \in Run
    BY <2>1, <2>2 DEF Run
  <2>4. x.billed \subseteq Periods /\ DbRaised(r, TRUE).billed \subseteq x.billed
    BY <2>1, <2>2 DEF Run
  <2>5. RunOK(x)
    <3>1. DbRaised(r, TRUE).pc \in {"fail", "closed"}
      BY <1>1 DEF DbRaised, Raised, Run
    <3>2. QED
      BY <2>1, <2>4, <3>1 DEF RunOK, Run, Begun
  <2>6. run' = [run EXCEPT ![r] = x] /\ InsertUsage(r)
    BY <1>3 DEF DbFailAfterCommit
  <2>7. usage' \subseteq Runs \X Periods
    BY <1>3, <2>6, InsertUsageType DEF InsertUsage, TypeOK
  <2>8. QED
    BY LocalStep, <2>3, <2>5, <2>6, <2>7 DEF TypeOK, InsertUsage
<1>4. CASE run[r].pc = "commit"
  <2> DEFINE x == [DbRaised(r, TRUE) EXCEPT !.wrote = @ \cup ({run[r].target} \cap Final)]
  <2>1. DbRaised(r, TRUE) \in Run /\ RunOK(DbRaised(r, TRUE))
    BY <1>4, DbRaisedLocal DEF Update
  <2>2. x \in Run
    BY <2>1 DEF Run
  <2>3. RunOK(x)
    BY <2>1 DEF RunOK, Run
  <2>4. run[r].target \in Status /\ run[r].node \in 0..MaxNodes
    BY <1>1, Names DEF Run
  <2>5. status' \in [Threads -> Status] /\ pausedAt' \in [Threads -> 0..MaxNodes]
    BY <1>4, <2>4 DEF DbFailAfterCommit, TypeOK
  <2>6. run' = [run EXCEPT ![r] = x]
    BY <1>4 DEF DbFailAfterCommit
  <2>7. QED
    BY LocalStep, <1>4, <2>2, <2>3, <2>5, <2>6 DEF TypeOK, DbFailAfterCommit
<1>5. QED
  BY <1>2, <1>3, <1>4 DEF DbFailAfterCommit

LEMMA InitLocal == Init => TypeOK /\ RunShape
<1> SUFFICES ASSUME Init PROVE TypeOK /\ RunShape
  OBVIOUS
<1>1. NewRun \in Run
  BY Names, DefaultAgent, NodesAssumption DEF NewRun, Run
<1>2. RunOK(NewRun)
  BY DEF NewRun, RunOK, Begun
<1>3. TypeOK
  <2>1. run \in [Runs -> Run]
    BY <1>1 DEF Init
  <2>2. status \in [Threads -> Status] /\ usage \subseteq Runs \X Periods
    BY Names DEF Init
  <2>3. owner \in [Threads -> Users]
    BY DefaultUser DEF Init
  <2>4. agentName \in [Threads -> Agents]
    BY DefaultAgent DEF Init
  <2>5. pausedAt \in [Threads -> 0..MaxNodes]
    BY NodesAssumption DEF Init
  <2>6. QED
    BY <2>1, <2>2, <2>3, <2>4, <2>5 DEF TypeOK
<1>4. \A r \in Runs : run[r] = NewRun
  BY DEF Init
<1>5. QED
  BY <1>2, <1>3, <1>4 DEF RunShape

LEMMA NextLocal ==
  ASSUME TypeOK, RunShape, [Next]_vars
  PROVE  TypeOK' /\ RunShape'
<1>1. ASSUME NEW r \in Runs, Request(r) PROVE TypeOK' /\ RunShape'
  BY <1>1, ChatLocal, ChatNewThreadLocal, ChatRefusedLocal, ResumeChatLocal,
     ResumeRefusedLocal DEF Request
<1>2. ASSUME NEW r \in Runs, RunStep(r) PROVE TypeOK' /\ RunShape'
  BY <1>2, CreateCommitLocal, CreateRefreshLocal, StartStreamLocal, UpdateGetLocal,
     UpdateCommitLocal, UpdateRefreshLocal, AgentOutputLocal, AgentHitlLocal,
     AgentRaiseLocal, AgentEndLocal, RecordCommitLocal, RecordRefreshLocal,
     SendDoneLocal, SendErrorLocal DEF RunStep
<1>3. ASSUME NEW t \in Threads, DeleteSession(t) PROVE TypeOK' /\ RunShape'
  BY <1>3, Names DEF DeleteSession, TypeOK, RunShape
<1>4. ASSUME NEW u \in Users, NEW p \in Periods, QuotaReset(u, p)
      PROVE  TypeOK' /\ RunShape'
  BY <1>4 DEF QuotaReset, TypeOK, RunShape
<1>5. CASE UNCHANGED vars
  BY <1>5 DEF vars, TypeOK, RunShape
<1>6. QED
  BY <1>1, <1>2, <1>3, <1>4, <1>5, DisconnectLocal, DbFailLocal,
     DbFailAfterCommitLocal, CrashLocal DEF Next, Environment

\* The types hold in every state, and a run's local state has the shape the
\* code gives it at that point.
THEOREM TypeCorrect == Spec => [](TypeOK /\ RunShape)
<1>1. Init => TypeOK /\ RunShape
  BY InitLocal
<1>2. (TypeOK /\ RunShape) /\ [Next]_vars => (TypeOK /\ RunShape)'
  BY NextLocal
<1>3. QED
  BY <1>1, <1>2, PTL DEF Spec

\* chat.py:59-64: "done" is never sent before all three usage rows of the
\* answer were committed.
THEOREM DoneIsBilledCorrect == Spec => []DoneIsBilled
<1>1. RunShape => DoneIsBilled
  BY DEF RunShape, RunOK, DoneIsBilled
<1>2. QED
  BY <1>1, TypeCorrect, PTL

-----------------------------------------------------------------------------
(* RunningHasOwner.                                                        *)

\* r has thread t and will settle it, or a fault took r.
Holds(r, t) == run[r].thread = t /\ (Settles(r) \/ Broken(r))

LEMMA HoldsDef ==
  RunningHasOwner <=> \A t \in Threads : status[t] = "running" =>
                         \E r \in Runs : Holds(r, t)
  BY DEF RunningHasOwner, Holds

\* A step of request q leaves every other request as it was.
LEMMA OtherHolds ==
  ASSUME TypeOK, NEW q \in Runs, NEW r \in Runs, q # r, NEW t \in Threads,
         NEW x, run' = [run EXCEPT ![q] = x], Holds(r, t)
  PROVE  Holds(r, t)'
<1>1. run'[r] = run[r]
  BY DEF TypeOK
<1>2. QED
  BY <1>1 DEF Holds, Settles, Broken

\* When the table does not change to "running" and the request that steps
\* keeps what it holds, RunningHasOwner is kept.
LEMMA KeepOwner ==
  ASSUME TypeOK, RunningHasOwner, NEW q \in Runs,
         \A r \in Runs : r # q => run'[r] = run[r],
         \A t \in Threads : status'[t] = "running" =>
            \/ status[t] = "running" /\ (Holds(q, t) => Holds(q, t)')
            \/ Holds(q, t)'
  PROVE  RunningHasOwner'
<1> SUFFICES ASSUME NEW t \in Threads, status'[t] = "running"
             PROVE  \E r \in Runs : Holds(r, t)'
  BY DEF RunningHasOwner, Holds
<1>1. CASE Holds(q, t)'
  BY <1>1
<1>2. CASE ~Holds(q, t)'
  <2>1. status[t] = "running" /\ ~Holds(q, t)
    BY <1>2
  <2>2. PICK r \in Runs : Holds(r, t)
    BY <2>1 DEF RunningHasOwner, Holds
  <2>3. r # q
    BY <2>1, <2>2
  <2>4. Holds(r, t)'
    BY <2>2, <2>3 DEF Holds, Settles, Broken
  <2>5. QED
    BY <2>4
<1>3. QED
  BY <1>1, <1>2

\* Before its generator has started, a request holds nothing.
LEMMA NotHolding ==
  ASSUME TypeOK, RunShape, NEW q \in Runs,
         run[q].pc \in {"idle", "create", "created", "open"}
  PROVE  \A t \in Threads : ~Holds(q, t)
<1>1. run[q] \in Run /\ RunOK(run[q])
  BY DEF TypeOK, RunShape
<1>2. run[q].pc # "closed" /\ ~run[q].lost /\ ~run[q].poisoned
  BY <1>1 DEF RunOK, Run
<1>3. ~Settles(q)
  BY DEF Settles, Streaming, Update
<1>4. QED
  BY <1>2, <1>3 DEF Holds, Broken

LEMMA StartOwner ==
  ASSUME TypeOK, RunShape, RunningHasOwner, NEW q \in Runs,
         \/ Request(q) \/ CreateRefresh(q) \/ StartStream(q)
         \/ \E t \in Threads : CreateCommit(q, t)
  PROVE  RunningHasOwner'
<1>1. run[q].pc \in {"idle", "create", "created", "open"}
  BY DEF Request, Chat, ChatNewThread, ChatRefused, ResumeChat, ResumeRefused,
     CreateRefresh, StartStream, CreateCommit
<1>2. \A t \in Threads : ~Holds(q, t)
  BY <1>1, NotHolding
<1>3. \A r \in Runs : r # q => run'[r] = run[r]
  BY DEF TypeOK, Request, Chat, ChatNewThread, ChatRefused, ResumeChat,
     ResumeRefused, CreateRefresh, StartStream, CreateCommit
<1>4. \A t \in Threads : status'[t] = "running" => status[t] = "running"
  BY DEF TypeOK, Request, Chat, ChatNewThread, ChatRefused, ResumeChat,
     ResumeRefused, CreateRefresh, StartStream, CreateCommit, InsertThread
<1>5. QED
  BY <1>2, <1>3, <1>4, KeepOwner

\* Actions that leave the table alone and the session in the transaction it
\* was in, or in none, and do not settle the run.
LEMMA StreamOwner ==
  ASSUME TypeOK, RunShape, RunningHasOwner, NEW q \in Runs,
         \/ AgentOutput(q) \/ AgentHitl(q) \/ AgentEnd(q)
         \/ RecordCommit(q) \/ SendDone(q) \/ SendError(q)
  PROVE  RunningHasOwner'
<1>1. run[q] \in Run /\ RunOK(run[q])
  BY DEF TypeOK, RunShape
<1>2. \A r \in Runs : r # q => run'[r] = run[r]
  BY DEF TypeOK, AgentOutput, AgentHitl, AgentEnd, RecordCommit, SendDone, SendError
<1>3. status' = status
  BY DEF AgentOutput, AgentHitl, AgentEnd, RecordCommit, InsertUsage, SendDone, SendError
<1>4. /\ run'[q].thread = run[q].thread
      /\ run'[q].lost = run[q].lost /\ run'[q].poisoned = run[q].poisoned
      /\ run'[q].snap \in {run[q].snap, NoTxn}
  BY <1>1 DEF TypeOK, Run, AgentOutput, AgentHitl, AgentEnd, RecordCommit, SendDone, SendError
<1>5. \/ run'[q].pc \in {"stream", "record", "recorded"}
      \/ run'[q].pc = "get" /\ run'[q].target # "running"
  BY <1>1 DEF TypeOK, Run, AgentOutput, AgentHitl, AgentEnd, RecordCommit, SendDone, SendError
<1>6. ASSUME NEW t \in Threads, Holds(q, t) PROVE Holds(q, t)'
  BY <1>4, <1>5, <1>6 DEF Holds, Settles, Broken, Streaming, Update
<1>7. QED
  BY <1>2, <1>3, <1>6, KeepOwner

\* An exception keeps what the run holds, unless it comes from update_status
\* after the commit, when there is nothing left to hold.
LEMMA RaisedHolds ==
  ASSUME TypeOK, RunShape, NEW q \in Runs, NEW b \in BOOLEAN, NEW t \in Threads,
         b \/ run[q].pc \in {"stream", "recorded"},
         run'[q] = Raised(q, b), Holds(q, t)
  PROVE  Holds(q, t)'
<1>1. run[q] \in Run /\ RunOK(run[q])
  BY DEF TypeOK, RunShape
<1>2. run'[q].thread = t
  BY <1>1 DEF Raised, Run, Holds
<1>3. CASE b
  BY <1>1, <1>2, <1>3 DEF Raised, Run, Holds, Broken
<1>4. CASE run[q].pc \in {"stream", "recorded"}
  <2>1. ~run[q].poisoned /\ ~run[q].lost
    BY <1>1, <1>4 DEF RunOK, Run
  <2>2. run[q].snap \in {NoTxn, "running"}
    BY <2>1 DEF Holds, Broken, Settles
  <2>3. run'[q].pc = "fail" /\ run'[q].snap = run[q].snap
    BY <1>1, <1>4 DEF Raised, Run, Update
  <2>4. QED
    BY <1>2, <2>2, <2>3 DEF Holds, Settles, Streaming, Update
<1>5. QED
  BY <1>3, <1>4

LEMMA AgentRaiseOwner ==
  ASSUME TypeOK, RunShape, RunningHasOwner, NEW q \in Runs, AgentRaise(q)
  PROVE  RunningHasOwner'
<1>1. run' = [run EXCEPT ![q] = Raised(q, FALSE)] /\ status' = status
      /\ run[q].pc = "stream"
  BY DEF AgentRaise
<1>2. run'[q] = Raised(q, FALSE) /\ \A r \in Runs : r # q => run'[r] = run[r]
  BY <1>1 DEF TypeOK
<1>3. ASSUME NEW t \in Threads, Holds(q, t) PROVE Holds(q, t)'
  BY <1>1, <1>2, <1>3, RaisedHolds
<1>4. QED
  BY <1>1, <1>2, <1>3, KeepOwner

LEMMA UpdateGetOwner ==
  ASSUME TypeOK, RunShape, RunningHasOwner, NEW q \in Runs, UpdateGet(q)
  PROVE  RunningHasOwner'
<1> DEFINE seen == IF run[q].snap = NoTxn THEN status[run[q].thread] ELSE run[q].snap
<1>1. run[q] \in Run /\ RunOK(run[q]) /\ run[q].pc = "get"
  BY DEF TypeOK, RunShape, UpdateGet
<1>2. \A r \in Runs : r # q => run'[r] = run[r]
  BY DEF TypeOK, UpdateGet
<1>3. status' = status
  BY DEF UpdateGet
<1>4. ASSUME NEW t \in Threads, status[t] = "running", Holds(q, t) PROVE Holds(q, t)'
  <2>1. CASE run[q].poisoned
    <3>1. run'[q] = Raised(q, TRUE)
      BY <2>1 DEF UpdateGet, TypeOK
    <3>2. QED
      BY <3>1, <1>4, RaisedHolds
  <2>2. CASE ~run[q].poisoned
    <3>1. ~run[q].lost /\ run[q].thread = t /\ Settles(q)
      BY <1>1, <1>4, <2>2 DEF Holds, Broken, RunOK
    <3>2. seen = "running" /\ run[q].target # "running"
      BY <1>1, <1>4, <3>1 DEF Settles
    <3>3. "running" \in Live
      BY DEF Live
    <3>4. run'[q] = [run[q] EXCEPT !.snap = seen, !.pc = "commit"]
      BY <1>1, <2>2, <3>2, <3>3 DEF UpdateGet, TypeOK, Run
    <3>5. /\ run'[q].pc = "commit" /\ run'[q].snap = "running"
          /\ run'[q].thread = t /\ run'[q].target # "running"
      BY <1>1, <3>1, <3>2, <3>4 DEF Run
    <3>6. QED
      BY <3>5 DEF Holds, Settles, Streaming, Update
  <2>3. QED
    BY <2>1, <2>2
<1>5. QED
  BY <1>2, <1>3, <1>4, KeepOwner

\* The commit is where a thread becomes running, with q to settle it, or
\* where q settles it: a run that holds a thread has not read the status it
\* writes, so its UPDATE is sent.
LEMMA UpdateCommitOwner ==
  ASSUME TypeOK, RunShape, RunningHasOwner, NEW q \in Runs, UpdateCommit(q)
  PROVE  RunningHasOwner'
<1>1. run[q] \in Run /\ RunOK(run[q]) /\ run[q].pc = "commit"
  BY DEF TypeOK, RunShape, UpdateCommit
<1>2. /\ run[q].thread \in Threads /\ ~run[q].poisoned /\ ~run[q].lost
      /\ run[q].snap # NoTxn
  BY <1>1 DEF RunOK, Run
<1>3. \A r \in Runs : r # q => run'[r] = run[r]
  BY DEF TypeOK, UpdateCommit
<1>4. CASE run[q].snap # run[q].target /\ status[run[q].thread] \notin Live
  <2>1. status' = status /\ run' = [run EXCEPT ![q] = Raised(q, TRUE)]
    BY <1>4 DEF UpdateCommit
  <2>2. run'[q] = Raised(q, TRUE)
    BY <2>1 DEF TypeOK
  <2>3. \A t \in Threads : Holds(q, t) => Holds(q, t)'
    BY <2>2, RaisedHolds
  <2>4. QED
    BY <1>3, <2>1, <2>3, KeepOwner
<1>5. CASE run[q].snap = run[q].target
  <2>1. status' = status
    BY <1>5 DEF UpdateCommit, TypeOK
  <2>2. \A t \in Threads : ~Holds(q, t)
    BY <1>1, <1>2, <1>5 DEF Holds, Settles, Broken
  <2>3. QED
    BY <1>3, <2>1, <2>2, KeepOwner
<1>6. CASE run[q].snap # run[q].target /\ status[run[q].thread] \in Live
  <2>1. status' = [status EXCEPT ![run[q].thread] = run[q].target]
    BY <1>6 DEF UpdateCommit, TypeOK
  <2>2. /\ run'[q].pc = "refresh" /\ run'[q].snap = NoTxn
        /\ run'[q].thread = run[q].thread /\ run'[q].target = run[q].target
    <3> DEFINE w == IF run[q].snap # run[q].target /\ run[q].target \in Final
                    THEN run[q].wrote \cup {run[q].target} ELSE run[q].wrote
               x == [run[q] EXCEPT !.pc = "refresh", !.snap = NoTxn, !.wrote = w]
    <3>1. run' = [run EXCEPT ![q] = x]
      BY <1>1, <1>6 DEF UpdateCommit, TypeOK, Run
    <3>2. run'[q] = x
      BY <3>1 DEF TypeOK
    <3>3. x.pc = "refresh" /\ x.snap = NoTxn /\ x.thread = run[q].thread
          /\ x.target = run[q].target
      BY <1>1 DEF Run
    <3>4. QED
      BY <3>2, <3>3
  <2>3. ASSUME NEW t \in Threads, status'[t] = "running"
        PROVE  \/ status[t] = "running" /\ (Holds(q, t) => Holds(q, t)')
               \/ Holds(q, t)'
    <3>1. CASE t = run[q].thread
      <4>1. run[q].target = "running"
        BY <2>1, <2>3, <3>1 DEF TypeOK
      <4>2. QED
        BY <2>2, <3>1, <4>1 DEF Holds, Settles, Streaming, Update
    <3>2. CASE t # run[q].thread
      BY <2>1, <2>3, <3>2 DEF TypeOK, Holds
    <3>3. QED
      BY <3>1, <3>2
  <2>4. QED
    BY <1>3, <2>3, KeepOwner
<1>7. QED
  BY <1>4, <1>5, <1>6

LEMMA UpdateRefreshOwner ==
  ASSUME TypeOK, RunShape, RunningHasOwner, NEW q \in Runs, UpdateRefresh(q)
  PROVE  RunningHasOwner'
<1>1. run[q] \in Run /\ RunOK(run[q]) /\ run[q].pc = "refresh"
  BY DEF TypeOK, RunShape, UpdateRefresh
<1>2. ~run[q].poisoned /\ ~run[q].lost
  BY <1>1 DEF RunOK, Run
<1>3. \A r \in Runs : r # q => run'[r] = run[r]
  BY DEF TypeOK, UpdateRefresh
<1>4. status' = status
  BY DEF UpdateRefresh
<1>5. ASSUME NEW t \in Threads, status[t] = "running", Holds(q, t) PROVE Holds(q, t)'
  <2>1. run[q].thread = t /\ run[q].target = "running"
    BY <1>1, <1>2, <1>5 DEF Holds, Settles, Broken
  <2>2. "running" \in Live
    BY DEF Live
  <2>3. run'[q] = Returned([run[q] EXCEPT !.snap = "running"])
    BY <1>5, <2>1, <2>2 DEF UpdateRefresh, TypeOK
  <2>4. run'[q].pc = "stream" /\ run'[q].snap = "running" /\ run'[q].thread = t
    BY <1>1, <2>1, <2>3 DEF Returned, Run
  <2>5. QED
    BY <2>4 DEF Holds, Settles, Streaming, Update
<1>6. QED
  BY <1>3, <1>4, <1>5, KeepOwner

LEMMA RecordRefreshOwner ==
  ASSUME TypeOK, RunShape, RunningHasOwner, NEW q \in Runs, RecordRefresh(q)
  PROVE  RunningHasOwner'
<1>1. run[q] \in Run /\ RunOK(run[q]) /\ run[q].pc = "recorded"
  BY DEF TypeOK, RunShape, RecordRefresh
<1>2. ~run[q].poisoned /\ ~run[q].lost
  BY <1>1 DEF RunOK, Run
<1>3. \A r \in Runs : r # q => run'[r] = run[r]
  BY DEF TypeOK, RecordRefresh
<1>4. status' = status
  BY DEF RecordRefresh
<1>5. ASSUME NEW t \in Threads, status[t] = "running", Holds(q, t) PROVE Holds(q, t)'
  <2>1. run[q].thread = t
    BY <1>5 DEF Holds
  <2>2. /\ run'[q].thread = t /\ run'[q].snap = "running"
        /\ run'[q].pc \in {"record", "done", "fail"}
    BY <1>1, <1>5, <2>1 DEF RecordRefresh, Raised, TypeOK, Run, Update
  <2>3. QED
    BY <2>2 DEF Holds, Settles, Streaming, Update
<1>6. QED
  BY <1>3, <1>4, <1>5, KeepOwner

LEMMA FaultOwner ==
  ASSUME TypeOK, RunShape, RunningHasOwner, NEW q \in Runs, Disconnect(q) \/ DbFail(q)
  PROVE  RunningHasOwner'
<1>1. run[q] \in Run /\ RunOK(run[q])
  BY DEF TypeOK, RunShape
<1>2. \A r \in Runs : r # q => run'[r] = run[r]
  BY DEF TypeOK, Disconnect, DbFail
<1>3. status' = status
  BY DEF Disconnect, DbFail
<1>4. /\ run'[q].thread = run[q].thread
      /\ run'[q].lost \/ run'[q].poisoned \/ (run'[q].pc = "fail" /\ run'[q].snap = NoTxn)
  <2>1. CASE Disconnect(q)
    BY <1>1, <2>1 DEF Disconnect, TypeOK, Run
  <2>2. CASE DbFail(q) /\ run[q].pc \in Handler
    BY <1>1, <2>2 DEF DbFail, Handler, Update, TypeOK, Run
  <2>3. CASE DbFail(q) /\ run[q].pc \notin Handler
    <3>1. PICK b \in BOOLEAN : /\ b \/ run[q].snap = NoTxn
                              /\ run'[q] = DbRaised(q, b)
      BY <2>3 DEF DbFail, TypeOK
    <3>2. QED
      BY <1>1, <3>1 DEF DbRaised, Raised, Run
  <2>4. QED
    BY <2>1, <2>2, <2>3
<1>5. \A t \in Threads : Holds(q, t) => Holds(q, t)'
  <2>1. \A t \in Threads : run'[q].thread = t /\ (run'[q].lost \/ run'[q].poisoned) => Holds(q, t)'
    BY DEF Holds, Broken
  <2>2. \A t \in Threads : run'[q].thread = t /\ run'[q].pc = "fail" /\ run'[q].snap = NoTxn
                           => Holds(q, t)'
    BY DEF Holds, Settles, Streaming, Update
  <2>3. QED
    BY <1>4, <2>1, <2>2 DEF Holds
<1>6. QED
  BY <1>2, <1>3, <1>5, KeepOwner

LEMMA DbFailAfterCommitOwner ==
  ASSUME TypeOK, RunShape, RunningHasOwner, NEW q \in Runs, DbFailAfterCommit(q)
  PROVE  RunningHasOwner'
<1>1. run[q] \in Run /\ RunOK(run[q])
  BY DEF TypeOK, RunShape
<1>2. \A r \in Runs : r # q => run'[r] = run[r]
  BY DEF TypeOK, DbFailAfterCommit
<1>3. CASE run[q].pc = "create"
  <2>1. \A t \in Threads : ~Holds(q, t)
    BY <1>3, NotHolding
  <2>2. \A t \in Threads : status'[t] = "running" => status[t] = "running"
    BY <1>3 DEF DbFailAfterCommit, InsertThread, TypeOK
  <2>3. QED
    BY <1>2, <2>1, <2>2, KeepOwner
<1>4. CASE run[q].pc \in {"record", "commit"}
  <2>1. run'[q].thread = run[q].thread /\ run'[q].poisoned
    <3>1. DbRaised(q, TRUE).thread = run[q].thread /\ DbRaised(q, TRUE).poisoned
      BY <1>1 DEF DbRaised, Raised, Run
    <3>2. DbRaised(q, TRUE) \in Run
      BY <1>1, <1>4, DbRaisedLocal DEF Update
    <3>3. CASE run[q].pc = "record"
      <4>1. run'[q] = [DbRaised(q, TRUE) EXCEPT !.billed = @ \cup {Period[run[q].period]}]
        BY <3>3 DEF DbFailAfterCommit, TypeOK
      <4>2. QED
        BY <3>1, <3>2, <4>1 DEF Run
    <3>4. CASE run[q].pc = "commit"
      <4>1. run'[q] = [DbRaised(q, TRUE) EXCEPT !.wrote = @ \cup ({run[q].target} \cap Final)]
        BY <3>4 DEF DbFailAfterCommit, TypeOK
      <4>2. QED
        BY <3>1, <3>2, <4>1 DEF Run
    <3>5. QED
      BY <1>4, <3>3, <3>4
  <2>2. \A t \in Threads : run[q].thread = t => Holds(q, t)'
    BY <2>1 DEF Holds, Broken
  <2>3. \A t \in Threads : run[q].thread # t => status'[t] = status[t] /\ ~Holds(q, t)
    BY <1>4 DEF DbFailAfterCommit, InsertUsage, TypeOK, Holds
  <2>4. QED
    BY <1>2, <2>2, <2>3, KeepOwner
<1>5. QED
  BY <1>3, <1>4 DEF DbFailAfterCommit

LEMMA CrashOwner ==
  ASSUME TypeOK, RunShape, RunningHasOwner, Crash
  PROVE  RunningHasOwner'
<1> SUFFICES ASSUME NEW t \in Threads, status[t] = "running"
             PROVE  \E r \in Runs : Holds(r, t)'
  BY DEF Crash, RunningHasOwner, Holds
<1>1. PICK r \in Runs : Holds(r, t)
  BY DEF RunningHasOwner, Holds
<1>2. run[r] \in Run
  BY DEF TypeOK
<1>3. CASE run[r].pc \in Handler \cup Streaming
  <2>1. run'[r] = [run[r] EXCEPT !.pc = "closed", !.lost = TRUE]
    BY <1>3 DEF Crash
  <2>2. run'[r].lost /\ run'[r].thread = t
    BY <1>1, <1>2, <2>1 DEF Run, Holds
  <2>3. QED
    BY <2>2 DEF Holds, Broken
<1>4. CASE run[r].pc \notin Handler \cup Streaming
  <2>1. run'[r] = run[r]
    BY <1>4 DEF Crash
  <2>2. QED
    BY <1>1, <2>1 DEF Holds, Settles, Broken
<1>5. QED
  BY <1>3, <1>4

LEMMA NextOwner ==
  ASSUME TypeOK, RunShape, RunningHasOwner, [Next]_vars
  PROVE  RunningHasOwner'
<1>1. ASSUME NEW r \in Runs, Request(r) \/ RunStep(r) PROVE RunningHasOwner'
  BY <1>1, StartOwner, StreamOwner, AgentRaiseOwner, UpdateGetOwner,
     UpdateCommitOwner, UpdateRefreshOwner, RecordRefreshOwner DEF RunStep
<1>2. ASSUME NEW t \in Threads, DeleteSession(t) PROVE RunningHasOwner'
  <2>1. run' = run /\ \A v \in Threads : status'[v] = "running" => status[v] = "running"
    BY <1>2 DEF DeleteSession, TypeOK
  <2>2. QED
    BY <2>1 DEF RunningHasOwner, Settles, Broken
<1>3. ASSUME NEW u \in Users, NEW p \in Periods, QuotaReset(u, p) PROVE RunningHasOwner'
  BY <1>3 DEF QuotaReset, RunningHasOwner, Settles, Broken
<1>4. CASE UNCHANGED vars
  BY <1>4 DEF vars, RunningHasOwner, Settles, Broken
<1>5. QED
  BY <1>1, <1>2, <1>3, <1>4, FaultOwner, DbFailAfterCommitOwner, CrashOwner
     DEF Next, Environment

\* chat.py:44-68 over session_repo.py:32-39: a thread that reads "running"
\* has a run that will settle it, or one that a fault took.  Runs on the same
\* thread, stale snapshots, deletions and resets cannot strand it.
THEOREM RunningHasOwnerCorrect == Spec => []RunningHasOwner
<1>1. Init => IInv
  <2>1. Init => RunningHasOwner
    BY DEF Init, RunningHasOwner
  <2>2. QED
    BY <2>1, InitLocal DEF IInv
<1>2. IInv /\ [Next]_vars => IInv'
  BY NextLocal, NextOwner DEF IInv
<1>3. IInv => RunningHasOwner
  BY DEF IInv
<1>4. QED
  BY <1>1, <1>2, <1>3, PTL DEF Spec

\* The actions that write the status of a thread.
LEMMA StatusWriters ==
  ASSUME [Next]_vars
  PROVE  \/ UNCHANGED status
         \/ \E r \in Runs, t \in Threads : InsertThread(r, t)
         \/ \E r \in Runs : UpdateCommit(r) \/ DbFailAfterCommit(r)
         \/ \E t \in Threads : DeleteSession(t)
<1>1. ASSUME NEW r \in Runs, Request(r) PROVE UNCHANGED status
  BY <1>1 DEF Request, Chat, ChatNewThread, ChatRefused, ResumeChat, ResumeRefused
<1>2. ASSUME NEW r \in Runs, RunStep(r)
      PROVE  \/ UNCHANGED status \/ UpdateCommit(r)
             \/ \E t \in Threads : InsertThread(r, t)
  <2>1. CASE \E t \in Threads : CreateCommit(r, t)
    BY <2>1 DEF CreateCommit
  <2>2. CASE CreateRefresh(r) \/ StartStream(r) \/ UpdateGet(r) \/ UpdateRefresh(r)
    BY <2>2 DEF CreateRefresh, StartStream, UpdateGet, UpdateRefresh
  <2>3. CASE AgentOutput(r) \/ AgentHitl(r) \/ AgentRaise(r) \/ AgentEnd(r)
    BY <2>3 DEF AgentOutput, AgentHitl, AgentRaise, AgentEnd
  <2>4. CASE RecordCommit(r) \/ RecordRefresh(r) \/ SendDone(r) \/ SendError(r)
    BY <2>4 DEF RecordCommit, InsertUsage, RecordRefresh, SendDone, SendError
  <2>5. QED
    BY <1>2, <2>1, <2>2, <2>3, <2>4 DEF RunStep
<1>3. ASSUME Environment
      PROVE  \/ UNCHANGED status \/ \E r \in Runs : DbFailAfterCommit(r)
             \/ \E t \in Threads : DeleteSession(t)
  BY <1>3 DEF Environment, QuotaReset, Disconnect, DbFail, Crash
<1>4. CASE UNCHANGED vars
  BY <1>4 DEF vars
<1>5. QED
  BY <1>1, <1>2, <1>3, <1>4 DEF Next

\* No action writes the row of a thread that was deleted.
LEMMA DeletedStep ==
  ASSUME TypeOK, [Next]_vars, NEW t \in Threads, status[t] = "deleted"
  PROVE  status'[t] = "deleted"
<1>1. "deleted" \notin Live /\ "none" # "deleted"
  BY DEF Live, Final
<1>2. ASSUME NEW r \in Runs, NEW v \in Threads, InsertThread(r, v)
      PROVE  status'[t] = "deleted"
  BY <1>1, <1>2 DEF InsertThread, TypeOK
<1>3. ASSUME NEW r \in Runs, UpdateCommit(r) PROVE status'[t] = "deleted"
  <2>1. CASE status[run[r].thread] \in Live
    BY <1>1, <1>3, <2>1 DEF UpdateCommit, TypeOK
  <2>2. CASE status[run[r].thread] \notin Live
    BY <1>3, <2>2 DEF UpdateCommit, TypeOK
  <2>3. QED
    BY <2>1, <2>2
<1>4. ASSUME NEW r \in Runs, DbFailAfterCommit(r) PROVE status'[t] = "deleted"
  <2>1. CASE run[r].pc = "create"
    BY <1>2, <1>4, <2>1 DEF DbFailAfterCommit
  <2>2. CASE run[r].pc = "record"
    BY <1>4, <2>2 DEF DbFailAfterCommit, InsertUsage
  <2>3. CASE run[r].pc = "commit"
    BY <1>1, <1>4, <2>3 DEF DbFailAfterCommit, TypeOK
  <2>4. QED
    BY <1>4, <2>1, <2>2, <2>3 DEF DbFailAfterCommit
<1>5. ASSUME NEW v \in Threads, DeleteSession(v) PROVE status'[t] = "deleted"
  BY <1>5 DEF DeleteSession, TypeOK
<1>6. QED
  BY <1>2, <1>3, <1>4, <1>5, StatusWriters

\* session_repo.py:32-45: no update of a run brings back a deleted thread.
THEOREM DeletedStaysDeletedCorrect == Spec => DeletedStaysDeleted
<1>1. ASSUME TypeOK, [Next]_vars
      PROVE  [\A t \in Threads : status[t] = "deleted" => status'[t] = "deleted"]_vars
  BY <1>1, DeletedStep
<1>2. QED
  BY <1>1, TypeCorrect, PTL DEF Spec, DeletedStaysDeleted

-----------------------------------------------------------------------------
(* What a run has said, been billed and written, at each point of the code.*)

\* Before the stream a run has said nothing, and while it records, nothing
\* either; while it updates the status, it has said what it is writing; it
\* comes to write after a final status in a session that can write no more,
\* on a row that is gone, or because the database failed it.
Once(x) == \A s1, s2 \in x.wrote : s1 # s2 => "error" \in {s1, s2} /\ x.failed

ToldOK(x) ==
    /\ x.pc \in {"idle", "create", "created", "open", "stream"} \cup Update
         /\ x.target = "running"
       => x.sent = {} /\ x.billed = {} /\ x.wrote = {}
    /\ x.pc \in {"record", "recorded", "done"} =>
         x.target = "running" /\ x.sent = {} /\ x.wrote = {}
    /\ x.pc \in Update =>
         /\ x.target = "awaiting_approval" => x.sent = {"awaiting_approval"}
         /\ x.target = "completed" => x.sent = {"done"}
         /\ x.target = "error" => "error" \in x.sent
    /\ x.pc = "fail" => "error" \notin x.sent
    /\ x.pc = "commit" => x.wrote = {} \/ x.failed
    /\ x.pc = "refresh" => x.wrote \subseteq {x.target} \/ x.failed
    /\ x.pc \in {"get", "fail"} =>
         x.wrote = {} \/ x.poisoned \/ x.failed \/ x.snap \notin Live \cup {NoTxn}
    /\ x.failed => \/ x.pc \in {"fail", "closed"}
                   \/ x.pc \in Update /\ x.target = "error"
    /\ Once(x)
    /\ x.sent # {} => x.thread \in Threads

ToldShape == \A r \in Runs : ToldOK(run[r])

\* Where a run is, after a step of its own, the others are not.
Alone(q) == \A r \in Runs : r # q => run'[r] = run[r]

LEMMA ToldAlone ==
  ASSUME ToldShape, NEW q \in Runs, Alone(q), ToldOK(run'[q])
  PROVE  ToldShape'
<1>1. ASSUME NEW r \in Runs PROVE ToldOK(run'[r])
  BY DEF ToldShape, Alone
<1>2. QED
  BY <1>1 DEF ToldShape

\* The fields of what Raised and Returned make of a run.
LEMMA RaisedFields ==
  ASSUME TypeOK, NEW r \in Runs, NEW b \in BOOLEAN
  PROVE  /\ Raised(r, b).pc =
                IF run[r].pc \in Update /\ run[r].target = "error" THEN "closed" ELSE "fail"
         /\ Raised(r, b).lost = (run[r].pc \in Update /\ run[r].target = "error")
         /\ Raised(r, b).poisoned = b /\ Raised(r, b).failed = run[r].failed
         /\ Raised(r, b).thread = run[r].thread /\ Raised(r, b).target = run[r].target
         /\ Raised(r, b).snap = run[r].snap /\ Raised(r, b).sent = run[r].sent
         /\ Raised(r, b).billed = run[r].billed /\ Raised(r, b).wrote = run[r].wrote
         /\ Raised(r, b) \in Run
<1>1. run[r] \in Run
  BY DEF TypeOK
<1>2. Raised(r, b) \in Run
  BY <1>1, Names DEF Raised, Run
<1>3. QED
  BY <1>1, <1>2 DEF Raised, Run

\* The fields that stay when one of a run's histories or its snapshot changes.
Same(x, y) ==
    /\ y.pc = x.pc /\ y.target = x.target /\ y.thread = x.thread /\ y.sent = x.sent
    /\ y.poisoned = x.poisoned /\ y.lost = x.lost

\* What a failing statement makes of a run.
LEMMA DbRaisedFields ==
  ASSUME TypeOK, NEW r \in Runs, NEW b \in BOOLEAN
  PROVE  /\ DbRaised(r, b) \in Run /\ Same(Raised(r, b), DbRaised(r, b))
         /\ DbRaised(r, b).failed
         /\ DbRaised(r, b).thread = run[r].thread /\ DbRaised(r, b).sent = run[r].sent
         /\ DbRaised(r, b).target = run[r].target
         /\ DbRaised(r, b).poisoned = b /\ DbRaised(r, b).snap = run[r].snap
         /\ DbRaised(r, b).billed = run[r].billed /\ DbRaised(r, b).wrote = run[r].wrote
<1>1. Raised(r, b) \in Run
  BY RaisedFields
<1>2. /\ DbRaised(r, b) \in Run /\ Same(Raised(r, b), DbRaised(r, b))
      /\ DbRaised(r, b).failed /\ DbRaised(r, b).snap = Raised(r, b).snap
      /\ DbRaised(r, b).billed = Raised(r, b).billed
      /\ DbRaised(r, b).wrote = Raised(r, b).wrote
  BY <1>1 DEF DbRaised, Run, Same
<1>3. QED
  BY <1>2, RaisedFields DEF Same

\* An exception leaves a run that has told no error yet, or ends it.
LEMMA RaisedTold ==
  ASSUME TypeOK, RunShape, ToldShape, NEW r \in Runs, NEW b \in BOOLEAN, NEW s,
         run[r].pc \in Update \cup {"stream", "record", "recorded"},
         NEW y, y.pc = Raised(r, b).pc, y.target = run[r].target,
         y.thread = run[r].thread, y.sent = run[r].sent,
         y.poisoned = b, y.snap = s,
         Once(y),
         y.wrote = {} \/ b \/ y.failed \/ s \notin Live \cup {NoTxn}
  PROVE  ToldOK(y)
<1>1. ToldOK(run[r]) /\ RunOK(run[r]) /\ run[r] \in Run
  BY DEF ToldShape, RunShape, TypeOK
<1>2. y.pc = IF run[r].pc \in Update /\ run[r].target = "error" THEN "closed" ELSE "fail"
  BY RaisedFields
<1>3. CASE run[r].pc \in Update /\ run[r].target = "error"
  BY <1>1, <1>2, <1>3 DEF ToldOK, Update
<1>4. CASE ~(run[r].pc \in Update /\ run[r].target = "error")
  <2>1. run[r].target \in {"running", "awaiting_approval", "completed", "error"}
    BY <1>1 DEF Run, Target, Final
  <2>2. "error" \notin run[r].sent
    BY <1>1, <1>4, <2>1 DEF ToldOK, RunOK
  <2>3. QED
    BY <1>1, <1>2, <1>4, <2>2 DEF ToldOK, Update
<1>5. QED
  BY <1>3, <1>4

\* A handler says and writes nothing.
RequestOutcome(q) ==
    /\ run'[q].pc \in {"create", "open", "closed"}
    /\ run'[q].target = run[q].target /\ run'[q].sent = run[q].sent
    /\ run'[q].billed = run[q].billed /\ run'[q].wrote = run[q].wrote
    /\ run'[q].failed = run[q].failed

LEMMA RequestSays ==
  ASSUME TypeOK, NEW q \in Runs, Request(q)
  PROVE  run[q].pc = "idle" /\ RequestOutcome(q)
<1>1. run[q] \in Run
  BY DEF TypeOK
<1>2. run[q].pc = "idle"
  BY DEF Request, Chat, ChatNewThread, ChatRefused, ResumeChat, ResumeRefused
<1>3. RequestOutcome(q)
  <2>1. ASSUME NEW a \in Agents, ChatNewThread(q, a) PROVE RequestOutcome(q)
    BY <1>1, <2>1 DEF ChatNewThread, TypeOK, Run, RequestOutcome
  <2>2. ASSUME NEW a \in Agents, NEW t \in Threads, Chat(q, t, a) PROVE RequestOutcome(q)
    BY <1>1, <2>2 DEF Chat, TypeOK, Run, RequestOutcome
  <2>3. ASSUME NEW t \in Threads, ResumeChat(q, t) PROVE RequestOutcome(q)
    BY <1>1, <2>3 DEF ResumeChat, TypeOK, Run, RequestOutcome
  <2>4. CASE ChatRefused(q)
    BY <1>1, <2>4 DEF ChatRefused, TypeOK, Run, RequestOutcome
  <2>5. CASE ResumeRefused(q)
    BY <1>1, <2>5 DEF ResumeRefused, TypeOK, Run, RequestOutcome
  <2>6. QED
    BY <2>1, <2>2, <2>3, <2>4, <2>5 DEF Request
<1>4. QED
  BY <1>2, <1>3

LEMMA RequestTold ==
  ASSUME TypeOK, RunShape, ToldShape, NEW q \in Runs, Request(q)
  PROVE  ToldShape'
<1>1. ToldOK(run[q]) /\ RunOK(run[q])
  BY DEF ToldShape, RunShape
<1>2. Alone(q)
  BY DEF Request, Chat, ChatNewThread, ChatRefused, ResumeChat, ResumeRefused, TypeOK, Alone
<1>3. run[q].pc = "idle" /\ RequestOutcome(q)
  BY RequestSays
<1>4. run[q].sent = {} /\ run[q].billed = {} /\ run[q].wrote = {} /\ ~run[q].failed
  BY <1>1, <1>3 DEF ToldOK, RunOK, Update, TypeOK, Run
<1>5. ToldOK(run'[q])
  BY <1>3, <1>4 DEF ToldOK, Once, Update, RequestOutcome
<1>6. QED
  BY <1>2, <1>5, ToldAlone

\* Steps that say nothing, write nothing and bill nothing.
LEMMA QuietTold ==
  ASSUME TypeOK, RunShape, ToldShape, NEW q \in Runs,
         \/ \E t \in Threads : CreateCommit(q, t)
         \/ CreateRefresh(q) \/ AgentOutput(q) \/ AgentEnd(q)
  PROVE  ToldShape'
<1>1. ToldOK(run[q]) /\ RunOK(run[q]) /\ run[q] \in Run
  BY DEF ToldShape, RunShape, TypeOK
<1>2. Alone(q)
  BY DEF CreateCommit, CreateRefresh, AgentOutput, AgentEnd, TypeOK, Alone
<1>3. /\ run[q].pc \in {"create", "created", "stream"}
      /\ run'[q].pc \in {"created", "open", "closed", "stream", "record"}
  BY <1>1 DEF CreateCommit, CreateRefresh, AgentOutput, AgentEnd, TypeOK, Run
<1>4. /\ run'[q].target = run[q].target /\ run'[q].sent = run[q].sent
      /\ run'[q].billed = run[q].billed /\ run'[q].wrote = run[q].wrote
      /\ run'[q].failed = run[q].failed
  BY <1>1 DEF CreateCommit, CreateRefresh, AgentOutput, AgentEnd, TypeOK, Run
<1>5. /\ run[q].target = "running" /\ ~run[q].failed
      /\ run[q].sent = {} /\ run[q].billed = {} /\ run[q].wrote = {}
  BY <1>1, <1>3 DEF ToldOK, RunOK, Update, Run
<1>6. ToldOK(run'[q])
  BY <1>3, <1>4, <1>5 DEF ToldOK, Once, Update
<1>7. QED
  BY <1>2, <1>6, ToldAlone

LEMMA StartStreamTold ==
  ASSUME TypeOK, RunShape, ToldShape, NEW q \in Runs, StartStream(q)
  PROVE  ToldShape'
<1>1. ToldOK(run[q]) /\ RunOK(run[q]) /\ run[q] \in Run /\ run[q].pc = "open"
  BY DEF ToldShape, RunShape, TypeOK, StartStream
<1>2. Alone(q)
  BY DEF StartStream, TypeOK, Alone
<1>3. /\ run'[q].target = run[q].target /\ run'[q].thread = run[q].thread
      /\ run'[q].billed = run[q].billed /\ run'[q].wrote = run[q].wrote
      /\ run'[q].failed = run[q].failed
      /\ \/ run'[q].pc = "get" /\ run'[q].sent = run[q].sent
         \/ run'[q].pc = "closed" /\ run'[q].sent = run[q].sent \cup {"error"}
  <2>1. PICK s \in {run[q].snap, NoTxn} :
        run' = IF run[q].agent \in KnownAgents
               THEN [run EXCEPT ![q].pc = "get", ![q].snap = s]
               ELSE [run EXCEPT ![q].pc = "closed", ![q].snap = s,
                                ![q].sent = @ \cup {"error"}]
    BY DEF StartStream
  <2>2. QED
    BY <1>1, <2>1 DEF TypeOK, Run
<1>4. /\ run[q].target = "running" /\ run[q].thread \in Threads /\ ~run[q].failed
      /\ run[q].sent = {} /\ run[q].billed = {} /\ run[q].wrote = {}
  BY <1>1 DEF ToldOK, RunOK, Update, Run
<1>5. ToldOK(run'[q])
  BY <1>3, <1>4 DEF ToldOK, Once, Update
<1>6. QED
  BY <1>2, <1>5, ToldAlone

\* A get() that would let the except branch write a second final status
\* reads from a session that is broken, or a row that is gone, unless the
\* database failed the run.
LEMMA UpdateGetTold ==
  ASSUME TypeOK, RunShape, ToldShape, NEW q \in Runs, UpdateGet(q)
  PROVE  ToldShape'
<1> DEFINE seen == IF run[q].snap = NoTxn THEN status[run[q].thread] ELSE run[q].snap
<1>1. ToldOK(run[q]) /\ RunOK(run[q]) /\ run[q] \in Run /\ run[q].pc = "get"
  BY DEF ToldShape, RunShape, TypeOK, UpdateGet
<1>2. Alone(q)
  BY DEF UpdateGet, TypeOK, Alone
<1>3. CASE run[q].poisoned
  <2>1. run'[q] = Raised(q, TRUE)
    BY <1>3 DEF UpdateGet, TypeOK
  <2>2. Once(run'[q])
    <3>1. run'[q].wrote = run[q].wrote /\ run'[q].failed = run[q].failed
      BY <2>1, RaisedFields
    <3>2. QED
      BY <1>1, <3>1 DEF ToldOK, Once
  <2>3. ToldOK(run'[q])
    BY <1>1, <2>1, <2>2, RaisedFields, RaisedTold DEF Update
  <2>4. QED
    BY <1>2, <2>3, ToldAlone
<1>4. CASE ~run[q].poisoned /\ seen \in Live
  <2>1. run'[q] = [run[q] EXCEPT !.snap = seen, !.pc = "commit"]
    BY <1>1, <1>4 DEF UpdateGet, TypeOK, Run
  <2>2. run[q].wrote = {} \/ run[q].failed
    BY <1>1, <1>4 DEF ToldOK
  <2>3. /\ run'[q].pc = "commit" /\ run'[q].target = run[q].target
        /\ run'[q].thread = run[q].thread /\ run'[q].sent = run[q].sent
        /\ run'[q].billed = run[q].billed /\ run'[q].wrote = run[q].wrote
        /\ run'[q].failed = run[q].failed
    BY <1>1, <2>1 DEF Run
  <2>4. ToldOK(run'[q])
    BY <1>1, <2>2, <2>3 DEF ToldOK, Once, Update
  <2>5. QED
    BY <1>2, <2>4, ToldAlone
<1>5. CASE ~run[q].poisoned /\ seen \notin Live
  <2>1. run'[q] = Returned([run[q] EXCEPT !.snap = seen])
    BY <1>5 DEF UpdateGet, TypeOK
  <2>2. /\ run'[q].pc = IF run[q].target = "running" THEN "stream" ELSE "closed"
        /\ run'[q].target = run[q].target
        /\ run'[q].thread = run[q].thread /\ run'[q].sent = run[q].sent
        /\ run'[q].billed = run[q].billed /\ run'[q].wrote = run[q].wrote
        /\ run'[q].failed = run[q].failed
    BY <1>1, <2>1 DEF Returned, Run
  <2>3. ToldOK(run'[q])
    BY <1>1, <2>2 DEF ToldOK, Once, Update
  <2>4. QED
    BY <1>2, <2>3, ToldAlone
<1>6. QED
  BY <1>3, <1>4, <1>5

LEMMA UpdateCommitTold ==
  ASSUME TypeOK, RunShape, ToldShape, NEW q \in Runs, UpdateCommit(q)
  PROVE  ToldShape'
<1>1. ToldOK(run[q]) /\ RunOK(run[q]) /\ run[q] \in Run /\ run[q].pc = "commit"
  BY DEF ToldShape, RunShape, TypeOK, UpdateCommit
<1>2. Alone(q)
  BY DEF UpdateCommit, TypeOK, Alone
<1>3. /\ run[q].wrote = {} \/ (run[q].failed /\ run[q].target = "error")
      /\ Once(run[q])
  BY <1>1 DEF ToldOK
<1>4. CASE run[q].snap # run[q].target /\ status[run[q].thread] \notin Live
  <2>1. run'[q] = Raised(q, TRUE)
    BY <1>4 DEF UpdateCommit, TypeOK
  <2>2. Once(run'[q])
    BY <1>3, <2>1, RaisedFields DEF Once
  <2>3. ToldOK(run'[q])
    BY <1>1, <2>1, <2>2, RaisedFields, RaisedTold DEF Update
  <2>4. QED
    BY <1>2, <2>3, ToldAlone
<1>5. CASE ~(run[q].snap # run[q].target /\ status[run[q].thread] \notin Live)
  <2> DEFINE w == IF run[q].snap # run[q].target /\ run[q].target \in Final
                  THEN run[q].wrote \cup {run[q].target} ELSE run[q].wrote
             x == [run[q] EXCEPT !.pc = "refresh", !.snap = NoTxn, !.wrote = w]
  <2>1. run' = [run EXCEPT ![q] = x]
    BY <1>1, <1>5 DEF UpdateCommit, TypeOK, Run
  <2>2. run'[q] = x
    BY <2>1 DEF TypeOK
  <2>3. w \subseteq run[q].wrote \cup ({run[q].target} \cap Final)
    OBVIOUS
  <2>4. /\ run'[q].pc = "refresh" /\ run'[q].target = run[q].target
        /\ run'[q].thread = run[q].thread /\ run'[q].sent = run[q].sent
        /\ run'[q].billed = run[q].billed /\ run'[q].wrote = w
        /\ run'[q].failed = run[q].failed
    BY <1>1, <2>2 DEF Run
  <2> HIDE DEF w, x
  <2>5. run'[q].target = "running" => run'[q].wrote = {}
    BY <1>3, <2>3, <2>4, Names
  <2>6. run'[q].wrote \subseteq {run'[q].target} \/ run'[q].failed
    BY <1>3, <2>3, <2>4
  <2>7. Once(run'[q])
    BY <1>3, <2>3, <2>4 DEF Once
  <2>8. ToldOK(run'[q])
    BY <1>1, <2>4, <2>5, <2>6, <2>7 DEF ToldOK, Update
  <2>9. QED
    BY <1>2, <2>8, ToldAlone
<1>6. QED
  BY <1>4, <1>5

LEMMA UpdateRefreshTold ==
  ASSUME TypeOK, RunShape, ToldShape, NEW q \in Runs, UpdateRefresh(q)
  PROVE  ToldShape'
<1> DEFINE s == status[run[q].thread]
<1>1. ToldOK(run[q]) /\ RunOK(run[q]) /\ run[q] \in Run /\ run[q].pc = "refresh"
  BY DEF ToldShape, RunShape, TypeOK, UpdateRefresh
<1>2. Alone(q)
  BY DEF UpdateRefresh, TypeOK, Alone
<1>3. Once(run[q])
  BY <1>1 DEF ToldOK
<1>4. CASE s \in Live
  <2>1. run'[q] = Returned([run[q] EXCEPT !.snap = s])
    BY <1>4 DEF UpdateRefresh, TypeOK
  <2>2. /\ run'[q].pc = IF run[q].target = "running" THEN "stream" ELSE "closed"
        /\ run'[q].target = run[q].target
        /\ run'[q].thread = run[q].thread /\ run'[q].sent = run[q].sent
        /\ run'[q].billed = run[q].billed /\ run'[q].wrote = run[q].wrote
        /\ run'[q].failed = run[q].failed
    BY <1>1, <2>1 DEF Returned, Run
  <2>3. ToldOK(run'[q])
    BY <1>1, <2>2 DEF ToldOK, Once, Update
  <2>4. QED
    BY <1>2, <2>3, ToldAlone
<1>5. CASE s \notin Live
  <2>1. s \in Status
    BY <1>1 DEF RunOK, TypeOK
  <2>2. s # NoTxn
    BY <2>1 DEF Status, Live, Final, NoTxn
  <2>3. run'[q] = [Raised(q, FALSE) EXCEPT !.snap = s]
    BY <1>5 DEF UpdateRefresh, TypeOK
  <2>4. /\ run'[q].pc = Raised(q, FALSE).pc /\ run'[q].snap = s
        /\ run'[q].target = run[q].target /\ run'[q].poisoned = FALSE
        /\ run'[q].thread = run[q].thread /\ run'[q].sent = run[q].sent
        /\ run'[q].wrote = run[q].wrote /\ run'[q].failed = run[q].failed
    <3>1. Raised(q, FALSE) \in Run
      BY RaisedFields
    <3>2. Same(Raised(q, FALSE), run'[q]) /\ run'[q].snap = s
          /\ run'[q].wrote = Raised(q, FALSE).wrote
          /\ run'[q].failed = Raised(q, FALSE).failed
      BY <2>3, <3>1 DEF Run, Same
    <3>3. QED
      BY <3>2, RaisedFields DEF Same
  <2>5. Once(run'[q])
    BY <1>3, <2>4 DEF Once
  <2>6. s \notin Live \cup {NoTxn} /\ run[q].pc \in Update
    BY <1>1, <1>5, <2>2 DEF Update
  <2> HIDE DEF s
  <2>7. ToldOK(run'[q])
    BY <2>4, <2>5, <2>6, RaisedTold
  <2>8. QED
    BY <1>2, <2>7, ToldAlone
<1>6. QED
  BY <1>4, <1>5

LEMMA AgentHitlTold ==
  ASSUME TypeOK, RunShape, ToldShape, NEW q \in Runs, AgentHitl(q)
  PROVE  ToldShape'
<1>1. ToldOK(run[q]) /\ RunOK(run[q]) /\ run[q] \in Run /\ run[q].pc = "stream"
  BY DEF ToldShape, RunShape, TypeOK, AgentHitl
<1>2. Alone(q)
  BY DEF AgentHitl, TypeOK, Alone
<1>3. /\ run'[q].pc = "get" /\ run'[q].target = "awaiting_approval"
      /\ run'[q].thread = run[q].thread /\ run'[q].wrote = run[q].wrote
      /\ run'[q].failed = run[q].failed
      /\ run'[q].sent = run[q].sent \cup {"awaiting_approval"}
  BY <1>1 DEF AgentHitl, TypeOK, Run
<1>4. /\ run[q].thread \in Threads /\ run[q].sent = {} /\ run[q].wrote = {}
      /\ ~run[q].failed
  BY <1>1 DEF ToldOK, RunOK, Update, Run
<1>5. ToldOK(run'[q])
  BY <1>3, <1>4 DEF ToldOK, Once
<1>6. QED
  BY <1>2, <1>5, ToldAlone

LEMMA AgentRaiseTold ==
  ASSUME TypeOK, RunShape, ToldShape, NEW q \in Runs, AgentRaise(q)
  PROVE  ToldShape'
<1>1. ToldOK(run[q]) /\ RunOK(run[q]) /\ run[q] \in Run /\ run[q].pc = "stream"
  BY DEF ToldShape, RunShape, TypeOK, AgentRaise
<1>2. Alone(q)
  BY DEF AgentRaise, TypeOK, Alone
<1>3. run'[q] = Raised(q, FALSE)
  BY DEF AgentRaise, TypeOK
<1>4. run[q].wrote = {}
  BY <1>1 DEF ToldOK, RunOK
<1>5. Once(run'[q]) /\ run'[q].wrote = {}
  BY <1>3, <1>4, RaisedFields DEF Once
<1>6. ToldOK(run'[q])
  BY <1>1, <1>3, <1>5, RaisedFields, RaisedTold
<1>7. QED
  BY <1>2, <1>6, ToldAlone

LEMMA RecordCommitTold ==
  ASSUME TypeOK, RunShape, ToldShape, NEW q \in Runs, RecordCommit(q)
  PROVE  ToldShape'
<1>1. ToldOK(run[q]) /\ run[q] \in Run /\ run[q].pc = "record"
  BY DEF ToldShape, TypeOK, RecordCommit
<1>2. Alone(q)
  BY DEF RecordCommit, TypeOK, Alone
<1>3. /\ run'[q].pc = "recorded" /\ run'[q].target = run[q].target
      /\ run'[q].sent = run[q].sent /\ run'[q].wrote = run[q].wrote
      /\ run'[q].failed = run[q].failed
  BY <1>1 DEF RecordCommit, TypeOK, Run
<1>4. ToldOK(run'[q])
  BY <1>1, <1>3 DEF ToldOK, Once, Update, Run
<1>5. QED
  BY <1>2, <1>4, ToldAlone

LEMMA RecordRefreshTold ==
  ASSUME TypeOK, RunShape, ToldShape, NEW q \in Runs, RecordRefresh(q)
  PROVE  ToldShape'
<1> DEFINE s == status[run[q].thread]
<1>1. ToldOK(run[q]) /\ run[q] \in Run /\ run[q].pc = "recorded"
  BY DEF ToldShape, TypeOK, RecordRefresh
<1>2. Alone(q)
  BY DEF RecordRefresh, TypeOK, Alone
<1>3. run[q].wrote = {}
  BY <1>1 DEF ToldOK
<1>4. CASE <<q, Period[run[q].period]>> \in usage
  <2>1. run'[q] = [run[q] EXCEPT !.snap = s,
                     !.pc = IF run[q].period = 3 THEN "done" ELSE "record",
                     !.period = @ + 1]
    BY <1>4 DEF RecordRefresh, TypeOK
  <2>2. /\ run'[q].pc \in {"done", "record"} /\ run'[q].target = run[q].target
        /\ run'[q].sent = run[q].sent /\ run'[q].wrote = run[q].wrote
        /\ run'[q].failed = run[q].failed
    BY <1>1, <2>1 DEF Run
  <2>3. ToldOK(run'[q])
    BY <1>1, <2>2 DEF ToldOK, Once, Update, Run
  <2>4. QED
    BY <1>2, <2>3, ToldAlone
<1>5. CASE <<q, Period[run[q].period]>> \notin usage
  <2>1. run'[q] = [Raised(q, FALSE) EXCEPT !.snap = s]
    BY <1>5 DEF RecordRefresh, TypeOK
  <2>2. /\ run'[q].pc = Raised(q, FALSE).pc /\ run'[q].snap = s
        /\ run'[q].target = run[q].target /\ run'[q].poisoned = FALSE
        /\ run'[q].thread = run[q].thread /\ run'[q].sent = run[q].sent
        /\ run'[q].wrote = run[q].wrote
    <3>1. Raised(q, FALSE) \in Run
      BY RaisedFields
    <3>2. Same(Raised(q, FALSE), run'[q]) /\ run'[q].snap = s
          /\ run'[q].wrote = Raised(q, FALSE).wrote
      BY <2>1, <3>1 DEF Run, Same
    <3>3. QED
      BY <3>2, RaisedFields DEF Same
  <2>3. Once(run'[q]) /\ run'[q].wrote = {}
    BY <1>3, <2>2 DEF Once
  <2>4. ToldOK(run'[q])
    BY <1>1, <2>2, <2>3, RaisedTold
  <2>5. QED
    BY <1>2, <2>4, ToldAlone
<1>6. QED
  BY <1>4, <1>5

LEMMA SendDoneTold ==
  ASSUME TypeOK, RunShape, ToldShape, NEW q \in Runs, SendDone(q)
  PROVE  ToldShape'
<1>1. ToldOK(run[q]) /\ RunOK(run[q]) /\ run[q] \in Run /\ run[q].pc = "done"
  BY DEF ToldShape, RunShape, TypeOK, SendDone
<1>2. Alone(q)
  BY DEF SendDone, TypeOK, Alone
<1>3. /\ run'[q].pc = "get" /\ run'[q].target = "completed"
      /\ run'[q].thread = run[q].thread /\ run'[q].wrote = run[q].wrote
      /\ run'[q].failed = run[q].failed
      /\ run'[q].sent = run[q].sent \cup {"done"}
  BY <1>1 DEF SendDone, TypeOK, Run
<1>4. /\ run[q].thread \in Threads /\ run[q].sent = {} /\ run[q].wrote = {}
      /\ ~run[q].failed
  BY <1>1 DEF ToldOK, RunOK, Update, Run
<1>5. ToldOK(run'[q])
  BY <1>3, <1>4 DEF ToldOK, Once
<1>6. QED
  BY <1>2, <1>5, ToldAlone

LEMMA SendErrorTold ==
  ASSUME TypeOK, RunShape, ToldShape, NEW q \in Runs, SendError(q)
  PROVE  ToldShape'
<1>1. ToldOK(run[q]) /\ RunOK(run[q]) /\ run[q] \in Run /\ run[q].pc = "fail"
  BY DEF ToldShape, RunShape, TypeOK, SendError
<1>2. Alone(q)
  BY DEF SendError, TypeOK, Alone
<1>3. /\ run'[q].pc = "get" /\ run'[q].target = "error"
      /\ run'[q].thread = run[q].thread /\ run'[q].wrote = run[q].wrote
      /\ run'[q].failed = run[q].failed
      /\ run'[q].poisoned = run[q].poisoned /\ run'[q].snap = run[q].snap
      /\ run'[q].sent = run[q].sent \cup {"error"}
  BY <1>1 DEF SendError, TypeOK, Run
<1>4. run[q].thread \in Threads
  BY <1>1 DEF RunOK
<1>5. ToldOK(run'[q])
  BY <1>1, <1>3, <1>4 DEF ToldOK, Once, Update
<1>6. QED
  BY <1>2, <1>5, ToldAlone

\* A run that a fault ends has said and written what it had before.
LEMMA EndedTold ==
  ASSUME NEW x, ToldOK(x), NEW y, y.pc = "closed", y.thread = x.thread,
         y.sent = x.sent, y.wrote = x.wrote, y.failed = x.failed
  PROVE  ToldOK(y)
  BY DEF ToldOK, Once, Update

LEMMA FaultTold ==
  ASSUME TypeOK, RunShape, ToldShape, NEW q \in Runs, Disconnect(q) \/ DbFail(q)
  PROVE  ToldShape'
<1>1. ToldOK(run[q]) /\ RunOK(run[q]) /\ run[q] \in Run
  BY DEF ToldShape, RunShape, TypeOK
<1>2. Alone(q)
  BY DEF Disconnect, DbFail, TypeOK, Alone
<1>3. CASE Disconnect(q) \/ run[q].pc \in Handler
  <2>1. run'[q] = [run[q] EXCEPT !.pc = "closed", !.lost = TRUE]
    BY <1>1, <1>3 DEF Disconnect, DbFail, Handler, Update, TypeOK, Run
  <2>2. /\ run'[q].pc = "closed" /\ run'[q].thread = run[q].thread
        /\ run'[q].sent = run[q].sent /\ run'[q].wrote = run[q].wrote
        /\ run'[q].failed = run[q].failed
    BY <1>1, <2>1 DEF Run
  <2>3. QED
    BY <1>1, <1>2, <2>2, EndedTold, ToldAlone
<1>4. CASE DbFail(q) /\ run[q].pc \notin Handler
  <2>1. /\ run[q].pc \in Update \cup {"stream", "record", "recorded"}
        /\ \E b \in BOOLEAN : run'[q] = DbRaised(q, b)
    BY <1>4 DEF DbFail, TypeOK
  <2>2. PICK b \in BOOLEAN : run'[q] = DbRaised(q, b)
    BY <2>1
  <2>3. /\ run'[q].pc = Raised(q, b).pc /\ run'[q].target = run[q].target
        /\ run'[q].thread = run[q].thread /\ run'[q].sent = run[q].sent
        /\ run'[q].poisoned = b /\ run'[q].snap = run[q].snap
        /\ run'[q].wrote = run[q].wrote /\ run'[q].failed
    BY <2>2, DbRaisedFields DEF Same
  <2>4. Once(run'[q])
    BY <1>1, <2>3 DEF ToldOK, Once
  <2>5. ToldOK(run'[q])
    BY <2>1, <2>3, <2>4, RaisedTold
  <2>6. QED
    BY <1>2, <2>5, ToldAlone
<1>5. QED
  BY <1>3, <1>4

LEMMA DbFailAfterCommitTold ==
  ASSUME TypeOK, RunShape, ToldShape, NEW q \in Runs, DbFailAfterCommit(q)
  PROVE  ToldShape'
<1>1. ToldOK(run[q]) /\ RunOK(run[q]) /\ run[q] \in Run
  BY DEF ToldShape, RunShape, TypeOK
<1>2. Alone(q)
  BY DEF DbFailAfterCommit, TypeOK, Alone
<1>3. CASE run[q].pc = "create"
  <2>1. /\ run'[q].pc = "closed" /\ run'[q].thread = run[q].thread
        /\ run'[q].sent = run[q].sent /\ run'[q].wrote = run[q].wrote
        /\ run'[q].failed = run[q].failed
    BY <1>1, <1>3 DEF DbFailAfterCommit, TypeOK, Run
  <2>2. QED
    BY <1>1, <1>2, <2>1, EndedTold, ToldAlone
<1>4. CASE run[q].pc = "record"
  <2>1. run'[q] = [DbRaised(q, TRUE) EXCEPT !.billed = @ \cup {Period[run[q].period]}]
    BY <1>4 DEF DbFailAfterCommit, TypeOK
  <2>2. /\ run'[q].pc = Raised(q, TRUE).pc /\ run'[q].target = run[q].target
        /\ run'[q].thread = run[q].thread /\ run'[q].sent = run[q].sent
        /\ run'[q].poisoned = TRUE /\ run'[q].snap = run[q].snap
        /\ run'[q].wrote = run[q].wrote /\ run'[q].failed
    <3>1. DbRaised(q, TRUE) \in Run
      BY DbRaisedFields
    <3>2. /\ Same(DbRaised(q, TRUE), run'[q]) /\ run'[q].snap = DbRaised(q, TRUE).snap
          /\ run'[q].wrote = DbRaised(q, TRUE).wrote
          /\ run'[q].failed = DbRaised(q, TRUE).failed
      BY <2>1, <3>1 DEF Run, Same
    <3>3. QED
      BY <3>2, DbRaisedFields DEF Same
  <2>3. Once(run'[q])
    BY <1>1, <2>2 DEF ToldOK, Once
  <2>4. ToldOK(run'[q])
    BY <1>4, <2>2, <2>3, RaisedTold
  <2>5. QED
    BY <1>2, <2>4, ToldAlone
<1>5. CASE run[q].pc = "commit"
  <2>1. run'[q] = [DbRaised(q, TRUE) EXCEPT !.wrote = @ \cup ({run[q].target} \cap Final)]
    BY <1>5 DEF DbFailAfterCommit, TypeOK
  <2>2. /\ run'[q].pc = Raised(q, TRUE).pc /\ run'[q].target = run[q].target
        /\ run'[q].thread = run[q].thread /\ run'[q].sent = run[q].sent
        /\ run'[q].poisoned = TRUE /\ run'[q].snap = run[q].snap
        /\ run'[q].wrote = run[q].wrote \cup ({run[q].target} \cap Final)
        /\ run'[q].failed
    <3>1. DbRaised(q, TRUE) \in Run
      BY DbRaisedFields
    <3>2. /\ Same(DbRaised(q, TRUE), run'[q]) /\ run'[q].snap = DbRaised(q, TRUE).snap
          /\ run'[q].wrote = DbRaised(q, TRUE).wrote \cup ({run[q].target} \cap Final)
          /\ run'[q].failed = DbRaised(q, TRUE).failed
      BY <2>1, <3>1 DEF Run, Same
    <3>3. QED
      BY <3>2, DbRaisedFields DEF Same
  <2>3. Once(run'[q])
    <3>1. run[q].wrote = {} \/ run[q].target = "error"
      BY <1>1, <1>5 DEF ToldOK
    <3>2. Once(run[q])
      BY <1>1 DEF ToldOK
    <3>3. \A s1, s2 \in run'[q].wrote : s1 # s2 => "error" \in {s1, s2}
      BY <2>2, <3>1, <3>2 DEF Once
    <3>4. QED
      BY <2>2, <3>3 DEF Once
  <2>4. ToldOK(run'[q])
    BY <1>5, <2>2, <2>3, RaisedTold DEF Update
  <2>5. QED
    BY <1>2, <2>4, ToldAlone
<1>6. QED
  BY <1>3, <1>4, <1>5 DEF DbFailAfterCommit

LEMMA CrashTold ==
  ASSUME TypeOK, RunShape, ToldShape, Crash
  PROVE  ToldShape'
<1> SUFFICES ASSUME NEW r \in Runs PROVE ToldOK(run'[r])
  BY DEF ToldShape
<1>1. ToldOK(run[r]) /\ run[r] \in Run
  BY DEF ToldShape, TypeOK
<1>2. CASE run[r].pc \in Handler \cup Streaming
  <2>1. run'[r] = [run[r] EXCEPT !.pc = "closed", !.lost = TRUE]
    BY <1>2 DEF Crash
  <2>2. /\ run'[r].pc = "closed" /\ run'[r].thread = run[r].thread
        /\ run'[r].sent = run[r].sent /\ run'[r].wrote = run[r].wrote
        /\ run'[r].failed = run[r].failed
    BY <1>1, <2>1 DEF Run
  <2>3. QED
    BY <1>1, <2>2, EndedTold
<1>3. CASE run[r].pc \notin Handler \cup Streaming
  BY <1>1, <1>3 DEF Crash
<1>4. QED
  BY <1>2, <1>3

LEMMA InitTold == Init => ToldShape
  BY DEF Init, NewRun, ToldShape, ToldOK, Once, Update

LEMMA NextTold ==
  ASSUME TypeOK, RunShape, ToldShape, [Next]_vars
  PROVE  ToldShape'
<1>1. ASSUME NEW r \in Runs, RunStep(r) PROVE ToldShape'
  BY <1>1, QuietTold, StartStreamTold, UpdateGetTold, UpdateCommitTold,
     UpdateRefreshTold, AgentHitlTold, AgentRaiseTold, RecordCommitTold,
     RecordRefreshTold, SendDoneTold, SendErrorTold DEF RunStep
<1>2. ASSUME run' = run PROVE ToldShape'
  BY <1>2 DEF ToldShape
<1>3. QED
  BY <1>1, <1>2, RequestTold, FaultTold, DbFailAfterCommitTold, CrashTold
     DEF Next, Environment, DeleteSession, QuotaReset, vars

\* What every state of the chat satisfies.
Inv == TypeOK /\ RunShape /\ ToldShape

LEMMA InvCorrect == Spec => []Inv
<1>1. Init => Inv
  BY InitLocal, InitTold DEF Inv
<1>2. Inv /\ [Next]_vars => Inv'
  BY NextLocal, NextTold DEF Inv
<1>3. QED
  BY <1>1, <1>2, PTL DEF Spec

\* chat.py:44-68: however the exceptions of update_status lead through the
\* except branch, a run writes one final status to its thread, or none, unless
\* the database failed it; then "error" may come after another.
THEOREM RevisedOnlyOnFailureCorrect == Spec => []RevisedOnlyOnFailure
<1>1. Inv => RevisedOnlyOnFailure
  BY DEF Inv, ToldShape, ToldOK, Once, RevisedOnlyOnFailure
<1>2. QED
  BY <1>1, InvCorrect, PTL

-----------------------------------------------------------------------------
(* What a client can rely on when a run goes wrong after its answer.       *)

\* The process dies under run r.
Dies(r) == run'[r] = [run[r] EXCEPT !.pc = "closed", !.lost = TRUE]

StepOf(r) ==
    \/ Request(r) \/ RunStep(r)
    \/ Disconnect(r) \/ DbFail(r) \/ DbFailAfterCommit(r)

LEMMA StepAlone ==
  ASSUME TypeOK, NEW q \in Runs, StepOf(q)
  PROVE  Alone(q)
<1>1. CASE Request(q)
  BY <1>1 DEF Request, Chat, ChatNewThread, ChatRefused, ResumeChat, ResumeRefused,
     TypeOK, Alone
<1>2. CASE RunStep(q)
  <2>1. CASE \/ \E t \in Threads : CreateCommit(q, t)
             \/ CreateRefresh(q) \/ StartStream(q) \/ UpdateGet(q)
             \/ UpdateCommit(q) \/ UpdateRefresh(q)
    BY <2>1 DEF CreateCommit, CreateRefresh, StartStream, UpdateGet, UpdateCommit,
       UpdateRefresh, TypeOK, Alone
  <2>2. CASE \/ AgentOutput(q) \/ AgentHitl(q) \/ AgentRaise(q) \/ AgentEnd(q)
             \/ RecordCommit(q) \/ RecordRefresh(q) \/ SendDone(q) \/ SendError(q)
    BY <2>2 DEF AgentOutput, AgentHitl, AgentRaise, AgentEnd, RecordCommit,
       RecordRefresh, SendDone, SendError, TypeOK, Alone
  <2>3. QED
    BY <1>2, <2>1, <2>2 DEF RunStep
<1>3. CASE Disconnect(q) \/ DbFail(q) \/ DbFailAfterCommit(q)
  BY <1>3 DEF Disconnect, DbFail, DbFailAfterCommit, TypeOK, Alone
<1>4. QED
  BY <1>1, <1>2, <1>3 DEF StepOf

\* Seen from one run, a step is its own, or the crash, or leaves it alone.
LEMMA SeenFrom ==
  ASSUME TypeOK, [Next]_vars, NEW r \in Runs
  PROVE  run'[r] = run[r] \/ StepOf(r) \/ Dies(r)
<1>1. ASSUME NEW q \in Runs, StepOf(q) PROVE run'[r] = run[r] \/ StepOf(r)
  BY <1>1, StepAlone DEF Alone
<1>2. CASE Crash
  BY <1>2 DEF Crash, Dies
<1>3. CASE \/ \E t \in Threads : DeleteSession(t)
           \/ \E u \in Users, p \in Periods : QuotaReset(u, p)
           \/ UNCHANGED vars
  BY <1>3 DEF DeleteSession, QuotaReset, vars
<1>4. QED
  BY <1>1, <1>2, <1>3 DEF Next, Environment, StepOf

\* What update_status does to a run: it says and bills nothing, and leads to
\* the except branch only from a broken session or where the row is gone.
LEMMA UpdateFields ==
  ASSUME TypeOK, RunShape, NEW q \in Runs,
         UpdateGet(q) \/ UpdateCommit(q) \/ UpdateRefresh(q)
  PROVE  /\ run[q].pc \in Update
         /\ run'[q].sent = run[q].sent /\ run'[q].billed = run[q].billed
         /\ run'[q].thread = run[q].thread /\ run'[q].failed = run[q].failed
         /\ \/ run[q].poisoned
            \/ status[run[q].thread] \notin Live
            \/ run'[q].pc # "fail"
<1>1. run[q] \in Run /\ RunOK(run[q])
  BY DEF TypeOK, RunShape
<1>2. CASE UpdateGet(q)
  <2> DEFINE seen == IF run[q].snap = NoTxn THEN status[run[q].thread] ELSE run[q].snap
  <2>1. run[q].pc = "get"
    BY <1>2 DEF UpdateGet
  <2>2. CASE run[q].poisoned
    <3>1. run'[q] = Raised(q, TRUE)
      BY <1>2, <2>2 DEF UpdateGet, TypeOK
    <3>2. QED
      BY <2>1, <2>2, <3>1, RaisedFields DEF Update
  <2>3. CASE ~run[q].poisoned /\ seen \in Live
    <3>1. run'[q] = [run[q] EXCEPT !.snap = seen, !.pc = "commit"]
      BY <1>1, <1>2, <2>3 DEF UpdateGet, TypeOK, Run
    <3>2. QED
      BY <1>1, <2>1, <3>1 DEF Run, Update
  <2>4. CASE ~run[q].poisoned /\ seen \notin Live
    <3>1. run'[q] = Returned([run[q] EXCEPT !.snap = seen])
      BY <1>2, <2>4 DEF UpdateGet, TypeOK
    <3>2. QED
      BY <1>1, <2>1, <3>1 DEF Returned, Run, Update
  <2>5. QED
    BY <2>2, <2>3, <2>4
<1>3. CASE UpdateCommit(q)
  <2>1. run[q].pc = "commit"
    BY <1>3 DEF UpdateCommit
  <2>2. CASE run[q].snap # run[q].target /\ status[run[q].thread] \notin Live
    <3>1. run'[q] = Raised(q, TRUE)
      BY <1>3, <2>2 DEF UpdateCommit, TypeOK
    <3>2. QED
      BY <2>1, <2>2, <3>1, RaisedFields DEF Update
  <2>3. CASE ~(run[q].snap # run[q].target /\ status[run[q].thread] \notin Live)
    <3> DEFINE w == IF run[q].snap # run[q].target /\ run[q].target \in Final
                    THEN run[q].wrote \cup {run[q].target} ELSE run[q].wrote
               x == [run[q] EXCEPT !.pc = "refresh", !.snap = NoTxn, !.wrote = w]
    <3>1. run' = [run EXCEPT ![q] = x]
      BY <1>1, <1>3, <2>3 DEF UpdateCommit, TypeOK, Run
    <3>2. run'[q] = x
      BY <3>1 DEF TypeOK
    <3> HIDE DEF w
    <3>3. QED
      BY <1>1, <2>1, <3>2 DEF Run, Update
  <2>4. QED
    BY <2>2, <2>3
<1>4. CASE UpdateRefresh(q)
  <2> DEFINE s == status[run[q].thread]
  <2>1. run[q].pc = "refresh" /\ ~run[q].poisoned /\ ~run[q].lost
    BY <1>1, <1>4 DEF UpdateRefresh, RunOK, Run
  <2>2. CASE s \in Live
    <3>1. run'[q] = Returned([run[q] EXCEPT !.snap = s])
      BY <1>4, <2>2 DEF UpdateRefresh, TypeOK
    <3>2. QED
      BY <1>1, <2>1, <3>1 DEF Returned, Run, Update
  <2>3. CASE s \notin Live
    <3>1. run'[q] = [Raised(q, FALSE) EXCEPT !.snap = s]
      BY <1>4, <2>3 DEF UpdateRefresh, TypeOK
    <3>2. Raised(q, FALSE) \in Run
      BY RaisedFields
    <3>3. /\ Same(Raised(q, FALSE), run'[q]) /\ run'[q].billed = Raised(q, FALSE).billed
          /\ run'[q].failed = Raised(q, FALSE).failed
      BY <3>1, <3>2 DEF Run, Same
    <3>4. QED
      BY <1>4, <2>1, <2>3, <3>3, RaisedFields DEF Same, Update
  <2>4. QED
    BY <2>2, <2>3
<1>5. QED
  BY <1>2, <1>3, <1>4

\* A failing statement is recorded in the run's history, or ends the handler.
LEMMA FailureFields ==
  ASSUME TypeOK, NEW q \in Runs, DbFail(q) \/ DbFailAfterCommit(q)
  PROVE  /\ run'[q].thread = run[q].thread /\ run'[q].sent = run[q].sent
         /\ run'[q].failed \/ (run[q].pc \in Handler /\ run'[q].lost)
<1>1. run[q] \in Run
  BY DEF TypeOK
<1>2. CASE DbFail(q) /\ run[q].pc \notin Handler
  <2>1. PICK b \in BOOLEAN : run'[q] = DbRaised(q, b)
    BY <1>2 DEF DbFail, TypeOK
  <2>2. QED
    BY <2>1, DbRaisedFields
<1>3. CASE (DbFail(q) /\ run[q].pc \in Handler) \/ (DbFailAfterCommit(q) /\ run[q].pc = "create")
  <2>1. run'[q] = [run[q] EXCEPT !.pc = "closed", !.lost = TRUE]
    BY <1>1, <1>3 DEF DbFail, DbFailAfterCommit, Handler, Update, TypeOK, Run
  <2>2. QED
    BY <1>1, <1>3, <2>1 DEF Run, Handler
<1>4. ASSUME NEW y \in {[DbRaised(q, TRUE) EXCEPT !.billed = @ \cup {Period[run[q].period]}],
                        [DbRaised(q, TRUE) EXCEPT !.wrote = @ \cup ({run[q].target} \cap Final)]}
      PROVE  y.thread = run[q].thread /\ y.sent = run[q].sent /\ y.failed
  <2>1. DbRaised(q, TRUE) \in Run
    BY DbRaisedFields
  <2>2. /\ y.thread = DbRaised(q, TRUE).thread /\ y.sent = DbRaised(q, TRUE).sent
        /\ y.failed = DbRaised(q, TRUE).failed
    BY <1>4, <2>1 DEF Run
  <2>3. QED
    BY <2>2, DbRaisedFields
<1>5. CASE DbFailAfterCommit(q) /\ run[q].pc \in {"record", "commit"}
  <2>1. run'[q] \in {[DbRaised(q, TRUE) EXCEPT !.billed = @ \cup {Period[run[q].period]}],
                     [DbRaised(q, TRUE) EXCEPT !.wrote = @ \cup ({run[q].target} \cap Final)]}
    BY <1>5 DEF DbFailAfterCommit, TypeOK
  <2>2. QED
    BY <1>4, <2>1
<1>6. QED
  BY <1>2, <1>3, <1>5 DEF DbFailAfterCommit

\* A run's thread is in the table, deleted or not.
ThreadsThere ==
    \A r \in Runs : run[r].thread \in Threads => status[run[r].thread] # "none"

\* No step makes a thread as if it had never been.
LEMMA NeverNone ==
  ASSUME TypeOK, RunShape, [Next]_vars, NEW t \in Threads, status'[t] = "none"
  PROVE  status[t] = "none"
<1>1. \A s \in Target : s # "none"
  BY DEF Target, Final
<1>2. \A r \in Runs : run[r].target \in Target
  BY DEF TypeOK, Run
<1>3. ASSUME NEW r \in Runs, NEW v \in Threads, InsertThread(r, v)
      PROVE  status[t] = "none"
  BY <1>3 DEF InsertThread, TypeOK
<1>4. ASSUME NEW r \in Runs, UpdateCommit(r) PROVE status[t] = "none"
  <2>1. CASE run[r].snap # run[r].target /\ status[run[r].thread] \notin Live
    BY <1>4, <2>1 DEF UpdateCommit
  <2>2. CASE run[r].snap = run[r].target
    BY <1>4, <2>2 DEF UpdateCommit, TypeOK
  <2>3. CASE run[r].snap # run[r].target /\ status[run[r].thread] \in Live
    BY <1>1, <1>2, <1>4, <2>3 DEF UpdateCommit, TypeOK
  <2>4. QED
    BY <2>1, <2>2, <2>3
<1>5. ASSUME NEW r \in Runs, DbFailAfterCommit(r) PROVE status[t] = "none"
  <2>1. CASE run[r].pc = "create"
    BY <1>3, <1>5, <2>1 DEF DbFailAfterCommit
  <2>2. CASE run[r].pc = "record"
    BY <1>5, <2>2 DEF DbFailAfterCommit, InsertUsage
  <2>3. CASE run[r].pc = "commit"
    BY <1>1, <1>2, <1>5, <2>3 DEF DbFailAfterCommit, TypeOK
  <2>4. QED
    BY <1>5, <2>1, <2>2, <2>3 DEF DbFailAfterCommit
<1>6. ASSUME NEW v \in Threads, DeleteSession(v) PROVE status[t] = "none"
  BY <1>6 DEF DeleteSession, TypeOK
<1>7. QED
  BY <1>3, <1>4, <1>5, <1>6, StatusWriters

\* A run gets its thread once, from a row that is there.
LEMMA ThreadMoves ==
  ASSUME TypeOK, RunShape, NEW q \in Runs, StepOf(q)
  PROVE  \/ run'[q].thread = run[q].thread
         \/ /\ run[q].thread = NoThread /\ run'[q].thread \in Threads
            /\ status'[run'[q].thread] \in Live
<1>1. run[q] \in Run /\ RunOK(run[q])
  BY DEF TypeOK, RunShape
<1>2. CASE Request(q)
  <2>1. ASSUME NEW a \in Agents, ChatNewThread(q, a) PROVE run'[q].thread = run[q].thread
    BY <1>1, <2>1 DEF ChatNewThread, TypeOK, Run
  <2>2. ASSUME NEW t \in Threads, (\E a \in Agents : Chat(q, t, a)) \/ ResumeChat(q, t)
        PROVE  run[q].thread = NoThread /\ run'[q].thread = t /\ status'[t] \in Live
    <3>1. run[q].pc = "idle" /\ status'[t] \in Live
      BY <2>2 DEF Chat, ResumeChat, Owns
    <3>2. ASSUME NEW a \in Agents, Chat(q, t, a) PROVE run'[q].thread = t
      BY <1>1, <3>2 DEF Chat, TypeOK, Run
    <3>3. ASSUME ResumeChat(q, t) PROVE run'[q].thread = t
      BY <1>1, <3>3 DEF ResumeChat, TypeOK, Run
    <3>4. QED
      BY <1>1, <2>2, <3>1, <3>2, <3>3 DEF RunOK
  <2>3. CASE ChatRefused(q) \/ ResumeRefused(q)
    BY <1>1, <2>3 DEF ChatRefused, ResumeRefused, TypeOK, Run
  <2>4. QED
    BY <1>2, <2>1, <2>2, <2>3 DEF Request
<1>3. ASSUME NEW t \in Threads, CreateCommit(q, t)
      PROVE  run[q].thread = NoThread /\ run'[q].thread = t /\ status'[t] \in Live
  <2>1. run[q].thread = NoThread
    BY <1>1, <1>3 DEF CreateCommit, RunOK
  <2>2. run'[q].thread = t
    BY <1>1, <1>3 DEF CreateCommit, TypeOK, Run
  <2>3. status'[t] = "active" /\ "active" \in Live
    BY <1>3 DEF CreateCommit, InsertThread, TypeOK, Live
  <2>4. QED
    BY <2>1, <2>2, <2>3
<1>4. CASE CreateRefresh(q) \/ AgentOutput(q) \/ AgentHitl(q) \/ AgentEnd(q)
  BY <1>1, <1>4 DEF CreateRefresh, AgentOutput, AgentHitl, AgentEnd, TypeOK, Run
<1>5. CASE StartStream(q)
  BY <1>1, <1>5 DEF StartStream, TypeOK, Run
<1>6. CASE UpdateGet(q) \/ UpdateCommit(q) \/ UpdateRefresh(q)
  BY <1>6, UpdateFields
<1>7. CASE AgentRaise(q)
  <2>1. run'[q] = Raised(q, FALSE)
    BY <1>7 DEF AgentRaise, TypeOK
  <2>2. QED
    BY <2>1, RaisedFields
<1>8. CASE RecordCommit(q) \/ SendDone(q) \/ SendError(q)
  BY <1>1, <1>8 DEF RecordCommit, SendDone, SendError, TypeOK, Run
<1>9. CASE RecordRefresh(q)
  BY <1>1, <1>9 DEF RecordRefresh, Raised, TypeOK, Run
<1>10. CASE Disconnect(q)
  BY <1>1, <1>10 DEF Disconnect, TypeOK, Run
<1>11. CASE DbFail(q) \/ DbFailAfterCommit(q)
  BY <1>11, FailureFields
<1>12. QED
  BY <1>2, <1>3, <1>4, <1>5, <1>6, <1>7, <1>8, <1>9, <1>10, <1>11 DEF StepOf, RunStep

LEMMA DiesFields ==
  ASSUME TypeOK, NEW r \in Runs, Dies(r)
  PROVE  /\ run'[r].pc = "closed" /\ run'[r].lost
         /\ run'[r].thread = run[r].thread /\ run'[r].sent = run[r].sent
         /\ run'[r].billed = run[r].billed /\ run'[r].failed = run[r].failed
<1>1. run[r] \in Run
  BY DEF TypeOK
<1>2. QED
  BY <1>1 DEF Dies, Run

LEMMA NextThere ==
  ASSUME TypeOK, RunShape, ThreadsThere, [Next]_vars
  PROVE  ThreadsThere'
<1> SUFFICES ASSUME NEW r \in Runs, run'[r].thread \in Threads
             PROVE  status'[run'[r].thread] # "none"
  BY DEF ThreadsThere
<1>1. "none" \notin Live
  BY DEF Live, Final
<1>2. CASE run'[r].thread = run[r].thread
  BY <1>2, NeverNone DEF ThreadsThere
<1>3. CASE status'[run'[r].thread] \in Live
  BY <1>1, <1>3
<1>4. QED
  BY <1>2, <1>3, SeenFrom, ThreadMoves, DiesFields

\* An error after "done": either the database failed the run, or the row is
\* gone.
Recalls(x) == "done" \in x.sent /\ (x.pc = "fail" \/ "error" \in x.sent)

Retracted ==
    \A r \in Runs : Recalls(run[r]) =>
        /\ run[r].thread \in Threads
        /\ status[run[r].thread] = "deleted" \/ run[r].failed

\* What becomes of that when a run takes a step: an answer is recalled only
\* by a step of update_status that finds the row gone or by a failing statement.
LEMMA RecallsStep ==
  ASSUME TypeOK, RunShape, ToldShape, ThreadsThere, NEW q \in Runs, StepOf(q),
         Recalls(run'[q])
  PROVE  \/ run'[q].failed
         \/ run'[q].thread = run[q].thread /\ status[run[q].thread] = "deleted"
         \/ /\ Recalls(run[q]) /\ run'[q].thread = run[q].thread
            /\ ~run[q].failed
<1>1. run[q] \in Run /\ RunOK(run[q]) /\ ToldOK(run[q])
  BY DEF TypeOK, RunShape, ToldShape
<1>2. "done" \in run'[q].sent /\ (run'[q].pc = "fail" \/ "error" \in run'[q].sent)
  BY DEF Recalls
<1>3. ~Request(q)
  <2>1. ASSUME Request(q) PROVE run'[q].sent = {}
    <3>1. run[q].pc = "idle"
      BY <2>1 DEF Request, Chat, ChatNewThread, ChatRefused, ResumeChat, ResumeRefused
    <3>2. run[q].sent = {}
      BY <1>1, <3>1 DEF ToldOK, RunOK
    <3>3. QED
      BY <2>1, <3>2, RequestSays DEF RequestOutcome
  <2>2. QED
    BY <1>2, <2>1
<1>4. ASSUME \/ \E t \in Threads : CreateCommit(q, t)
             \/ CreateRefresh(q) \/ AgentOutput(q) \/ AgentEnd(q)
      PROVE  FALSE
  <2>1. run[q].pc \in {"create", "created", "stream"} /\ run'[q].sent = run[q].sent
    BY <1>1, <1>4 DEF CreateCommit, CreateRefresh, AgentOutput, AgentEnd, TypeOK, Run
  <2>2. QED
    BY <1>1, <1>2, <2>1 DEF ToldOK, RunOK
<1>5. ASSUME StartStream(q) \/ AgentHitl(q) PROVE FALSE
  <2>1. /\ run[q].pc \in {"open", "stream"}
        /\ run'[q].sent \subseteq run[q].sent \cup {"error", "awaiting_approval"}
    BY <1>1, <1>5 DEF StartStream, AgentHitl, TypeOK, Run
  <2>2. QED
    BY <1>1, <1>2, <2>1 DEF ToldOK, RunOK
<1>6. ASSUME AgentRaise(q) \/ RecordRefresh(q) \/ RecordCommit(q) PROVE FALSE
  <2>1. /\ run[q].pc \in {"stream", "record", "recorded"}
        /\ run'[q].sent = run[q].sent
    <3>1. CASE AgentRaise(q)
      <4>1. run'[q] = Raised(q, FALSE) /\ run[q].pc = "stream"
        BY <3>1 DEF AgentRaise, TypeOK
      <4>2. QED
        BY <4>1, RaisedFields
    <3>2. CASE RecordRefresh(q)
      BY <1>1, <3>2 DEF RecordRefresh, Raised, TypeOK, Run
    <3>3. CASE RecordCommit(q)
      BY <1>1, <3>3 DEF RecordCommit, TypeOK, Run
    <3>4. QED
      BY <1>6, <3>1, <3>2, <3>3
  <2>2. QED
    BY <1>1, <1>2, <2>1 DEF ToldOK, RunOK
<1>7. ~SendDone(q)
  <2>1. ASSUME SendDone(q)
        PROVE  /\ run[q].pc = "done" /\ run'[q].pc = "get"
               /\ run'[q].sent = run[q].sent \cup {"done"}
    BY <1>1, <2>1 DEF SendDone, TypeOK, Run
  <2>2. QED
    BY <1>1, <1>2, <2>1 DEF ToldOK
<1>8. CASE SendError(q)
  <2>1. /\ run[q].pc = "fail" /\ run'[q].sent = run[q].sent \cup {"error"}
        /\ run'[q].thread = run[q].thread /\ run'[q].failed = run[q].failed
    BY <1>1, <1>8 DEF SendError, TypeOK, Run
  <2>2. QED
    BY <1>1, <1>2, <2>1 DEF Recalls, Run
<1>9. CASE UpdateGet(q) \/ UpdateCommit(q) \/ UpdateRefresh(q)
  <2>1. run[q].thread \in Threads
    BY <1>1, <1>9, UpdateFields DEF RunOK, Update
  <2>2. status[run[q].thread] \notin Live => status[run[q].thread] = "deleted"
    BY <2>1 DEF ThreadsThere, TypeOK, Status
  <2>3. run[q].poisoned => "error" \in run[q].sent
    BY <1>1, <1>9, UpdateFields DEF ToldOK, RunOK, Update
  <2>4. CASE run[q].failed
    BY <1>9, <2>4, UpdateFields
  <2>5. CASE ~run[q].failed
    BY <1>2, <1>9, <2>2, <2>3, <2>5, UpdateFields DEF Recalls
  <2>6. QED
    BY <2>4, <2>5
<1>10. CASE Disconnect(q)
  <2>1. /\ run'[q].pc = "closed" /\ run'[q].sent = run[q].sent
        /\ run'[q].thread = run[q].thread /\ run'[q].failed = run[q].failed
    BY <1>1, <1>10 DEF Disconnect, TypeOK, Run
  <2>2. QED
    BY <1>1, <1>2, <2>1 DEF Recalls, Run
<1>11. CASE DbFail(q) \/ DbFailAfterCommit(q)
  <2>1. run[q].pc \in Handler => run[q].sent = {}
    BY <1>1 DEF ToldOK, RunOK, Handler
  <2>2. QED
    BY <1>2, <1>11, <2>1, FailureFields
<1>12. QED
  BY <1>3, <1>4, <1>5, <1>6, <1>7, <1>8, <1>9, <1>10, <1>11 DEF StepOf, RunStep

LEMMA NextRetracted ==
  ASSUME TypeOK, RunShape, ToldShape, ThreadsThere, Retracted, [Next]_vars
  PROVE  Retracted'
<1> SUFFICES ASSUME NEW r \in Runs, Recalls(run'[r])
             PROVE  /\ run'[r].thread \in Threads
                    /\ status'[run'[r].thread] = "deleted" \/ run'[r].failed
  BY DEF Retracted, Recalls
<1>1. \A t \in Threads : status[t] = "deleted" => status'[t] = "deleted"
  BY DeletedStep
<1>2. run'[r].thread \in Threads
  <2>1. ToldShape'
    BY NextTold
  <2>2. QED
    BY <2>1 DEF ToldShape, ToldOK, Recalls
<1>3. CASE run'[r] = run[r]
  BY <1>1, <1>2, <1>3 DEF Retracted
<1>4. CASE StepOf(r)
  <2>1. CASE run'[r].thread = run[r].thread /\ status[run[r].thread] = "deleted"
    BY <1>1, <1>2, <2>1
  <2>2. CASE Recalls(run[r]) /\ run'[r].thread = run[r].thread /\ ~run[r].failed
    BY <1>1, <1>2, <2>2 DEF Retracted
  <2>3. QED
    BY <1>2, <1>4, <2>1, <2>2, RecallsStep
<1>5. CASE Dies(r)
  <2>1. Recalls(run[r])
    BY <1>5, DiesFields DEF Recalls
  <2>2. QED
    BY <1>1, <1>2, <1>5, <2>1, DiesFields DEF Retracted
<1>6. QED
  BY <1>3, <1>4, <1>5, SeenFrom

\* Runs that have been billed and have not said so, and could still.
Owes(x) ==
    /\ x.pc \in {"fail", "closed"} \cup Update
    /\ x.billed # {} /\ "done" \notin x.sent
    /\ ~x.lost /\ ~x.failed

Delivered ==
    \A r \in Runs : Owes(run[r]) => \E p \in run[r].billed : <<r, p>> \notin usage

\* A row that is gone is written again by no step but the run's own commit.
LEMMA RowStaysGone ==
  ASSUME TypeOK, RunShape, [Next]_vars, NEW r \in Runs, NEW p,
         <<r, p>> \notin usage, run[r].pc # "record"
  PROVE  <<r, p>> \notin usage'
<1>1. ASSUME NEW q \in Runs, InsertUsage(q), run[q].pc = "record"
      PROVE  <<r, p>> \notin usage'
  BY <1>1 DEF InsertUsage
<1>2. ASSUME NEW q \in Runs, Request(q) PROVE UNCHANGED usage
  BY <1>2 DEF Request, Chat, ChatNewThread, ChatRefused, ResumeChat, ResumeRefused
<1>3. ASSUME NEW q \in Runs, RunStep(q)
      PROVE  UNCHANGED usage \/ (InsertUsage(q) /\ run[q].pc = "record")
  <2>1. CASE \/ \E t \in Threads : CreateCommit(q, t)
             \/ CreateRefresh(q) \/ StartStream(q) \/ UpdateGet(q)
             \/ UpdateCommit(q) \/ UpdateRefresh(q)
    BY <2>1 DEF CreateCommit, InsertThread, CreateRefresh, StartStream, UpdateGet,
       UpdateCommit, UpdateRefresh
  <2>2. CASE \/ AgentOutput(q) \/ AgentHitl(q) \/ AgentRaise(q) \/ AgentEnd(q)
             \/ RecordRefresh(q) \/ SendDone(q) \/ SendError(q)
    BY <2>2 DEF AgentOutput, AgentHitl, AgentRaise, AgentEnd, RecordRefresh,
       SendDone, SendError
  <2>3. CASE RecordCommit(q)
    BY <2>3 DEF RecordCommit
  <2>4. QED
    BY <1>3, <2>1, <2>2, <2>3 DEF RunStep
<1>4. ASSUME NEW q \in Runs, DbFailAfterCommit(q)
      PROVE  UNCHANGED usage \/ (InsertUsage(q) /\ run[q].pc = "record")
  BY <1>4 DEF DbFailAfterCommit, InsertThread
<1>5. ASSUME NEW u \in Users, NEW d \in Periods, QuotaReset(u, d)
      PROVE  usage' \subseteq usage
  BY <1>5 DEF QuotaReset
<1>6. CASE \/ \E q \in Runs : Disconnect(q) \/ DbFail(q)
           \/ \E t \in Threads : DeleteSession(t)
           \/ Crash \/ UNCHANGED vars
  BY <1>6 DEF Disconnect, DbFail, DeleteSession, Crash, vars
<1>7. QED
  BY <1>1, <1>2, <1>3, <1>4, <1>5, <1>6 DEF Next, Environment

\* A run comes to owe its answer where a reset deleted the row it refreshes.
LEMMA OwesStep ==
  ASSUME TypeOK, RunShape, ToldShape, NEW q \in Runs, StepOf(q), Owes(run'[q])
  PROVE  /\ run'[q].billed = run[q].billed /\ run[q].pc # "record"
         /\ \/ Owes(run[q])
            \/ \E p \in run[q].billed : <<q, p>> \notin usage
<1>1. run[q] \in Run /\ RunOK(run[q]) /\ ToldOK(run[q])
  BY DEF TypeOK, RunShape, ToldShape
<1>2. /\ run'[q].pc \in {"fail", "closed"} \cup Update /\ run'[q].billed # {}
      /\ "done" \notin run'[q].sent /\ ~run'[q].lost /\ ~run'[q].failed
  BY DEF Owes
<1>3. ~Request(q)
  <2>1. ASSUME Request(q) PROVE run'[q].billed = {}
    <3>1. run[q].pc = "idle" /\ RequestOutcome(q)
      BY <2>1, RequestSays
    <3>2. QED
      BY <1>1, <3>1 DEF ToldOK, RunOK, RequestOutcome
  <2>2. QED
    BY <1>2, <2>1
<1>4. ASSUME \/ \E t \in Threads : CreateCommit(q, t)
             \/ CreateRefresh(q) \/ AgentOutput(q) \/ AgentEnd(q)
             \/ StartStream(q) \/ AgentHitl(q)
      PROVE  FALSE
  <2>1. /\ run[q].pc \in {"create", "created", "open", "stream"}
        /\ run'[q].billed = run[q].billed
    BY <1>1, <1>4 DEF CreateCommit, CreateRefresh, AgentOutput, AgentEnd, StartStream,
       AgentHitl, TypeOK, Run
  <2>2. QED
    BY <1>1, <1>2, <2>1 DEF ToldOK, RunOK
<1>5. ~AgentRaise(q)
  <2>1. ASSUME AgentRaise(q) PROVE run'[q] = Raised(q, FALSE) /\ run[q].pc = "stream"
    BY <2>1 DEF AgentRaise, TypeOK
  <2>2. QED
    BY <1>1, <1>2, <2>1, RaisedFields DEF ToldOK, RunOK
<1>6. ~RecordCommit(q)
  <2>1. ASSUME RecordCommit(q) PROVE run'[q].pc = "recorded"
    BY <1>1, <2>1 DEF RecordCommit, TypeOK, Run
  <2>2. QED
    BY <1>2, <2>1 DEF Update
<1>7. CASE RecordRefresh(q)
  <2> DEFINE p == Period[run[q].period]
  <2>1. run[q].pc = "recorded" /\ run[q].period \in 1..3
    BY <1>7, InsertUsageType DEF RecordRefresh
  <2>2. p \in run[q].billed
    BY <1>1, <2>1 DEF RunOK
  <2>3. <<q, p>> \notin usage
    <3>1. ASSUME <<q, p>> \in usage PROVE run'[q].pc \in {"done", "record"}
      BY <1>1, <1>7, <3>1 DEF RecordRefresh, TypeOK, Run
    <3>2. QED
      BY <1>2, <3>1 DEF Update
  <2>4. run'[q].billed = run[q].billed
    <3>1. run'[q] = [Raised(q, FALSE) EXCEPT !.snap = status[run[q].thread]]
      BY <1>7, <2>3 DEF RecordRefresh, TypeOK
    <3>2. Raised(q, FALSE) \in Run
      BY RaisedFields
    <3>3. run'[q].billed = Raised(q, FALSE).billed
      BY <3>1, <3>2 DEF Run
    <3>4. QED
      BY <3>3, RaisedFields
  <2>5. QED
    BY <2>1, <2>2, <2>3, <2>4
<1>8. ~SendDone(q)
  <2>1. ASSUME SendDone(q) PROVE "done" \in run'[q].sent
    BY <1>1, <2>1 DEF SendDone, TypeOK, Run
  <2>2. QED
    BY <1>2, <2>1
<1>9. CASE SendError(q)
  <2>1. /\ run[q].pc = "fail" /\ run'[q].sent = run[q].sent \cup {"error"}
        /\ run'[q].billed = run[q].billed
        /\ run'[q].failed = run[q].failed /\ run'[q].lost = run[q].lost
    BY <1>1, <1>9 DEF SendError, TypeOK, Run
  <2>2. QED
    BY <1>2, <2>1 DEF Owes
<1>10. CASE UpdateGet(q) \/ UpdateCommit(q) \/ UpdateRefresh(q)
  <2>1. "record" \notin Update
    BY DEF Update
  <2>2. run[q].pc \in Update /\ ~run[q].lost
    BY <1>1, <1>10, UpdateFields DEF RunOK, Update, Run
  <2>3. QED
    BY <1>2, <1>10, <2>1, <2>2, UpdateFields DEF Owes
<1>11. ~Disconnect(q)
  <2>1. ASSUME Disconnect(q) PROVE run'[q].lost
    BY <1>1, <2>1 DEF Disconnect, TypeOK, Run
  <2>2. QED
    BY <1>2, <2>1
<1>12. ~DbFail(q) /\ ~DbFailAfterCommit(q)
  BY <1>2, FailureFields
<1>13. QED
  BY <1>3, <1>4, <1>5, <1>6, <1>7, <1>8, <1>9, <1>10, <1>11, <1>12 DEF StepOf, RunStep

LEMMA NextDelivered ==
  ASSUME TypeOK, RunShape, ToldShape, Delivered, [Next]_vars
  PROVE  Delivered'
<1> SUFFICES ASSUME NEW r \in Runs, Owes(run'[r])
             PROVE  \E p \in run'[r].billed : <<r, p>> \notin usage'
  BY DEF Delivered, Owes, Update
<1>1. /\ run'[r].billed = run[r].billed /\ run[r].pc # "record"
      /\ Owes(run[r]) \/ \E p \in run[r].billed : <<r, p>> \notin usage
  <2>1. CASE run'[r] = run[r]
    BY <2>1 DEF Owes, Update
  <2>2. CASE StepOf(r)
    BY <2>2, OwesStep
  <2>3. ~Dies(r)
    BY DiesFields DEF Owes
  <2>4. QED
    BY <2>1, <2>2, <2>3, SeenFrom
<1>2. PICK p \in run[r].billed : <<r, p>> \notin usage
  BY <1>1 DEF Delivered
<1>3. QED
  BY <1>1, <1>2, RowStaysGone

LEMMA InitFates == Init => ThreadsThere /\ Retracted /\ Delivered
  BY ThreadAssumption
     DEF Init, NewRun, ThreadsThere, Retracted, Recalls, Delivered, Owes

Fates == Inv /\ ThreadsThere /\ Retracted /\ Delivered

LEMMA FatesCorrect == Spec => []Fates
<1>1. Init => Fates
  BY InitLocal, InitTold, InitFates DEF Fates, Inv
<1>2. Fates /\ [Next]_vars => Fates'
  BY NextLocal, NextTold, NextThere, NextRetracted, NextDelivered DEF Fates, Inv
<1>3. QED
  BY <1>1, <1>2, PTL DEF Spec

\* chat.py:59-68: a client that has read "done" reads "error" after it only
\* when the thread was deleted or the database failed the run; another run's
\* exception, a stale snapshot or a quota reset never leads there.
THEOREM DoneRetractedOnlyByLossCorrect == Spec => []DoneRetractedOnlyByLoss
<1>1. Fates => DoneRetractedOnlyByLoss
  BY DEF Fates, Retracted, Recalls, DoneRetractedOnlyByLoss
<1>2. QED
  BY <1>1, FatesCorrect, PTL

\* quota_repo.py:13-18 under chat.py:59-63: what is billed is delivered, unless
\* a reset deleted a row between its INSERT and its refresh, a fault ended
\* the run, or the database failed it.
THEOREM BilledIsDeliveredCorrect == Spec => []BilledIsDelivered
<1>1. Fates => BilledIsDelivered
  BY DEF Fates, Delivered, Owes, BilledIsDelivered
<1>2. QED
  BY <1>1, FatesCorrect, PTL

-----------------------------------------------------------------------------
(* The refinement of AnswerContract.  Each step of a run is one step of the*)
(* contract's run, or only the end of it, or nothing the contract sees.    *)

\* The contract's state, as ChatRefinement reads it off this one.
Of == [r \in Runs |-> run[r].thread]
Told == [r \in Runs |-> run[r].sent]
Paid == {r \in Runs : run[r].billed = Periods}
Over == {r \in Runs : run[r].pc = "closed"}

LEMMA InitContract == Init => Contract!Init
<1> SUFFICES ASSUME Init PROVE Contract!Init
  OBVIOUS
<1>1. \A r \in Runs : run[r] = NewRun
  BY DEF Init
<1>2. NewRun.billed # Periods /\ NewRun.pc # "closed"
  BY DEF NewRun, Periods
<1>3. QED
  BY <1>1, <1>2 DEF Init, NewRun, Contract!Init

\* What a step of request q alone makes of the contract's state.
LEMMA MapsAlone ==
  ASSUME TypeOK, NEW q \in Runs, Alone(q), run[q].pc # "closed"
  PROVE  /\ run'[q].thread = run[q].thread => Of' = Of
         /\ Of' = [Of EXCEPT ![q] = run'[q].thread]
         /\ run'[q].sent = run[q].sent => Told' = Told
         /\ Told' = [Told EXCEPT ![q] = run'[q].sent]
         /\ (run'[q].billed = Periods <=> run[q].billed = Periods) => Paid' = Paid
         /\ run'[q].billed = Periods => Paid' = Paid \cup {q}
         /\ Over \subseteq Over'
<1>1. \A r \in Runs : r # q => run'[r] = run[r]
  BY DEF Alone
<1>2. (run'[q].thread = run[q].thread => Of' = Of) /\ Of' = [Of EXCEPT ![q] = run'[q].thread]
  BY <1>1 DEF Of
<1>3. (run'[q].sent = run[q].sent => Told' = Told) /\ Told' = [Told EXCEPT ![q] = run'[q].sent]
  BY <1>1 DEF Told
<1>4. /\ (run'[q].billed = Periods <=> run[q].billed = Periods) => Paid' = Paid
      /\ run'[q].billed = Periods => Paid' = Paid \cup {q}
  BY <1>1 DEF Paid
<1>5. Over \subseteq Over'
  BY <1>1 DEF Over
<1>6. QED
  BY <1>2, <1>3, <1>4, <1>5

\* A run that is not over takes a step of the contract's run.
LEMMA RunTakesStep ==
  ASSUME NEW q \in Runs, run[q].pc # "closed", Over \subseteq Over',
         Contract!RunDoes(q)
  PROVE  Contract!Next
<1>1. Over' \subseteq Runs
  BY DEF Over
<1>2. QED
  BY <1>1 DEF Contract!Next, Over

LEMMA Unseen ==
  ASSUME Over \subseteq Over', UNCHANGED <<status, Of, Told, Paid>>
  PROVE  Contract!Next
<1>1. Over' \subseteq Runs
  BY DEF Over
<1>2. QED
  BY <1>1 DEF Contract!Next, Over, Of, Told, Paid

LEMMA RequestContract ==
  ASSUME TypeOK, RunShape, NEW q \in Runs, Request(q)
  PROVE  Contract!Next
<1>1. run[q] \in Run /\ RunOK(run[q])
  BY DEF TypeOK, RunShape
<1>2. Alone(q)
  BY StepAlone DEF StepOf
<1>3. run[q].pc = "idle" /\ run'[q].sent = run[q].sent /\ run'[q].billed = run[q].billed
  BY RequestSays DEF RequestOutcome
<1>4. Told' = Told /\ Paid' = Paid /\ Over \subseteq Over' /\ status' = status
  <2>1. status' = status
    BY DEF Request, Chat, ChatNewThread, ChatRefused, ResumeChat, ResumeRefused
  <2>2. QED
    BY <1>2, <1>3, <2>1, MapsAlone
<1>5. ASSUME NEW t \in Threads, (\E a \in Agents : Chat(q, t, a)) \/ ResumeChat(q, t)
      PROVE  Contract!Next
  <2>1. status[t] \in Live
    BY <1>5 DEF Chat, ResumeChat, Owns
  <2>2. status[t] \notin {"none", "deleted"}
    BY <2>1 DEF Live, Final
  <2>3. run[q].thread = NoThread
    BY <1>1, <1>3 DEF RunOK
  <2>4. run'[q].thread = t
    <3>1. ASSUME NEW a \in Agents, Chat(q, t, a) PROVE run'[q].thread = t
      BY <1>1, <3>1 DEF Chat, TypeOK, Run
    <3>2. ASSUME ResumeChat(q, t) PROVE run'[q].thread = t
      BY <1>1, <3>2 DEF ResumeChat, TypeOK, Run
    <3>3. QED
      BY <1>5, <3>1, <3>2
  <2>5. Of' = [Of EXCEPT ![q] = t]
    BY <1>2, <1>3, <2>4, MapsAlone
  <2>6. Contract!Accept(q, t)
    BY <1>4, <2>2, <2>3, <2>5 DEF Contract!Accept, Contract!There, Of, Told, Paid
  <2>7. Contract!RunDoes(q)
    BY <1>3, <2>6 DEF Contract!RunDoes, Over
  <2>8. QED
    BY <1>3, <1>4, <2>7, RunTakesStep
<1>6. ASSUME \/ \E a \in Agents : ChatNewThread(q, a)
             \/ ChatRefused(q) \/ ResumeRefused(q)
      PROVE  Contract!Next
  <2>1. run'[q].thread = run[q].thread
    BY <1>1, <1>6 DEF ChatNewThread, ChatRefused, ResumeRefused, TypeOK, Run
  <2>2. Of' = Of
    BY <1>2, <1>3, <2>1, MapsAlone
  <2>3. QED
    BY <1>4, <2>2, Unseen
<1>7. QED
  BY <1>5, <1>6 DEF Request

\* Steps that the contract does not see.
LEMMA UnseenAlone ==
  ASSUME TypeOK, NEW q \in Runs, Alone(q), run[q].pc # "closed", status' = status,
         run'[q].thread = run[q].thread, run'[q].sent = run[q].sent,
         run'[q].billed = run[q].billed
  PROVE  Contract!Next
  BY MapsAlone, Unseen

\* An outcome is told.
LEMMA TellAlone ==
  ASSUME TypeOK, NEW q \in Runs, Alone(q), run[q].pc # "closed", status' = status,
         NEW e \in Events,
         run'[q].thread = run[q].thread, run'[q].sent = run[q].sent \cup {e},
         run'[q].billed = run[q].billed,
         "error" \notin run[q].sent, e # "error" => run[q].sent = {},
         e = "done" => run[q].billed = Periods
  PROVE  Contract!Next
<1>1. /\ Of' = Of /\ Paid' = Paid /\ Over \subseteq Over'
      /\ Told' = [Told EXCEPT ![q] = run[q].sent \cup {e}]
  BY MapsAlone
<1>2. e \in {"awaiting_approval", "done", "error"}
  BY DEF Events
<1>3. Contract!Tell(q, e)
  BY <1>1 DEF Contract!Tell, Of, Told, Paid
<1>4. Contract!RunDoes(q)
  BY <1>2, <1>3 DEF Contract!RunDoes, Over
<1>5. QED
  BY <1>1, <1>4, RunTakesStep

\* A thread's row is inserted, and its run may die before it hears of it.
LEMMA OpenAlone ==
  ASSUME TypeOK, RunShape, NEW q \in Runs, Alone(q), run[q].pc = "create",
         NEW t \in Threads, InsertThread(q, t),
         run'[q].thread \in {NoThread, t}, run'[q].sent = run[q].sent,
         run'[q].billed = run[q].billed
  PROVE  Contract!Next
<1>1. run[q].thread = NoThread
  BY DEF RunShape, RunOK
<1>2. /\ Of' = Of \/ Of' = [Of EXCEPT ![q] = t]
      /\ Told' = Told /\ Paid' = Paid /\ Over \subseteq Over'
  BY <1>1, MapsAlone
<1>3. status[t] = "none" /\ status' = [status EXCEPT ![t] = "active"]
  BY DEF InsertThread
<1>4. Contract!Open(t)
  BY <1>1, <1>2, <1>3 DEF Contract!Open, Of, Told, Paid
<1>5. Over' \subseteq Runs
  BY DEF Over
<1>6. QED
  BY <1>2, <1>4, <1>5 DEF Contract!Next, Over

\* A row of usage is inserted: the last one pays for the answer.
LEMMA BillAlone ==
  ASSUME TypeOK, RunShape, ToldShape, NEW q \in Runs, Alone(q), run[q].pc = "record",
         status' = status, run'[q].thread = run[q].thread, run'[q].sent = run[q].sent,
         run'[q].billed = run[q].billed \cup {Period[run[q].period]}
  PROVE  Contract!Next
<1>1. run[q] \in Run /\ run[q].sent = {}
  BY DEF TypeOK, ToldShape, ToldOK
<1>2. Period[run[q].period] \in Periods
  BY InsertUsageType
<1>3. Of' = Of /\ Told' = Told /\ Over \subseteq Over'
  BY MapsAlone
<1>4. CASE run'[q].billed = Periods
  <2>1. Paid' = Paid \cup {q}
    BY <1>4, MapsAlone
  <2>2. Contract!Bill(q)
    BY <1>1, <1>3, <2>1 DEF Contract!Bill, Of, Told, Paid
  <2>3. Contract!RunDoes(q)
    BY <2>2 DEF Contract!RunDoes, Over
  <2>4. QED
    BY <1>3, <2>3, RunTakesStep
<1>5. CASE run'[q].billed # Periods
  <2>1. run[q].billed # Periods
    BY <1>2, <1>5
  <2>2. Paid' = Paid
    BY <1>5, <2>1, MapsAlone
  <2>3. QED
    BY <1>3, <2>2, Unseen
<1>6. QED
  BY <1>4, <1>5

\* The status is written: running by a run that has not had its say, and
\* after that what the run has said.
LEMMA WriteAlone ==
  ASSUME TypeOK, RunShape, ToldShape, NEW q \in Runs, Alone(q), run[q].pc = "commit",
         status[run[q].thread] \in Live,
         status' = [status EXCEPT ![run[q].thread] = run[q].target],
         run'[q].thread = run[q].thread, run'[q].sent = run[q].sent,
         run'[q].billed = run[q].billed
  PROVE  Contract!Next
<1>1. run[q] \in Run /\ RunOK(run[q]) /\ ToldOK(run[q])
  BY DEF TypeOK, RunShape, ToldShape
<1>2. Of' = Of /\ Told' = Told /\ Paid' = Paid /\ Over \subseteq Over'
  BY MapsAlone
<1>3. run[q].thread \in Threads /\ run[q].thread # NoThread
  BY <1>1, ThreadAssumption DEF RunOK
<1>4. status[run[q].thread] \notin {"none", "deleted"}
  BY DEF Live, Final
<1>5. CASE run[q].target = "running"
  <2>1. run[q].sent = {} /\ run[q].billed = {}
    BY <1>1, <1>5 DEF ToldOK, Update
  <2>2. q \notin Paid
    BY <2>1 DEF Paid, Periods
  <2>3. Contract!Begin(q)
    BY <1>2, <1>3, <1>4, <1>5, <2>1, <2>2 DEF Contract!Begin, Contract!There, Of, Told, Paid
  <2>4. Contract!RunDoes(q)
    BY <2>3 DEF Contract!RunDoes, Over
  <2>5. QED
    BY <1>2, <2>4, RunTakesStep
<1>6. CASE run[q].target # "running"
  <2>1. run[q].sent # {} /\ Contract!Expected(run[q].sent) = run[q].target
    <3>1. run[q].target \in {"awaiting_approval", "completed", "error"}
      BY <1>1, <1>6 DEF Run, Target, Final
    <3>2. CASE run[q].target = "error"
      <4>1. "error" \in run[q].sent
        BY <1>1, <3>2 DEF ToldOK, Update
      <4>2. QED
        BY <3>2, <4>1 DEF Contract!Expected
    <3>3. CASE run[q].target = "completed"
      <4>1. run[q].sent = {"done"}
        BY <1>1, <3>3 DEF ToldOK, Update
      <4>2. QED
        BY <3>3, <4>1 DEF Contract!Expected
    <3>4. CASE run[q].target = "awaiting_approval"
      <4>1. run[q].sent = {"awaiting_approval"}
        BY <1>1, <3>4 DEF ToldOK, Update
      <4>2. QED
        BY <3>4, <4>1 DEF Contract!Expected
    <3>5. QED
      BY <3>1, <3>2, <3>3, <3>4
  <2>2. Contract!Settle(q)
    <3>1. Of[q] = run[q].thread /\ Told[q] = run[q].sent
      BY DEF Of, Told
    <3>2. status' = [status EXCEPT ![Of[q]] = Contract!Expected(Told[q])]
      BY <2>1, <3>1
    <3>3. QED
      BY <1>2, <1>3, <1>4, <2>1, <3>2 DEF Contract!Settle, Contract!There, Of, Told, Paid
  <2>3. Contract!RunDoes(q)
    BY <2>2 DEF Contract!RunDoes, Over
  <2>4. QED
    BY <1>2, <2>3, RunTakesStep
<1>7. QED
  BY <1>5, <1>6

LEMMA UpdateContract ==
  ASSUME TypeOK, RunShape, ToldShape, NEW q \in Runs,
         UpdateGet(q) \/ UpdateCommit(q) \/ UpdateRefresh(q)
  PROVE  Contract!Next
<1>1. Alone(q)
  BY StepAlone DEF StepOf, RunStep
<1>2. /\ run'[q].thread = run[q].thread /\ run'[q].sent = run[q].sent
      /\ run'[q].billed = run[q].billed /\ run[q].pc # "closed"
  BY UpdateFields DEF Update
<1>3. CASE UpdateGet(q) \/ UpdateRefresh(q)
  <2>1. status' = status
    BY <1>3 DEF UpdateGet, UpdateRefresh
  <2>2. QED
    BY <1>1, <1>2, <2>1, UnseenAlone
<1>4. CASE UpdateCommit(q)
  <2>1. CASE run[q].snap # run[q].target /\ status[run[q].thread] \notin Live
    <3>1. status' = status
      BY <1>4, <2>1 DEF UpdateCommit
    <3>2. QED
      BY <1>1, <1>2, <3>1, UnseenAlone
  <2>2. CASE run[q].snap = run[q].target
    <3>1. status' = status
      BY <1>4, <2>2 DEF UpdateCommit, TypeOK
    <3>2. QED
      BY <1>1, <1>2, <3>1, UnseenAlone
  <2>3. CASE run[q].snap # run[q].target /\ status[run[q].thread] \in Live
    <3>1. run[q].pc = "commit" /\ status' = [status EXCEPT ![run[q].thread] = run[q].target]
      BY <1>4, <2>3 DEF UpdateCommit, TypeOK
    <3>2. QED
      BY <1>1, <1>2, <2>3, <3>1, WriteAlone
  <2>4. QED
    BY <2>1, <2>2, <2>3
<1>5. QED
  BY <1>3, <1>4

LEMMA StartStreamContract ==
  ASSUME TypeOK, RunShape, ToldShape, NEW q \in Runs, StartStream(q)
  PROVE  Contract!Next
<1>1. run[q] \in Run /\ RunOK(run[q]) /\ ToldOK(run[q]) /\ run[q].pc = "open"
  BY DEF TypeOK, RunShape, ToldShape, StartStream
<1>2. Alone(q) /\ status' = status
  BY StepAlone DEF StepOf, RunStep, StartStream
<1>3. run[q].sent = {}
  BY <1>1 DEF ToldOK, RunOK
<1>4. PICK s \in {run[q].snap, NoTxn} :
        run' = IF run[q].agent \in KnownAgents
               THEN [run EXCEPT ![q].pc = "get", ![q].snap = s]
               ELSE [run EXCEPT ![q].pc = "closed", ![q].snap = s,
                                ![q].sent = @ \cup {"error"}]
  BY DEF StartStream
<1>5. CASE run[q].agent \in KnownAgents
  <2>1. /\ run'[q].thread = run[q].thread /\ run'[q].sent = run[q].sent
        /\ run'[q].billed = run[q].billed
    BY <1>1, <1>4, <1>5 DEF TypeOK, Run
  <2>2. QED
    BY <1>1, <1>2, <2>1, UnseenAlone
<1>6. CASE run[q].agent \notin KnownAgents
  <2>1. /\ run'[q].thread = run[q].thread /\ run'[q].sent = run[q].sent \cup {"error"}
        /\ run'[q].billed = run[q].billed
    BY <1>1, <1>4, <1>6 DEF TypeOK, Run
  <2>2. "error" \in Events
    BY Names
  <2>3. QED
    BY <1>1, <1>2, <1>3, <2>1, <2>2, TellAlone
<1>7. QED
  BY <1>5, <1>6

LEMMA AgentContract ==
  ASSUME TypeOK, RunShape, ToldShape, NEW q \in Runs,
         \/ AgentOutput(q) \/ AgentHitl(q) \/ AgentRaise(q) \/ AgentEnd(q)
         \/ SendDone(q) \/ SendError(q)
  PROVE  Contract!Next
<1>1. run[q] \in Run /\ RunOK(run[q]) /\ ToldOK(run[q])
  BY DEF TypeOK, RunShape, ToldShape
<1>2. Alone(q)
  BY StepAlone DEF StepOf, RunStep
<1>3. status' = status /\ run[q].pc \in {"stream", "done", "fail"}
  BY DEF AgentOutput, AgentHitl, AgentRaise, AgentEnd, SendDone, SendError
<1>4. CASE AgentOutput(q) \/ AgentEnd(q)
  <2>1. /\ run'[q].thread = run[q].thread /\ run'[q].sent = run[q].sent
        /\ run'[q].billed = run[q].billed
    BY <1>1, <1>4 DEF AgentOutput, AgentEnd, TypeOK, Run
  <2>2. QED
    BY <1>2, <1>3, <2>1, UnseenAlone
<1>5. CASE AgentRaise(q)
  <2>1. run'[q] = Raised(q, FALSE)
    BY <1>5 DEF AgentRaise, TypeOK
  <2>2. QED
    BY <1>2, <1>3, <2>1, RaisedFields, UnseenAlone
<1>6. CASE AgentHitl(q)
  <2>1. /\ run'[q].thread = run[q].thread
        /\ run'[q].sent = run[q].sent \cup {"awaiting_approval"}
        /\ run'[q].billed = run[q].billed /\ run[q].pc = "stream"
    BY <1>1, <1>6 DEF AgentHitl, TypeOK, Run
  <2>2. run[q].sent = {} /\ "awaiting_approval" \in Events
    BY <1>1, <2>1, Names DEF ToldOK, RunOK
  <2>3. QED
    BY <1>2, <1>3, <2>1, <2>2, TellAlone
<1>7. CASE SendDone(q)
  <2>1. /\ run'[q].thread = run[q].thread
        /\ run'[q].sent = run[q].sent \cup {"done"}
        /\ run'[q].billed = run[q].billed /\ run[q].pc = "done"
    BY <1>1, <1>7 DEF SendDone, TypeOK, Run
  <2>2. run[q].sent = {} /\ run[q].billed = Periods /\ "done" \in Events
    BY <1>1, <2>1, Names DEF ToldOK, RunOK
  <2>3. QED
    BY <1>2, <1>3, <2>1, <2>2, TellAlone
<1>8. CASE SendError(q)
  <2>1. /\ run'[q].thread = run[q].thread
        /\ run'[q].sent = run[q].sent \cup {"error"}
        /\ run'[q].billed = run[q].billed /\ run[q].pc = "fail"
    BY <1>1, <1>8 DEF SendError, TypeOK, Run
  <2>2. "error" \notin run[q].sent /\ "error" \in Events
    BY <1>1, <2>1, Names DEF ToldOK
  <2>3. QED
    BY <1>2, <1>3, <2>1, <2>2, TellAlone
<1>9. QED
  BY <1>4, <1>5, <1>6, <1>7, <1>8

LEMMA RepositoryContract ==
  ASSUME TypeOK, RunShape, ToldShape, NEW q \in Runs,
         \/ \E t \in Threads : CreateCommit(q, t)
         \/ CreateRefresh(q) \/ RecordCommit(q) \/ RecordRefresh(q)
  PROVE  Contract!Next
<1>1. run[q] \in Run
  BY DEF TypeOK
<1>2. Alone(q)
  BY StepAlone DEF StepOf, RunStep
<1>3. ASSUME NEW t \in Threads, CreateCommit(q, t) PROVE Contract!Next
  <2>1. /\ run'[q].thread = t /\ run'[q].sent = run[q].sent
        /\ run'[q].billed = run[q].billed
    BY <1>1, <1>3 DEF CreateCommit, TypeOK, Run
  <2>2. QED
    BY <1>2, <1>3, <2>1, OpenAlone DEF CreateCommit
<1>4. CASE CreateRefresh(q)
  <2>1. /\ run'[q].thread = run[q].thread /\ run'[q].sent = run[q].sent
        /\ run'[q].billed = run[q].billed
    BY <1>1, <1>4 DEF CreateRefresh, TypeOK, Run
  <2>2. QED
    BY <1>2, <1>4, <2>1, UnseenAlone DEF CreateRefresh
<1>5. CASE RecordCommit(q)
  <2>1. /\ run'[q].thread = run[q].thread /\ run'[q].sent = run[q].sent
        /\ run'[q].billed = run[q].billed \cup {Period[run[q].period]}
    BY <1>1, <1>5 DEF RecordCommit, TypeOK, Run
  <2>2. QED
    BY <1>2, <1>5, <2>1, BillAlone DEF RecordCommit, InsertUsage
<1>6. CASE RecordRefresh(q)
  <2> DEFINE s == status[run[q].thread]
  <2>1. /\ run'[q].thread = run[q].thread /\ run'[q].sent = run[q].sent
        /\ run'[q].billed = run[q].billed
    <3>1. CASE <<q, Period[run[q].period]>> \in usage
      BY <1>1, <1>6, <3>1 DEF RecordRefresh, TypeOK, Run
    <3>2. CASE <<q, Period[run[q].period]>> \notin usage
      <4>1. run'[q] = [Raised(q, FALSE) EXCEPT !.snap = s]
        BY <1>6, <3>2 DEF RecordRefresh, TypeOK
      <4>2. Raised(q, FALSE) \in Run
        BY RaisedFields
      <4>3. Same(Raised(q, FALSE), run'[q]) /\ run'[q].billed = Raised(q, FALSE).billed
        BY <4>1, <4>2 DEF Run, Same
      <4>4. QED
        BY <4>3, RaisedFields DEF Same
    <3>3. QED
      BY <3>1, <3>2
  <2>2. QED
    BY <1>2, <1>6, <2>1, UnseenAlone DEF RecordRefresh
<1>7. QED
  BY <1>3, <1>4, <1>5, <1>6

LEMMA FaultContract ==
  ASSUME TypeOK, RunShape, ToldShape, NEW q \in Runs,
         Disconnect(q) \/ DbFail(q) \/ DbFailAfterCommit(q)
  PROVE  Contract!Next
<1>1. run[q] \in Run
  BY DEF TypeOK
<1>2. Alone(q)
  BY StepAlone DEF StepOf
<1>3. CASE Disconnect(q) \/ (DbFail(q) /\ run[q].pc \in Handler)
  <2>1. status' = status /\ run[q].pc # "closed"
    BY <1>3 DEF Disconnect, DbFail, Streaming, Handler, Update
  <2>2. run'[q] = [run[q] EXCEPT !.pc = "closed", !.lost = TRUE]
    BY <1>1, <1>3 DEF Disconnect, DbFail, Handler, Update, TypeOK, Run
  <2>3. /\ run'[q].thread = run[q].thread /\ run'[q].sent = run[q].sent
        /\ run'[q].billed = run[q].billed
    BY <1>1, <2>2 DEF Run
  <2>4. QED
    BY <1>2, <2>1, <2>3, UnseenAlone
<1>4. CASE DbFail(q) /\ run[q].pc \notin Handler
  <2>1. PICK b \in BOOLEAN : run'[q] = DbRaised(q, b)
    BY <1>4 DEF DbFail, TypeOK
  <2>2. status' = status /\ run[q].pc # "closed"
    BY <1>4 DEF DbFail, Update
  <2>3. QED
    BY <1>2, <2>1, <2>2, DbRaisedFields, UnseenAlone
<1>5. CASE DbFailAfterCommit(q) /\ run[q].pc = "create"
  <2>1. PICK t \in Threads : InsertThread(q, t)
    BY <1>5 DEF DbFailAfterCommit
  <2>2. run[q].thread = NoThread
    BY <1>5 DEF RunShape, RunOK
  <2>3. /\ run'[q].thread = run[q].thread /\ run'[q].sent = run[q].sent
        /\ run'[q].billed = run[q].billed
    BY <1>1, <1>5 DEF DbFailAfterCommit, TypeOK, Run
  <2>4. QED
    BY <1>2, <1>5, <2>1, <2>2, <2>3, OpenAlone
<1>6. CASE DbFailAfterCommit(q) /\ run[q].pc = "record"
  <2>1. /\ run'[q] = [DbRaised(q, TRUE) EXCEPT !.billed = @ \cup {Period[run[q].period]}]
        /\ status' = status
    BY <1>6 DEF DbFailAfterCommit, InsertUsage, TypeOK
  <2>2. DbRaised(q, TRUE) \in Run
    BY DbRaisedFields
  <2>3. /\ Same(DbRaised(q, TRUE), run'[q])
        /\ run'[q].billed = DbRaised(q, TRUE).billed \cup {Period[run[q].period]}
    BY <2>1, <2>2 DEF Run, Same
  <2>4. /\ run'[q].thread = run[q].thread /\ run'[q].sent = run[q].sent
        /\ run'[q].billed = run[q].billed \cup {Period[run[q].period]}
    BY <2>3, DbRaisedFields DEF Same
  <2>5. QED
    BY <1>2, <1>6, <2>1, <2>4, BillAlone
<1>7. CASE DbFailAfterCommit(q) /\ run[q].pc = "commit"
  <2>1. /\ run'[q] = [DbRaised(q, TRUE) EXCEPT !.wrote = @ \cup ({run[q].target} \cap Final)]
        /\ status[run[q].thread] \in Live
        /\ status' = [status EXCEPT ![run[q].thread] = run[q].target]
    BY <1>7 DEF DbFailAfterCommit, TypeOK
  <2>2. DbRaised(q, TRUE) \in Run
    BY DbRaisedFields
  <2>3. Same(DbRaised(q, TRUE), run'[q]) /\ run'[q].billed = DbRaised(q, TRUE).billed
    BY <2>1, <2>2 DEF Run, Same
  <2>4. /\ run'[q].thread = run[q].thread /\ run'[q].sent = run[q].sent
        /\ run'[q].billed = run[q].billed
    BY <2>3, DbRaisedFields DEF Same
  <2>5. QED
    BY <1>2, <1>7, <2>1, <2>4, WriteAlone
<1>8. QED
  BY <1>3, <1>4, <1>5, <1>6, <1>7 DEF DbFailAfterCommit

LEMMA CrashContract ==
  ASSUME TypeOK, Crash
  PROVE  Contract!Next
<1>1. ASSUME NEW r \in Runs
      PROVE  /\ run'[r].thread = run[r].thread /\ run'[r].sent = run[r].sent
             /\ run'[r].billed = run[r].billed
             /\ run[r].pc = "closed" => run'[r].pc = "closed"
  <2>1. run'[r] = run[r] \/ Dies(r)
    BY DEF Crash, Dies
  <2>2. QED
    BY <2>1, DiesFields
<1>2. Of' = Of /\ Told' = Told /\ Paid' = Paid /\ Over \subseteq Over'
  BY <1>1 DEF Of, Told, Paid, Over
<1>3. status' = status
  BY DEF Crash
<1>4. QED
  BY <1>2, <1>3, Unseen

LEMMA NextContract ==
  ASSUME TypeOK, RunShape, ToldShape, [Next]_vars
  PROVE  [Contract!Next]_Contract!vars
<1>1. ASSUME NEW q \in Runs, RunStep(q) PROVE Contract!Next
  BY <1>1, UpdateContract, StartStreamContract, AgentContract, RepositoryContract DEF RunStep
<1>2. ASSUME NEW t \in Threads, DeleteSession(t) PROVE Contract!Next
  <2>1. Of' = Of /\ Told' = Told /\ Paid' = Paid /\ Over' = Over
    BY <1>2 DEF DeleteSession, Of, Told, Paid, Over
  <2>2. status[t] \notin {"none", "deleted"} /\ status' = [status EXCEPT ![t] = "deleted"]
    BY <1>2 DEF DeleteSession, Live, Final
  <2>3. Contract!Delete(t)
    BY <2>1, <2>2 DEF Contract!Delete, Contract!There, Of, Told, Paid
  <2>4. Over' \subseteq Runs
    BY DEF Over
  <2>5. QED
    BY <2>1, <2>3, <2>4 DEF Contract!Next, Over
<1>3. ASSUME run' = run, status' = status PROVE Contract!Next
  BY <1>3, Unseen DEF Of, Told, Paid, Over
<1>4. QED
  BY <1>1, <1>2, <1>3, RequestContract, FaultContract, CrashContract
     DEF Next, Environment, QuotaReset, vars

\* chat.py:25-166 over session_repo.py and quota_repo.py: whatever requests,
\* deletions, resets and faults do, what a client is told, what is billed and
\* what the threads table shows are a behaviour of AnswerContract.
THEOREM KeepsContractCorrect == Spec => KeepsContract
<1>1. Init => Contract!Init
  BY InitContract
<1>2. Inv /\ [Next]_vars => [Contract!Next]_Contract!vars
  BY NextContract DEF Inv
<1>3. QED
  BY <1>1, <1>2, InvCorrect, PTL DEF Spec, KeepsContract, Contract!Spec
=============================================================================
