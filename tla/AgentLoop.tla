------------------------------ MODULE AgentLoop ------------------------------
(***************************************************************************)
(* The conversation of the chat and the agent loops that extend it: rounds *)
(* of the model and its tools, retries of the model call, the compaction   *)
(* of the history and what the task engine makes of a loop's history       *)
(*   src/lib/agent/AgentLoop.ts             runAgentLoop                   *)
(*   src/lib/agent/harness/ContextEngine.ts compactHistory                 *)
(*   src/lib/ai/resilience.ts               withRetry                      *)
(*   src/lib/agent/TaskEngine.ts            the loops of a task            *)
(*   src/components/ai/AIChat.tsx           historyRef                     *)
(*                                                                         *)
(* One request is served at a time: requests that overlap, the plan queue  *)
(* and the tasks are those of AgentTasks.  A turn is its role and size in  *)
(* the units of the budget; answers are numbered, and results name the     *)
(* answer whose calls they are of.  Which calls a policy or the confidence *)
(* gate refuses, when the agent struggles and what a tool does are left    *)
(* open.                                                                   *)
(***************************************************************************)
EXTENDS Naturals, Sequences, FiniteSets
LOCAL INSTANCE SequencesExt

CONSTANTS
    Signature,      \* live queries that differ in tool or input
    Budget,         \* historyMax, 30 000 tokens in the code
    Large,          \* size of the results of a large query; all else has size 1
    KeptAnswers,    \* answers a compaction always keeps: 10
    ClarifierKeeps, \* turns kept when the loop asks back: 40
    FastRounds, DeepRounds,     \* MAX_ROUNDS: 6 and 12
    FastQueries,    \* live queries of a fast analysis: 2
    MaxAttempts,    \* attempts of a model call: 4
    MaxCalls,       \* bound: calls of an answer
    MaxLoops        \* bound: loops run

ASSUME AgentLoopAssumption ==
    /\ {Budget, Large, KeptAnswers, ClarifierKeeps, MaxCalls, MaxLoops} \subseteq Nat
    /\ {FastRounds, DeepRounds, FastQueries, MaxAttempts} \subseteq Nat \ {0}

VARIABLES
    chat,       \* historyRef: the conversation
    history,    \* what the engine hands to its loop, while a request is served
    working,    \* the turns of the loop
    phase,      \* "idle", "model", "tools", or "engine": the loop returned
    depth,      \* queryDepth
    round, attempt,
    calls,      \* the calls of the last answer
    seen,       \* toolSignatureCounts: signatures with a count
    attempts,   \* resultFetchingAttempts
    queued,     \* pendingApprovalSteps is not empty
    aborted,    \* the signal
    first,      \* answers before this loop
    answers,    \* answers so far
    sent,       \* ghost: times a live query was dispatched in this loop
    upset,      \* ghost: what parted calls from their results
    loops       \* loops run

talk == <<chat, history, upset>>
budgets == <<seen, attempts, sent>>
loopVars == <<talk, working, phase, depth, round, attempt, calls, budgets, queued, aborted,
              first, answers, loops>>

Turn == [role : {"user", "answer", "results"}, of : Nat, calls : BOOLEAN, size : Nat]
UserTurn == [role |-> "user", of |-> 0, calls |-> FALSE, size |-> 1]
Answer(n, called) == [role |-> "answer", of |-> n, calls |-> called, size |-> 1]
Results(n, size) == [role |-> "results", of |-> n, calls |-> FALSE, size |-> size]

\* A tool is a live query, one that is run at once, or one that waits for approval.
Tool == [kind : {"query"}, sig : Signature] \cup [kind : {"command", "destructive"}]

Rounds == IF depth = "fast" THEN FastRounds ELSE DeepRounds

-----------------------------------------------------------------------------
\* compactHistory, from the last turn to the first.  The placeholder answers no call.
Compacted(turns) ==
    LET with(turn, kept) ==
            [kept EXCEPT !.turns = <<turn>> \o @, !.size = @ + turn.size]
        fits(size, kept) == kept.size + size <= Budget
        keep(turn, kept) ==
            CASE turn.role = "user" -> with(turn, kept)
              [] turn.role = "answer" ->
                    LET counted == [kept EXCEPT !.answers = @ + 1]
                    IN  IF kept.answers < KeptAnswers \/ fits(turn.size, kept)
                        THEN with(turn, counted) ELSE counted
              [] OTHER ->
                    IF fits(turn.size, kept) THEN with(turn, kept)
                    ELSE IF fits(1, kept) THEN with(Results(0, 1), kept) ELSE kept
    IN  FoldRight(keep, turns, [turns |-> << >>, size |-> 0, answers |-> 0]).turns

\* slice(-ClarifierKeeps)
LastTurns(turns) ==
    SubSeq(turns, 1 + (IF Len(turns) > ClarifierKeeps THEN Len(turns) - ClarifierKeeps ELSE 0),
           Len(turns))

-----------------------------------------------------------------------------
\* The variables of a loop, before its first round and after it.
FreshLocals ==
    /\ round' = 0 /\ attempt' = 1
    /\ calls' = << >> /\ seen' = {} /\ attempts' = 0
    /\ sent' = [s \in Signature |-> 0]

\* runAgentLoop up to the first round, with turns as its history after n answers.  It may
\* ask back instead of calling the model.
StartLoop(turns, n) ==
    /\ loops < MaxLoops
    /\ loops' = loops + 1
    /\ depth' \in {"fast", "deep"}
    /\ FreshLocals /\ queued' = FALSE
    /\ first' = n
    /\ \/ /\ phase' = "model"
          /\ working' = Append(turns, UserTurn)
          /\ answers' = n
          /\ UNCHANGED upset
       \/ LET asked == turns \o <<UserTurn, Answer(n + 1, FALSE)>>
          IN  /\ phase' = "engine"
              /\ working' = LastTurns(asked)
              /\ answers' = n + 1
              /\ upset' = upset \cup (IF working' # asked THEN {"cut"} ELSE {})

\* executeAgentRequest and the engine's first loop: an empty conversation may get the
\* summary of prior sessions.
Ask ==
    /\ phase = "idle"
    /\ \/ chat' = chat /\ StartLoop(chat, answers)
       \/ /\ chat = << >>
          /\ chat' = <<Answer(answers + 1, FALSE)>>
          /\ StartLoop(chat', answers + 1)
    /\ history' = chat'
    /\ aborted' = FALSE

\* The dustbin, also while a request is served.
ClearConversation ==
    /\ chat # << >>
    /\ chat' = << >>
    /\ upset' = IF phase = "idle" THEN {} ELSE upset
    /\ UNCHANGED <<history, working, phase, depth, round, attempt, calls, budgets, queued,
                   aborted, first, answers, loops>>

Abort ==
    /\ phase # "idle" /\ ~aborted
    /\ aborted' = TRUE
    /\ UNCHANGED <<talk, working, phase, depth, round, attempt, calls, budgets, queued, first,
                   answers, loops>>

\* The loop throws, or the engine stops to wait for it: the chat keeps its conversation.
Fails ==
    /\ phase' = "idle"
    /\ history' = << >> /\ working' = << >> /\ FreshLocals
    /\ UNCHANGED <<chat, upset, depth, queued, aborted, first, answers, loops>>

TimesOut == phase \in {"model", "tools"} /\ Fails

\* The loop returns its turns to the engine.
Returns(turns) ==
    /\ phase' = "engine"
    /\ working' = Compacted(turns)
    /\ upset' = upset \cup (IF turns[Len(turns)].calls THEN {"truncated"} ELSE {})
                     \cup (IF Compacted(turns) # turns THEN {"compacted"} ELSE {})
    /\ FreshLocals

-----------------------------------------------------------------------------
\* The model.

ModelFails ==
    /\ phase = "model"
    /\ \/ ~aborted /\ attempt < MaxAttempts
          /\ attempt' = attempt + 1
          /\ UNCHANGED <<talk, working, phase, depth, round, calls, budgets, queued, aborted,
                         first, answers, loops>>
       \/ Fails

\* toolSignatureCounts of the calls of an answer; only those of live queries are read.
Asked(tools) == {tools[k].sig : k \in {j \in DOMAIN tools : tools[j].kind = "query"}}

Waiting(tool) == [tool |-> tool, at |-> "checks"]
Answered(tool) == [tool |-> tool, at |-> "answered"]

\* Mutant: a signature is counted when its query returns.
StartedAll(tools) ==
    [k \in DOMAIN tools |-> IF tools[k].kind = "query" /\ tools[k].sig \in seen
                            THEN Answered(tools[k]) ELSE Waiting(tools[k])]

\* What each call does up to its first await, one after the other: a live query over the
\* budget, or asked for before, is skipped.
Started(tools) ==
    [k \in DOMAIN tools |->
        IF /\ tools[k].kind = "query"
           /\ \/ depth = "fast" /\ attempts >= FastQueries
              \/ tools[k].sig \in seen \cup Asked(SubSeq(tools, 1, k - 1))
        THEN Answered(tools[k]) ELSE Waiting(tools[k])]

\* The answer, with calls or without.  An answer that is cut at max_tokens ends the loop
\* though it has calls.
AnswerArrives ==
    /\ phase = "model" /\ ~aborted
    /\ answers' = answers + 1
    /\ \E n \in 0 .. MaxCalls, truncated \in BOOLEAN :
         \E tools \in [1 .. n -> Tool] :
           LET turns == Append(working, Answer(answers', n > 0))
           IN  \/ /\ n = 0 \/ truncated
                  /\ Returns(turns)
               \/ /\ n > 0 /\ ~truncated
                  /\ phase' = "tools"
                  /\ working' = turns
                  /\ calls' = Started(tools)
                  /\ seen' = seen \cup Asked(tools)
                  /\ UNCHANGED <<upset, round, attempt, attempts, sent>>
    /\ UNCHANGED <<chat, history, depth, queued, aborted, first, loops>>

-----------------------------------------------------------------------------
\* The tools, side by side.

\* The awaits before this point are the same for every call, so it is reached in order.
NextCheck(k) ==
    /\ k \in DOMAIN calls /\ calls[k].at = "checks"
    /\ \A j \in 1 .. k - 1 : calls[j].at # "checks"

ToolOnly == UNCHANGED <<talk, working, phase, depth, round, attempt, seen, aborted, first,
                        answers, loops>>

\* A policy, the confidence gate or a missing connection refuses the call.
Refuse(k) ==
    /\ NextCheck(k)
    /\ calls' = [calls EXCEPT ![k].at = "answered"]
    /\ UNCHANGED <<attempts, sent, queued>>
    /\ ToolOnly

\* A destructive command waits in the plan queue, any other is dispatched.
Dispatch(k) ==
    /\ NextCheck(k)
    /\ LET tool == calls[k].tool
       IN  /\ calls' = [calls EXCEPT ![k].at = IF tool.kind = "destructive" THEN "answered"
                                                                          ELSE "running"]
           /\ queued' = (queued \/ tool.kind = "destructive")
           /\ sent' = IF tool.kind = "query" THEN [sent EXCEPT ![tool.sig] = @ + 1] ELSE sent
    /\ UNCHANGED attempts
    /\ ToolOnly

\* A command returns, with success or not.
Return(k) ==
    /\ k \in DOMAIN calls /\ calls[k].at = "running"
    /\ calls' = [calls EXCEPT ![k].at = "answered"]
    /\ attempts' = attempts + (IF calls[k].tool.kind = "query" THEN 1 ELSE 0)
    /\ UNCHANGED <<sent, queued>>
    /\ ToolOnly

\* Mutant: a round whose calls were all refused adds no results.
ForgetsRefused ==
    /\ phase = "tools"
    /\ \A k \in DOMAIN calls : calls[k].at = "answered"
    /\ round + 1 < Rounds
    /\ round' = round + 1 /\ attempt' = 1 /\ phase' = "model" /\ calls' = << >>
    /\ working' = IF attempts = 0 THEN working ELSE Append(working, Results(answers, 1))
    /\ UNCHANGED <<talk, depth, budgets, queued, aborted, first, answers, loops>>

\* The results of the round, and a hint when the agent struggles.
RoundEnds ==
    /\ phase = "tools"
    /\ \A k \in DOMAIN calls : calls[k].at = "answered"
    /\ \E size \in {1, Large}, hints \in {<< >>, <<UserTurn>>} :
         LET turns == Append(working, Results(answers, size)) \o hints
         IN  \/ /\ round + 1 < Rounds
                /\ round' = round + 1 /\ attempt' = 1
                /\ phase' = "model" /\ calls' = << >>
                /\ working' = turns
                /\ UNCHANGED <<upset, budgets>>
             \/ round + 1 = Rounds /\ Returns(turns)
    /\ UNCHANGED <<chat, history, depth, queued, aborted, first, answers, loops>>

-----------------------------------------------------------------------------
\* The task engine, when a loop has returned.

\* getRecentToolCalls: the answers with calls past the length of the history before.
Recent ==
    {working[k].of : k \in {j \in Len(history) + 1 .. Len(working) : working[j].calls}}

\* The request is over: the conversation is that of the last loop.
RequestEnds ==
    /\ phase = "engine"
    /\ chat' = working
    /\ phase' = "idle"
    /\ history' = << >> /\ working' = << >>
    /\ UNCHANGED <<upset, depth, round, attempt, calls, budgets, queued, aborted, first,
                   answers, loops>>

\* The next subtask, or another attempt after a verification that failed, which is only
\* asked for when the loop made calls.
NextLoop ==
    /\ phase = "engine" /\ ~queued
    /\ \/ history' = working
       \/ Recent # {} /\ UNCHANGED history
    /\ StartLoop(history', answers)
    /\ UNCHANGED <<chat, aborted>>

EngineFails == phase = "engine" /\ Fails

LoopInit ==
    /\ chat = << >> /\ history = << >> /\ working = << >>
    /\ phase = "idle" /\ depth = "fast" /\ round = 0 /\ attempt = 1
    /\ calls = << >> /\ seen = {} /\ attempts = 0 /\ queued = FALSE /\ aborted = FALSE
    /\ first = 0 /\ answers = 0
    /\ sent = [s \in Signature |-> 0]
    /\ upset = {} /\ loops = 0

ToolStep == \E k \in 1 .. MaxCalls : Refuse(k) \/ Dispatch(k) \/ Return(k)

LoopStep == AnswerArrives \/ ModelFails \/ ToolStep \/ RoundEnds

LoopNext == Ask \/ ClearConversation \/ Abort \/ TimesOut \/ LoopStep
            \/ RequestEnds \/ NextLoop \/ EngineFails

LoopSpec == LoopInit /\ [][LoopNext]_loopVars

-----------------------------------------------------------------------------
\* Every call of an answer has its results in the next turn, and no results are of
\* another answer: an API refuses a conversation where this is not so.
Paired(turns) ==
    \A k \in DOMAIN turns :
        /\ turns[k].calls => /\ k < Len(turns)
                             /\ turns[k + 1].role = "results" /\ turns[k + 1].of = turns[k].of
        /\ turns[k].role = "results" => /\ k > 1 /\ turns[k - 1].calls
                                        /\ turns[k - 1].of = turns[k].of

\* What is sent to the model is paired, after any sequence of refusals, failures, stops,
\* retries, hints and rounds, unless a compaction, a clarification or a truncated answer
\* broke the pairs: nothing guards against those (AgentLoop.ts 1300-1306 and 1590,
\* ContextEngine.ts 104).
CallsHaveResults ==
    upset = {} => /\ Paired(chat) /\ Paired(history)
                  /\ phase = "model" => Paired(working)

\* No live query is sent twice in a loop, and a fast analysis sends at most the calls of
\* one answer more than its budget, which is looked at before the first await of a call
\* and counted after the last (AgentLoop.ts 1312 and 1442).
LiveQueriesAreBounded ==
    /\ \A s \in Signature : sent[s] <= 1
    /\ depth = "fast" => attempts < FastQueries + MaxCalls
=============================================================================
