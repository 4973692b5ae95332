------------------------------ MODULE Pipelines ------------------------------
(***************************************************************************)
(* Pipelines: definitions and runs in one document, kept in a cache of the *)
(* window and in a file, and the executor that queries the source of a     *)
(* pipeline and fills its target table (src/lib/pipelines/PipelineStore.ts,*)
(* PipelinePanel.tsx, the pipeline commands of registerHandlers.ts).       *)
(*                                                                         *)
(* An update changes the cache and asks for a save; a load replaces the    *)
(* cache by what it read.  The native commands that save and load are      *)
(* synchronous: they are served, and answered, in the order they were      *)
(* asked for, so an action that handles an answer serves its request too.  *)
(* One action is the code between two awaits.                              *)
(***************************************************************************)
EXTENDS Naturals, Sequences, FiniteSets

CONSTANTS
    Pipeline,       \* ids of pipelines
    Table,          \* tables a pipeline may fill, each of a connection
    TargetTable,    \* targetTable of each pipeline: any name, also one that others have
    None,           \* no document, no run, no rows yet
    HistoryLimit,   \* runs kept of a pipeline: 25
    MaxLoads,       \* bound: loads under way
    MaxQueue,       \* bound: requests under way when the panel or the agent asks for one more
    MaxRuns,        \* bound: runs started
    MaxRestarts     \* bound: restarts

ASSUME PipelinesAssumption ==
    /\ None \notin Pipeline \cup {"refresh", "other", "create", "run"}
    /\ TargetTable \in [Pipeline -> Table]
    /\ HistoryLimit \in Nat \ {0}
    /\ MaxLoads \in Nat /\ MaxQueue \in Nat /\ MaxRuns \in Nat /\ MaxRestarts \in Nat

VARIABLES
    cache,      \* pipelineCache
    file,       \* the saved document
    queue,      \* saves (run: the run that waits, 0: none) and loads (run: 0), not answered
    panel,      \* the panel is open
    exec,       \* what each run awaits
    inFlight,   \* inFlightPipelines
    target,     \* the tables: the run that cleared each, the rows
    born,       \* ghost: pipelines created
    started,    \* ghost: number of runs started
    lost,       \* ghost: pipelines with a run that a load parted from its record or a
                \* restart cut off
    crossed,    \* ghost: runs that executed while another pipeline filled the same table
    restarts    \* ghost: number of restarts

document == <<cache, file, queue>>
runner == <<exec, inFlight, target>>
ghosts == <<born, started, lost, crossed, restarts>>
vars == <<document, panel, runner, ghosts>>

RunId == 1 .. MaxRuns
Load == {"refresh", "other", "create", "run"}

\* A document: definitions, the status each shows, and their runs, newest first.
Empty == [defs |-> {}, last |-> [p \in Pipeline |-> None], runs |-> [p \in Pipeline |-> << >>]]

\* What a run awaits: the save that follows the event it is named for, or a statement.
Saving == {"queued", "started", "query", "queried", "table", "filled", "broken", "ended"}
Stage == {"idle", "querying", "creating", "clearing", "filling"} \cup Saving
Resting == [stage |-> "idle", pipeline |-> None, rows |-> None]

-----------------------------------------------------------------------------
\* The document.

OpenStatus == {"queued", "running"}
HasOpenRun(doc, p) == \E k \in DOMAIN doc.runs[p] : doc.runs[p][k].status \in OpenStatus

WithLast(doc, p, status) == [doc EXCEPT !.last[p] = IF p \in doc.defs THEN status ELSE @]

\* A run is queued; of a history that is full the oldest run goes.
Queued(doc, p, r) ==
    LET longer == <<[id |-> r, status |-> "queued"]>> \o doc.runs[p]
    IN  [WithLast(doc, p, "queued") EXCEPT
            !.runs[p] = IF Len(longer) > HistoryLimit THEN SubSeq(longer, 1, HistoryLimit)
                                                      ELSE longer]

\* setPipelineRunState: nothing, if the document has no such run.
WithStatus(doc, p, r, status) ==
    [doc EXCEPT !.runs[p] = [k \in DOMAIN @ |->
                                IF @[k].id = r THEN [@[k] EXCEPT !.status = status] ELSE @[k]]]

Ended(doc, p, r, status) == WithLast(WithStatus(doc, p, r, status), p, status)

Created(doc, p) == [doc EXCEPT !.defs = @ \cup {p}, !.last[p] = None]
Deleted(doc, p) == [doc EXCEPT !.defs = @ \ {p}, !.last[p] = None, !.runs[p] = << >>]

-----------------------------------------------------------------------------
\* The cache and the file.

LoadOf(l) == [load |-> l, run |-> 0, doc |-> None]
SaveOf(r, doc) == [load |-> None, run |-> r, doc |-> doc]
MayLoad(pending) ==
    Cardinality({k \in DOMAIN pending : pending[k].load # None}) < MaxLoads
MayAsk == Len(queue) < MaxQueue

\* The first request is a load of the kind l; or a save r waits for, which is written.
HasRead(l) == queue # << >> /\ Head(queue).load = l /\ UNCHANGED file
HasSaved(r) ==
    /\ queue # << >> /\ Head(queue).load = None /\ Head(queue).run = r
    /\ file' = Head(queue).doc

\* setCache, while the requests of pending are not answered: the open panel loads
\* again, before anything else is asked for.
SetCache(doc, pending, requests) ==
    /\ cache' = doc
    /\ queue' = IF panel /\ MayLoad(pending)
                  THEN Append(pending, LoadOf("refresh")) \o requests
                  ELSE pending \o requests

\* updateDocument.
Update(r, doc, pending) == SetCache(doc, pending, <<SaveOf(r, doc)>>)

\* A minute has passed, the search is opened, the agent lists the pipelines or asks for
\* one to be created or run: ensurePipelinesLoaded.  (Nothing in the program gives a
\* pipeline a cadence, so the scheduler only loads.)
Asks(l) ==
    /\ l # "refresh" /\ MayLoad(queue) /\ MayAsk
    /\ \A k \in DOMAIN queue : queue[k].load # l
    /\ l = "create" => born # Pipeline
    /\ l = "run" => started < MaxRuns
    /\ queue' = Append(queue, LoadOf(l))
    /\ UNCHANGED <<cache, file, panel, runner, ghosts>>

PanelOpens ==
    /\ ~panel /\ panel' = TRUE
    /\ MayLoad(queue) /\ MayAsk
    /\ queue' = Append(queue, LoadOf("refresh"))
    /\ UNCHANGED <<cache, file, runner, ghosts>>

PanelCloses ==
    /\ panel /\ panel' = FALSE
    /\ UNCHANGED <<document, runner, ghosts>>

\* What a load finds replaces the cache, and what the cache had beyond it is lost: it
\* matters where a run is under way, or looks as if it were.
Loses ==
    lost' = lost \cup {p \in Pipeline : /\ \/ (p \in file.defs) # (p \in cache.defs)
                                          \/ file.runs[p] # cache.runs[p]
                                       /\ \/ HasOpenRun(file, p)
                                          \/ \E r \in RunId : exec[r].pipeline = p}

\* A load that is only a load.
Loads ==
    /\ HasRead("refresh") \/ HasRead("other")
    /\ SetCache(file, Tail(queue), << >>)
    /\ Loses
    /\ UNCHANGED <<panel, runner, born, started, crossed, restarts>>

\* create_pipeline.
Creates(p) ==
    /\ HasRead("create") /\ p \notin born
    /\ born' = born \cup {p}
    /\ Update(0, Created(file, p), Tail(queue))
    /\ Loses
    /\ UNCHANGED <<panel, runner, started, crossed, restarts>>

Deletes(p) ==
    /\ panel /\ p \in cache.defs /\ MayAsk
    /\ Update(0, Deleted(cache, p), queue)
    /\ UNCHANGED <<file, panel, runner, ghosts>>

\* A save that nothing waits for.
Stores ==
    /\ HasSaved(0)
    /\ queue' = Tail(queue)
    /\ UNCHANGED <<cache, panel, runner, ghosts>>

-----------------------------------------------------------------------------
\* The executor.

Goes(r, stage) == exec' = [exec EXCEPT ![r].stage = stage]

\* runPipelineDefinition up to its first await, on the document doc.
Starts(p, doc, pending) ==
    LET r == started + 1
    IN  /\ started < MaxRuns /\ started' = r
        /\ p \in doc.defs /\ ~HasOpenRun(doc, p)
        /\ exec' = [exec EXCEPT ![r] = [stage |-> "queued", pipeline |-> p, rows |-> None]]
        /\ Update(r, Queued(doc, p, r), pending)
        /\ UNCHANGED <<inFlight, target>>

\* The operator, in the panel.
PanelRuns(p) ==
    /\ panel
    /\ Starts(p, cache, queue)
    /\ UNCHANGED <<file, panel, born, lost, crossed, restarts>>

\* run_pipeline, which loads first; a pipeline that is gone or has an open run is not
\* started.
AgentRuns(p) ==
    /\ HasRead("run")
    /\ Loses
    /\ \/ Starts(p, file, Tail(queue))
       \/ /\ p \notin file.defs \/ HasOpenRun(file, p) \/ started = MaxRuns
          /\ SetCache(file, Tail(queue), << >>)
          /\ UNCHANGED <<runner, started>>
    /\ UNCHANGED <<panel, born, crossed, restarts>>

Executing(r) == exec[r].stage \notin {"idle", "queued"}

\* What r fills, the runs of other pipelines fill as well that execute by now:
\* inFlightPipelines keeps ids of pipelines apart, not their tables.
Beside(r) ==
    {q \in RunId : /\ Executing(q)
                   /\ exec[q].pipeline # exec[r].pipeline
                   /\ TargetTable[exec[q].pipeline] = TargetTable[exec[r].pipeline]}
Crosses(r) == crossed' = crossed \cup Beside(r) \cup (IF Beside(r) # {} THEN {r} ELSE {})

\* Mutant: a pipeline that is in flight is not left alone.
EntersAnyway(r) ==
    /\ exec[r].stage = "queued" /\ HasSaved(r)
    /\ inFlight' = inFlight \cup {exec[r].pipeline}
    /\ Goes(r, "started")
    /\ Crosses(r)
    /\ Update(r, WithStatus(cache, exec[r].pipeline, r, "running"), Tail(queue))
    /\ UNCHANGED <<panel, target, born, started, lost, restarts>>

\* A pipeline that is in flight is left alone, and the run stays queued.
Enters(r) ==
    LET p == exec[r].pipeline
    IN  /\ exec[r].stage = "queued" /\ HasSaved(r)
        /\ \/ /\ p \in inFlight
              /\ exec' = [exec EXCEPT ![r] = Resting]
              /\ queue' = Tail(queue)
              /\ UNCHANGED <<cache, inFlight, crossed>>
           \/ /\ p \notin inFlight
              /\ inFlight' = inFlight \cup {p}
              /\ Goes(r, "started")
              /\ Crosses(r)
              /\ Update(r, WithStatus(cache, p, r, "running"), Tail(queue))
        /\ UNCHANGED <<panel, target, born, started, lost, restarts>>

\* The record of a step is added; its content is left out, its save is not.
PushesStep(r) ==
    /\ HasSaved(r)
    /\ \/ exec[r].stage = "started" /\ Goes(r, "query")
       \/ exec[r].stage = "queried" /\ Goes(r, "table")
    /\ Update(r, cache, Tail(queue))
    /\ UNCHANGED <<panel, inFlight, target, ghosts>>

\* The query is sent; or the first statement on the target table, which is created
\* unless there are no rows.
Sends(r) ==
    /\ HasSaved(r)
    /\ queue' = Tail(queue)
    /\ \/ exec[r].stage = "query" /\ Goes(r, "querying")
       \/ /\ exec[r].stage = "table"
          /\ Goes(r, IF exec[r].rows = "some" THEN "creating" ELSE "clearing")
    /\ UNCHANGED <<cache, panel, inFlight, target, ghosts>>

StepDone(r, stage) == Goes(r, stage) /\ Update(r, cache, queue) /\ UNCHANGED file

\* Any statement may fail.
Breaks(r) ==
    /\ exec[r].stage \in {"querying", "creating", "clearing", "filling"}
    /\ StepDone(r, "broken")
    /\ UNCHANGED <<panel, inFlight, target, ghosts>>

QueryAnswers(r) ==
    /\ exec[r].stage = "querying"
    /\ \E rows \in {"empty", "some"} :
         exec' = [exec EXCEPT ![r].stage = "queried", ![r].rows = rows]
    /\ Update(r, cache, queue)
    /\ UNCHANGED <<file, panel, inFlight, target, ghosts>>

TableIsThere(r) ==
    /\ exec[r].stage = "creating"
    /\ Goes(r, "clearing")
    /\ UNCHANGED <<document, panel, inFlight, target, ghosts>>

TableIsCleared(r) ==
    /\ exec[r].stage = "clearing"
    /\ target' = [target EXCEPT ![TargetTable[exec[r].pipeline]] = [run |-> r, rows |-> "empty"]]
    /\ \/ exec[r].rows = "some" /\ Goes(r, "filling") /\ UNCHANGED document
       \/ exec[r].rows = "empty" /\ StepDone(r, "filled")
    /\ UNCHANGED <<panel, inFlight, ghosts>>

\* A chunk of rows is inserted, which may be the last.
TableIsFilled(r) ==
    LET t == TargetTable[exec[r].pipeline]
        Inserts(rows) ==
            target' = [target EXCEPT ![t].rows =
                          IF target[t].run = r /\ @ # "mixed" THEN rows ELSE "mixed"]
    IN  /\ exec[r].stage = "filling"
        /\ \/ Inserts("part") /\ target' # target /\ UNCHANGED <<document, exec>>
           \/ Inserts("all") /\ StepDone(r, "filled")
        /\ UNCHANGED <<panel, inFlight, ghosts>>

\* Mutant: a run that failed is not closed.
ClosesSuccess(r) ==
    LET p == exec[r].pipeline
    IN  /\ exec[r].stage \in {"filled", "broken"} /\ HasSaved(r)
        /\ Goes(r, "ended")
        /\ Update(r, IF exec[r].stage = "filled" THEN Ended(cache, p, r, "success") ELSE cache,
                  Tail(queue))
        /\ UNCHANGED <<panel, inFlight, target, ghosts>>

Closes(r) ==
    LET p == exec[r].pipeline
        status == IF exec[r].stage = "filled" THEN "success" ELSE "failed"
    IN  /\ exec[r].stage \in {"filled", "broken"} /\ HasSaved(r)
        /\ Goes(r, "ended")
        /\ Update(r, Ended(cache, p, r, status), Tail(queue))
        /\ UNCHANGED <<panel, inFlight, target, ghosts>>

Leaves(r) ==
    /\ exec[r].stage = "ended" /\ HasSaved(r)
    /\ queue' = Tail(queue)
    /\ inFlight' = inFlight \ {exec[r].pipeline}
    /\ exec' = [exec EXCEPT ![r] = Resting]
    /\ UNCHANGED <<cache, panel, target, ghosts>>

RunStep(r) ==
    \/ Enters(r) \/ PushesStep(r) \/ Sends(r) \/ Breaks(r) \/ QueryAnswers(r)
    \/ TableIsThere(r) \/ TableIsCleared(r) \/ TableIsFilled(r) \/ Closes(r) \/ Leaves(r)

-----------------------------------------------------------------------------
\* The program ends and starts again; before the first load its cache is empty.
Restart ==
    /\ restarts < MaxRestarts /\ restarts' = restarts + 1
    /\ cache' = Empty
    /\ queue' = << >>
    /\ panel' = FALSE
    /\ exec' = [r \in RunId |-> Resting]
    /\ inFlight' = {}
    /\ lost' = lost \cup {p \in Pipeline : \/ HasOpenRun(file, p)
                                           \/ \E r \in RunId : exec[r].pipeline = p}
    /\ UNCHANGED <<file, target, born, started, crossed>>

Init ==
    /\ cache = Empty /\ file = Empty
    /\ queue = << >>
    /\ panel = FALSE
    /\ exec = [r \in RunId |-> Resting]
    /\ inFlight = {}
    /\ target = [t \in Table |-> [run |-> None, rows |-> "empty"]]
    /\ born = {} /\ started = 0 /\ lost = {} /\ crossed = {} /\ restarts = 0

Operator == PanelOpens \/ PanelCloses \/ \E p \in Pipeline : Deletes(p) \/ PanelRuns(p)

Next ==
    \/ Operator \/ Loads \/ Stores \/ Restart
    \/ \E l \in Load : Asks(l)
    \/ \E p \in Pipeline : Creates(p) \/ AgentRuns(p)
    \/ \E r \in RunId : RunStep(r)

Spec == Init /\ [][Next]_vars

-----------------------------------------------------------------------------
\* At most one executor works on a pipeline, whatever the cache says of its runs: loads
\* take open runs out of it and a second run starts (PipelineStore.ts 592-595, 636).
OneExecutor ==
    \A r, q \in RunId : r # q /\ Executing(r) /\ Executing(q) => exec[r].pipeline # exec[q].pipeline

\* At the end of its last step a run finds in the target table its own rows, all of them
\* and no others, whatever runs of its pipeline were started meanwhile and whatever any
\* run left there before.  The exception: another pipeline with the same targetTable was
\* executed at the same time, which nothing keeps apart, and the DELETEs and INSERTs of
\* the two alternate (PipelineStore.ts 482-521, 636-644).
RowsOfOneRun ==
    \A r \in RunId \ crossed : exec[r].stage = "filled" =>
        target[TargetTable[exec[r].pipeline]] =
            [run |-> r, rows |-> IF exec[r].rows = "some" THEN "all" ELSE "empty"]

\* Unless a load replaced the runs of a pipeline while one was under way, or brought back
\* an open one, or a restart cut one off, a run is open exactly while it is executed or
\* about to be, and none is open for ever (PipelineStore.ts 562-574, 619-634, 759-850).
RunsMatch ==
    \A p \in Pipeline \ lost :
        /\ \A k \in DOMAIN cache.runs[p] : cache.runs[p][k].status \in OpenStatus =>
              exec[cache.runs[p][k].id].stage \notin {"idle", "ended"}
        /\ \A r \in RunId : p \in cache.defs /\ exec[r].pipeline = p /\ exec[r].stage # "ended" =>
              \E k \in DOMAIN cache.runs[p] : /\ cache.runs[p][k].id = r
                                              /\ cache.runs[p][k].status \in OpenStatus
=============================================================================
