--------------------------- MODULE PipelinesProofs ---------------------------
(***************************************************************************)
(* No two runs of a pipeline fill its target table at a time, and the      *)
(* records of the runs say what the executor does, for any number of       *)
(* pipelines, tables, runs, loads and restarts.                            *)
(***************************************************************************)
EXTENDS Pipelines, TLAPS, SequenceTheorems

ExecType == exec \in [RunId -> [stage : Stage, pipeline : Pipeline \cup {None},
                                rows : {None, "empty", "some"}]]

TargetType == target \in [Table -> [run : RunId \cup {None},
                                    rows : {"empty", "part", "all", "mixed"}]]

\* A run belongs to a pipeline, and one that executes has put it in inFlightPipelines
\* and not yet taken it out.
Reserved ==
    \A r \in RunId : /\ exec[r].stage # "idle" => exec[r].pipeline \in Pipeline
                     /\ Executing(r) => exec[r].pipeline \in inFlight

\* Two runs that execute and fill one table are of two pipelines, and both are marked.
Marked ==
    \A r, q \in RunId :
        /\ r # q /\ Executing(r) /\ Executing(q)
        /\ TargetTable[exec[r].pipeline] = TargetTable[exec[q].pipeline]
        => r \in crossed

\* A run that fills the table is the one that cleared it.
FillsItsOwn ==
    \A r \in RunId : exec[r].stage = "filling" =>
        /\ exec[r].rows = "some"
        /\ r \notin crossed => /\ target[TargetTable[exec[r].pipeline]].run = r
                               /\ target[TargetTable[exec[r].pipeline]].rows # "mixed"

IInv ==
    /\ ExecType /\ TargetType
    /\ Reserved /\ OneExecutor /\ Marked /\ FillsItsOwn /\ RowsOfOneRun

\* Before the first load nothing executes.
LEMMA InitIInv == Init => IInv
  BY DEF Init, IInv, ExecType, TargetType, Reserved, OneExecutor, Marked, FillsItsOwn,
         RowsOfOneRun, Resting, Executing, Stage, RunId

\* A step that moves no run and touches no table.
LEMMA QuietStep ==
    ASSUME IInv, UNCHANGED <<runner, crossed>>
    PROVE  IInv'
  BY DEF IInv, ExecType, TargetType, Reserved, OneExecutor, Marked, FillsItsOwn, RowsOfOneRun,
         Executing, runner

\* What a run that goes to a stage changes.
LEMMA Moved ==
    ASSUME ExecType, NEW r \in RunId, NEW stage \in Stage, Goes(r, stage)
    PROVE  /\ ExecType'
           /\ exec'[r].stage = stage /\ exec'[r].pipeline = exec[r].pipeline
           /\ exec'[r].rows = exec[r].rows
           /\ \A q \in RunId \ {r} : exec'[q] = exec[q]
  BY DEF Goes, ExecType

\* A run that executes goes to a stage that claims nothing of its table.
LEMMA StageStep ==
    ASSUME IInv, NEW r \in RunId, NEW stage \in Stage \ {"idle", "queued", "filling", "filled"},
           Executing(r), Goes(r, stage), UNCHANGED <<inFlight, target, crossed>>
    PROVE  IInv'
  <1>1. /\ ExecType'
        /\ exec'[r].stage = stage /\ exec'[r].pipeline = exec[r].pipeline
        /\ \A q \in RunId \ {r} : exec'[q] = exec[q]
    BY Moved DEF IInv
  <1>2. QED
    BY <1>1 DEF IInv, TargetType, Reserved, OneExecutor, Marked, FillsItsOwn, RowsOfOneRun, Executing

\* A run is queued on a pipeline, or in a place that is none.
LEMMA StartStep ==
    ASSUME IInv, NEW p \in Pipeline, NEW doc, NEW pending, Starts(p, doc, pending),
           UNCHANGED crossed
    PROVE  IInv'
  <1>1. /\ exec' = [exec EXCEPT ![started + 1] = [stage |-> "queued", pipeline |-> p, rows |-> None]]
        /\ UNCHANGED <<inFlight, target>>
    BY DEF Starts
  <1>2. ExecType'
    BY <1>1 DEF IInv, ExecType, Stage, Saving
  <1>3. QED
    BY <1>1, <1>2 DEF IInv, ExecType, TargetType, Reserved, OneExecutor, Marked, FillsItsOwn, RowsOfOneRun,
                Executing

\* A run enters only where no run of its pipeline executes.
LEMMA EnterStep ==
    ASSUME IInv, NEW r \in RunId, Enters(r)
    PROVE  IInv'
  <1> DEFINE p == exec[r].pipeline
  <1>1. CASE p \in inFlight
    <2>1. exec' = [exec EXCEPT ![r] = Resting] /\ UNCHANGED <<inFlight, target, crossed>>
      BY <1>1 DEF Enters
    <2>2. ExecType'
      BY <2>1 DEF IInv, ExecType, Resting, Stage
    <2>3. QED
      BY <2>1, <2>2 DEF IInv, ExecType, TargetType, Reserved, OneExecutor, Marked, FillsItsOwn,
                        RowsOfOneRun, Executing, Resting
  <1>2. CASE p \notin inFlight
    <2>1. /\ Goes(r, "started") /\ inFlight' = inFlight \cup {p} /\ Crosses(r)
          /\ UNCHANGED target /\ exec[r].stage = "queued"
      BY <1>2 DEF Enters
    <2>2. /\ ExecType'
          /\ exec'[r].stage = "started" /\ exec'[r].pipeline = p
          /\ \A q \in RunId \ {r} : exec'[q] = exec[q]
      BY <2>1, Moved DEF IInv, Stage, Saving
    <2>3. TargetType' /\ Reserved'
      BY <2>1, <2>2 DEF IInv, TargetType, Reserved, Executing
    <2>4. OneExecutor'
      BY <1>2, <2>1, <2>2 DEF IInv, Reserved, OneExecutor, Executing
    <2>5. Marked'
      <3>1. \A q \in RunId \ {r} : Executing(q) => exec[q].pipeline # p
        BY <1>2 DEF IInv, Reserved
      <3>2. \A q \in RunId \ {r} :
                /\ Executing(q)
                /\ TargetTable[exec[q].pipeline] = TargetTable[p]
                => q \in Beside(r)
        BY <3>1 DEF Beside
      <3>3. /\ crossed \subseteq crossed' /\ Beside(r) \subseteq crossed'
            /\ Beside(r) # {} => r \in crossed'
        BY <2>1 DEF Crosses
      <3>4. QED
        BY <2>2, <3>2, <3>3 DEF IInv, Marked, Executing
    <2>6. FillsItsOwn' /\ RowsOfOneRun'
      <3>1. crossed \subseteq crossed'
        BY <2>1 DEF Crosses
      <3>2. QED
        BY <2>1, <2>2, <3>1 DEF IInv, FillsItsOwn, RowsOfOneRun
    <2>7. QED
      BY <2>2, <2>3, <2>4, <2>5, <2>6 DEF IInv
  <1>3. QED
    BY <1>1, <1>2

\* A run that is not marked fills a table that no other run fills.
LEMMA Alone ==
    ASSUME IInv, NEW r \in RunId, Executing(r)
    PROVE  /\ exec[r].pipeline \in Pipeline /\ TargetTable[exec[r].pipeline] \in Table
           /\ \A q \in RunId \ {r} : Executing(q) =>
                 /\ exec[q].pipeline \in Pipeline /\ TargetTable[exec[q].pipeline] \in Table
                 /\ q \notin crossed =>
                       TargetTable[exec[q].pipeline] # TargetTable[exec[r].pipeline]
  BY PipelinesAssumption DEF IInv, Reserved, Marked, Executing

\* The table is emptied: a run with rows goes on to fill it, one without is done.
LEMMA ClearStep ==
    ASSUME IInv, NEW r \in RunId, TableIsCleared(r)
    PROVE  IInv'
  <1> DEFINE p == exec[r].pipeline
             t == TargetTable[p]
             stage == IF exec[r].rows = "some" THEN "filling" ELSE "filled"
  <1>1. /\ exec[r].stage = "clearing" /\ UNCHANGED <<inFlight, crossed>>
        /\ target' = [target EXCEPT ![t] = [run |-> r, rows |-> "empty"]]
        /\ Goes(r, stage)
        /\ exec[r].rows \in {"some", "empty"}
    BY DEF TableIsCleared, StepDone, ghosts
  <1>2. p \in Pipeline /\ t \in Table /\ p \in inFlight /\ Executing(r)
    BY <1>1, Alone DEF IInv, Reserved, Executing
  <1>3. /\ ExecType'
        /\ exec'[r].stage = stage /\ exec'[r].pipeline = p /\ exec'[r].rows = exec[r].rows
        /\ \A q \in RunId \ {r} : exec'[q] = exec[q]
    BY <1>1, Moved DEF IInv, Stage, Saving
  <1>4. TargetType' /\ target'[t] = [run |-> r, rows |-> "empty"]
        /\ \A o \in Table \ {t} : target'[o] = target[o]
    BY <1>1, <1>2 DEF IInv, TargetType
  <1>5. Reserved' /\ OneExecutor' /\ Marked'
    BY <1>1, <1>2, <1>3 DEF IInv, Reserved, OneExecutor, Marked, Executing
  <1>6. \A q \in RunId \ {r} : exec[q].stage \in {"filling", "filled"} /\ q \notin crossed =>
            TargetTable[exec[q].pipeline] \in Table \ {t}
    BY <1>2, Alone DEF Executing
  <1>7. FillsItsOwn'
    BY <1>1, <1>3, <1>4, <1>6 DEF IInv, FillsItsOwn
  <1>8. RowsOfOneRun'
    BY <1>1, <1>3, <1>4, <1>6 DEF IInv, RowsOfOneRun
  <1>9. QED
    BY <1>3, <1>4, <1>5, <1>7, <1>8 DEF IInv

\* Rows are inserted by the run that emptied the table.
LEMMA FillStep ==
    ASSUME IInv, NEW r \in RunId, TableIsFilled(r)
    PROVE  IInv'
  <1> DEFINE p == exec[r].pipeline
             t == TargetTable[p]
             Put(rows) == IF target[t].run = r /\ target[t].rows # "mixed" THEN rows ELSE "mixed"
  <1>1. /\ exec[r].stage = "filling" /\ UNCHANGED <<inFlight, crossed>>
        /\ exec[r].rows = "some"
        /\ r \notin crossed => target[t].run = r /\ target[t].rows # "mixed"
    BY DEF TableIsFilled, IInv, FillsItsOwn, ghosts
  <1>2. p \in Pipeline /\ t \in Table /\ Executing(r)
    BY <1>1, Alone DEF Executing
  <1>3. \A q \in RunId \ {r} : exec[q].stage \in {"filling", "filled"} /\ q \notin crossed =>
            TargetTable[exec[q].pipeline] \in Table \ {t}
    BY <1>2, Alone DEF Executing
  <1>4. \A rows \in {"part", "all"} : target' = [target EXCEPT ![t].rows = Put(rows)] =>
            /\ TargetType'
            /\ target'[t].run = target[t].run
            /\ r \notin crossed => target'[t] = [run |-> r, rows |-> rows]
            /\ \A o \in Table \ {t} : target'[o] = target[o]
    BY <1>1, <1>2 DEF IInv, TargetType
  <1>5. CASE target' = [target EXCEPT ![t].rows = Put("part")] /\ UNCHANGED exec
    <2>1. /\ TargetType'
          /\ r \notin crossed => target'[t] = [run |-> r, rows |-> "part"]
          /\ \A o \in Table \ {t} : target'[o] = target[o]
      BY <1>4, <1>5
    <2>2. FillsItsOwn'
      BY <1>1, <1>3, <1>5, <2>1 DEF IInv, FillsItsOwn
    <2>3. RowsOfOneRun'
      BY <1>1, <1>3, <1>5, <2>1 DEF IInv, RowsOfOneRun
    <2>4. QED
      BY <1>1, <1>5, <2>1, <2>2, <2>3 DEF IInv, ExecType, Reserved, OneExecutor, Marked, Executing
  <1>6. CASE target' = [target EXCEPT ![t].rows = Put("all")] /\ Goes(r, "filled")
    <2>1. /\ ExecType'
          /\ exec'[r].stage = "filled" /\ exec'[r].pipeline = p /\ exec'[r].rows = "some"
          /\ \A q \in RunId \ {r} : exec'[q] = exec[q]
      BY <1>1, <1>6, Moved DEF IInv, Stage, Saving
    <2>2. /\ TargetType'
          /\ r \notin crossed => target'[t] = [run |-> r, rows |-> "all"]
          /\ \A o \in Table \ {t} : target'[o] = target[o]
      BY <1>4, <1>6
    <2>3. Reserved' /\ OneExecutor' /\ Marked'
      BY <1>1, <1>2, <2>1 DEF IInv, Reserved, OneExecutor, Marked, Executing
    <2>4. FillsItsOwn'
      BY <1>1, <1>3, <2>1, <2>2 DEF IInv, FillsItsOwn
    <2>5. RowsOfOneRun'
      BY <1>1, <1>3, <2>1, <2>2 DEF IInv, RowsOfOneRun
    <2>6. QED
      BY <2>1, <2>2, <2>3, <2>4, <2>5 DEF IInv
  <1>7. QED
    BY <1>1, <1>5, <1>6 DEF TableIsFilled, StepDone

\* The pipeline is free again, and the only run that executed it is over.
LEMMA LeaveStep ==
    ASSUME IInv, NEW r \in RunId, Leaves(r)
    PROVE  IInv'
  <1>1. /\ exec[r].stage = "ended" /\ inFlight' = inFlight \ {exec[r].pipeline}
        /\ exec' = [exec EXCEPT ![r] = Resting] /\ UNCHANGED <<target, crossed>>
    BY DEF Leaves, ghosts
  <1>2. ExecType' /\ exec'[r].stage = "idle" /\ \A q \in RunId \ {r} : exec'[q] = exec[q]
    BY <1>1 DEF IInv, ExecType, Resting, Stage
  <1>3. \A q \in RunId \ {r} : Executing(q) => exec[q].pipeline # exec[r].pipeline
    BY <1>1 DEF IInv, OneExecutor, Executing
  <1>4. Reserved'
    BY <1>1, <1>2, <1>3 DEF IInv, Reserved, Executing
  <1>5. QED
    BY <1>1, <1>2, <1>4 DEF IInv, TargetType, OneExecutor, Marked, FillsItsOwn, RowsOfOneRun, Executing

\* A restart puts every run to rest.
LEMMA RestartStep ==
    ASSUME IInv, Restart
    PROVE  IInv'
  <1>1. exec' = [r \in RunId |-> Resting] /\ UNCHANGED <<target, crossed>>
    BY DEF Restart
  <1>2. ExecType' /\ \A r \in RunId : exec'[r].stage = "idle"
    BY <1>1 DEF ExecType, Resting, Stage
  <1>3. QED
    BY <1>1, <1>2 DEF IInv, TargetType, Reserved, OneExecutor, Marked, FillsItsOwn, RowsOfOneRun, Executing

\* The steps of a run keep the invariant.
LEMMA RunStepIInv ==
    ASSUME IInv, NEW r \in RunId, RunStep(r)
    PROVE  IInv'
  <1>1. CASE Enters(r)
    BY <1>1, EnterStep
  <1>2. CASE PushesStep(r)
    <2>1. PICK stage \in {"query", "table"} :
            Goes(r, stage) /\ Executing(r) /\ UNCHANGED <<inFlight, target, crossed>>
      BY <1>2 DEF PushesStep, Executing, ghosts
    <2>2. QED
      BY <2>1, StageStep DEF Stage, Saving
  <1>3. CASE Sends(r)
    <2>1. PICK stage \in {"querying", "creating", "clearing"} :
            Goes(r, stage) /\ Executing(r) /\ UNCHANGED <<inFlight, target, crossed>>
      BY <1>3 DEF Sends, Executing, ghosts
    <2>2. QED
      BY <2>1, StageStep DEF Stage
  <1>4. CASE Breaks(r)
    <2>1. Goes(r, "broken") /\ Executing(r) /\ UNCHANGED <<inFlight, target, crossed>>
      BY <1>4 DEF Breaks, StepDone, Executing, ghosts
    <2>2. QED
      BY <2>1, StageStep DEF Stage, Saving
  <1>5. CASE QueryAnswers(r)
    <2>1. PICK rows \in {"empty", "some"} :
            exec' = [exec EXCEPT ![r].stage = "queried", ![r].rows = rows]
      BY <1>5 DEF QueryAnswers
    <2>2. /\ ExecType'
          /\ exec'[r].stage = "queried" /\ exec'[r].pipeline = exec[r].pipeline
          /\ \A q \in RunId \ {r} : exec'[q] = exec[q]
      BY <2>1 DEF IInv, ExecType, Stage, Saving
    <2>3. exec[r].stage = "querying" /\ UNCHANGED <<inFlight, target, crossed>>
      BY <1>5 DEF QueryAnswers, ghosts
    <2>4. QED
      BY <2>2, <2>3 DEF IInv, TargetType, Reserved, OneExecutor, Marked, FillsItsOwn, RowsOfOneRun, Executing
  <1>6. CASE TableIsThere(r)
    <2>1. Goes(r, "clearing") /\ Executing(r) /\ UNCHANGED <<inFlight, target, crossed>>
      BY <1>6 DEF TableIsThere, Executing, ghosts
    <2>2. QED
      BY <2>1, StageStep DEF Stage
  <1>7. CASE TableIsCleared(r)
    BY <1>7, ClearStep
  <1>8. CASE TableIsFilled(r)
    BY <1>8, FillStep
  <1>9. CASE Closes(r)
    <2>1. Goes(r, "ended") /\ Executing(r) /\ UNCHANGED <<inFlight, target, crossed>>
      BY <1>9 DEF Closes, Executing, ghosts
    <2>2. QED
      BY <2>1, StageStep DEF Stage, Saving
  <1>10. CASE Leaves(r)
    BY <1>10, LeaveStep
  <1>11. QED
    BY <1>1, <1>2, <1>3, <1>4, <1>5, <1>6, <1>7, <1>8, <1>9, <1>10 DEF RunStep

\* Every step keeps the invariant.
LEMMA NextIInv == IInv /\ [Next]_vars => IInv'
  <1> SUFFICES ASSUME IInv, [Next]_vars PROVE IInv'
    OBVIOUS
  <1>1. CASE Operator
    <2>1. CASE PanelOpens \/ PanelCloses
      BY <2>1, QuietStep DEF PanelOpens, PanelCloses, ghosts
    <2>2. ASSUME NEW p \in Pipeline, Deletes(p) PROVE IInv'
      BY <2>2, QuietStep DEF Deletes, ghosts
    <2>3. ASSUME NEW p \in Pipeline, PanelRuns(p) PROVE IInv'
      BY <2>3, StartStep DEF PanelRuns
    <2>4. QED
      BY <1>1, <2>1, <2>2, <2>3 DEF Operator
  <1>2. CASE Loads \/ Stores
    BY <1>2, QuietStep DEF Loads, Stores, ghosts
  <1>3. CASE Restart
    BY <1>3, RestartStep
  <1>4. ASSUME NEW l \in Load, Asks(l) PROVE IInv'
    BY <1>4, QuietStep DEF Asks, ghosts
  <1>5. ASSUME NEW p \in Pipeline, Creates(p) PROVE IInv'
    BY <1>5, QuietStep DEF Creates
  <1>6. ASSUME NEW p \in Pipeline, AgentRuns(p) PROVE IInv'
    <2>1. CASE Starts(p, file, Tail(queue))
      BY <1>6, <2>1, StartStep DEF AgentRuns
    <2>2. CASE UNCHANGED runner
      BY <1>6, <2>2, QuietStep DEF AgentRuns
    <2>3. QED
      BY <1>6, <2>1, <2>2 DEF AgentRuns
  <1>7. ASSUME NEW r \in RunId, RunStep(r) PROVE IInv'
    BY <1>7, RunStepIInv
  <1>8. CASE UNCHANGED vars
    BY <1>8, QuietStep DEF vars, ghosts
  <1>9. QED
    BY <1>1, <1>2, <1>3, <1>4, <1>5, <1>6, <1>7, <1>8 DEF Next

\* At most one executor works on a pipeline, so at the end of its last step a run finds its
\* own rows in the target table, all of them and no others, unless another pipeline with
\* the same table was executed at the same time (PipelineStore.ts 482-521, 636-644).
THEOREM RowsAreOwn == Spec => []RowsOfOneRun
  <1>1. IInv => RowsOfOneRun
    BY DEF IInv
  <1>2. QED
    BY InitIInv, NextIInv, <1>1, PTL DEF Spec
-----------------------------------------------------------------------------
\* The records of the runs.

Record == [id : RunId, status : {"queued", "running", "success", "failed"}]
Mark == {None, "queued", "running", "success", "failed"}
Doc == [defs : SUBSET Pipeline, last : [Pipeline -> Mark], runs : [Pipeline -> Seq(Record)]]
Request == [load : Load \cup {None}, run : 0 .. MaxRuns, doc : Doc \cup {None}]

\* The pipelines of a document were created.
Born(doc) == doc \in Doc /\ doc.defs \subseteq born

\* The requests that are not answered.
Line ==
    /\ queue \in Seq(Request)
    /\ \A k \in 1 .. Len(queue) : IF queue[k].load = None THEN Born(queue[k].doc)
                                                          ELSE queue[k].run = 0

Docs == Born(cache) /\ Born(file) /\ Line

\* A run that has not started is at rest, and nothing waits for it.
Fresh ==
    /\ started \in 0 .. MaxRuns
    /\ \A r \in RunId : r > started => exec[r].stage = "idle"
    /\ \A k \in 1 .. Len(queue) : queue[k].run <= started

\* A run waits for one of the saves that are not written.
Waits(r) == \E k \in 1 .. Len(queue) : queue[k].run = r

\* A save of q is written before those of r.
Before(q, r) ==
    \E k \in 1 .. Len(queue) : /\ queue[k].run = q
                               /\ \A m \in 1 .. Len(queue) : queue[m].run = r => k < m

\* The record of the run is to be open.
Live(r) == exec[r].stage \notin {"idle", "ended"}

Idles == \A r \in RunId : exec[r].stage = "idle" <=> exec[r].pipeline = None

\* Who keeps a pipeline in flight executes it, and who is about to leave it waits.
Reserves == \A p \in inFlight : \E r \in RunId : Executing(r) /\ exec[r].pipeline = p
Leaving == \A r \in RunId : exec[r].stage = "ended" => Waits(r)

Open(doc, p, k) == doc.runs[p][k].status \in OpenStatus

\* The open records of p are those of its live run, of which there is one at most, and a
\* run that is to enter p comes after the one that leaves it.
Tells(doc, p) ==
    /\ \A k \in 1 .. Len(doc.runs[p]) : Open(doc, p, k) =>
          Live(doc.runs[p][k].id) /\ exec[doc.runs[p][k].id].pipeline = p
    /\ \A r \in RunId : exec[r].pipeline = p =>
          /\ p \in born
          /\ p \in doc.defs /\ Live(r) =>
               \E k \in 1 .. Len(doc.runs[p]) : doc.runs[p][k].id = r /\ Open(doc, p, k)
          /\ \A q \in RunId : exec[q].pipeline = p =>
                /\ Live(r) /\ Live(q) => r = q
                /\ exec[q].stage = "ended" /\ exec[r].stage = "queued" => Before(q, r)

PInv == Docs /\ Fresh /\ Idles /\ Reserves /\ Leaving /\ \A p \in Pipeline \ lost : Tells(cache, p)

-----------------------------------------------------------------------------
\* Documents.

\* A document that differs from doc at p at most.
ButAt(doc, new, p) ==
    /\ new \in Doc
    /\ \A q \in Pipeline \ {p} : new.runs[q] = doc.runs[q] /\ (q \in new.defs <=> q \in doc.defs)

LEMMA WithLastDoc ==
  ASSUME NEW doc \in Doc, NEW p \in Pipeline, NEW status \in Mark
  PROVE  WithLast(doc, p, status) \in Doc /\ WithLast(doc, p, status).runs = doc.runs
         /\ WithLast(doc, p, status).defs = doc.defs
  BY DEF Doc, WithLast

PutRuns(doc, p, runs) == [doc EXCEPT !.runs[p] = runs]

\* The runs of p are these.
LEMMA RunsDoc ==
  ASSUME NEW doc \in Doc, NEW p \in Pipeline, NEW runs \in Seq(Record), NEW new,
         new = PutRuns(doc, p, runs)
  PROVE  ButAt(doc, new, p) /\ new.runs[p] = runs /\ new.defs = doc.defs
  BY DEF Doc, ButAt, PutRuns

\* A queued run is the newest record, the others follow, and the oldest may go.
LEMMA QueuedDoc ==
  ASSUME NEW doc \in Doc, NEW p \in Pipeline, NEW r \in RunId
  PROVE  LET new == Queued(doc, p, r)
         IN  /\ ButAt(doc, new, p) /\ new.defs = doc.defs
             /\ Len(new.runs[p]) >= 1 /\ new.runs[p][1] = [id |-> r, status |-> "queued"]
             /\ \A k \in 1 .. Len(new.runs[p]) : k # 1 =>
                   k - 1 \in 1 .. Len(doc.runs[p]) /\ new.runs[p][k] = doc.runs[p][k - 1]
  <1> DEFINE first == [id |-> r, status |-> "queued"]
             longer == <<first>> \o doc.runs[p]
             kept == IF Len(longer) > HistoryLimit THEN SubSeq(longer, 1, HistoryLimit) ELSE longer
             last == WithLast(doc, p, "queued")
  <1>1. first \in Record /\ <<first>> \in Seq(Record) /\ Len(<<first>>) = 1 /\ <<first>>[1] = first
    BY DEF Record
  <1>2. doc.runs[p] \in Seq(Record) /\ Len(doc.runs[p]) \in Nat
    BY DEF Doc
  <1> HIDE DEF first
  <1>3. /\ longer \in Seq(Record) /\ Len(longer) = Len(doc.runs[p]) + 1 /\ longer[1] = first
        /\ \A k \in 1 .. Len(longer) : k # 1 => longer[k] = doc.runs[p][k - 1]
    BY <1>1, <1>2
  <1> HIDE DEF longer
  <1>4. HistoryLimit \in Nat /\ HistoryLimit >= 1
    BY PipelinesAssumption
  <1>5. /\ kept \in Seq(Record) /\ Len(kept) >= 1 /\ Len(kept) <= Len(longer)
        /\ \A k \in 1 .. Len(kept) : kept[k] = longer[k]
    <2>1. CASE Len(longer) > HistoryLimit
      BY <1>3, <1>4, <2>1
    <2>2. CASE ~ Len(longer) > HistoryLimit
      BY <1>2, <1>3, <2>2
    <2> QED BY <2>1, <2>2
  <1> HIDE DEF kept
  <1>6. last \in Doc /\ last.runs = doc.runs /\ last.defs = doc.defs
    BY WithLastDoc DEF Mark
  <1>7. Queued(doc, p, r) = [last EXCEPT !.runs[p] = kept]
    BY DEF Queued, kept, longer, first
  <1> HIDE DEF last
  <1>8. ASSUME NEW new, new = Queued(doc, p, r)
        PROVE  ButAt(last, new, p) /\ new.runs[p] = kept /\ new.defs = last.defs
    <2>1. new = PutRuns(last, p, kept)
      BY <1>7, <1>8 DEF PutRuns
    <2> QED BY <1>5, <1>6, <2>1, RunsDoc
  <1>9. \A k \in 1 .. Len(kept) : k # 1 => k - 1 \in 1 .. Len(doc.runs[p]) /\ kept[k] = doc.runs[p][k - 1]
    BY <1>2, <1>3, <1>5
  <1>10. kept[1] = first
    BY <1>3, <1>5
  <1> QED BY <1>5, <1>6, <1>8, <1>9, <1>10 DEF ButAt, first

\* setPipelineRunState changes the records of the run.
LEMMA StatusDoc ==
  ASSUME NEW doc \in Doc, NEW p \in Pipeline, NEW r \in RunId,
         NEW status \in {"queued", "running", "success", "failed"}
  PROVE  LET new == WithStatus(doc, p, r, status)
         IN  /\ ButAt(doc, new, p) /\ new.defs = doc.defs
             /\ Len(new.runs[p]) = Len(doc.runs[p])
             /\ \A k \in 1 .. Len(new.runs[p]) :
                   /\ new.runs[p][k].id = doc.runs[p][k].id
                   /\ new.runs[p][k].status = IF doc.runs[p][k].id = r THEN status
                                                                     ELSE doc.runs[p][k].status
  <1> DEFINE old == doc.runs[p]
             runs == [k \in DOMAIN old |-> IF old[k].id = r THEN [old[k] EXCEPT !.status = status]
                                                            ELSE old[k]]
  <1>1. old \in Seq(Record) /\ Len(old) \in Nat /\ DOMAIN old = 1 .. Len(old)
    BY DEF Doc
  <1> HIDE DEF old
  <1>2. ASSUME NEW k \in 1 .. Len(old)
        PROVE  /\ runs[k] \in Record /\ runs[k].id = old[k].id
               /\ runs[k].status = IF old[k].id = r THEN status ELSE old[k].status
    <2>1. old[k] \in Record
      BY <1>1
    <2> QED BY <1>1, <2>1 DEF Record
  <1>3. runs \in [1 .. Len(old) -> Record]
    BY <1>1, <1>2
  <1>4. runs \in Seq(Record) /\ Len(runs) = Len(old)
    BY <1>1, <1>3
  <1>5. WithStatus(doc, p, r, status) = [doc EXCEPT !.runs[p] = runs]
    BY DEF WithStatus, old
  <1> HIDE DEF runs
  <1>6. ASSUME NEW new, new = WithStatus(doc, p, r, status)
        PROVE  ButAt(doc, new, p) /\ new.runs[p] = runs /\ new.defs = doc.defs
    <2>1. new = PutRuns(doc, p, runs)
      BY <1>5, <1>6 DEF PutRuns
    <2> QED BY <1>4, <2>1, RunsDoc
  <1> QED BY <1>2, <1>4, <1>6 DEF old

\* The end of a run is a new status of its record.
LEMMA EndedDoc ==
  ASSUME NEW doc \in Doc, NEW p \in Pipeline, NEW r \in RunId, NEW status \in {"success", "failed"}
  PROVE  LET new == Ended(doc, p, r, status)
         IN  /\ ButAt(doc, new, p) /\ new.defs = doc.defs
             /\ Len(new.runs[p]) = Len(doc.runs[p])
             /\ \A k \in 1 .. Len(new.runs[p]) :
                   /\ new.runs[p][k].id = doc.runs[p][k].id
                   /\ new.runs[p][k].status = IF doc.runs[p][k].id = r THEN status
                                                                     ELSE doc.runs[p][k].status
  <1> SUFFICES ASSUME NEW mid, mid = WithStatus(doc, p, r, status),
                      NEW new, new = WithLast(mid, p, status)
               PROVE  /\ ButAt(doc, new, p) /\ new.defs = doc.defs
                      /\ Len(new.runs[p]) = Len(doc.runs[p])
                      /\ \A k \in 1 .. Len(new.runs[p]) :
                            /\ new.runs[p][k].id = doc.runs[p][k].id
                            /\ new.runs[p][k].status = IF doc.runs[p][k].id = r THEN status
                                                       ELSE doc.runs[p][k].status
    BY DEF Ended
  <1>1. /\ ButAt(doc, mid, p) /\ mid.defs = doc.defs
        /\ Len(mid.runs[p]) = Len(doc.runs[p])
        /\ \A k \in 1 .. Len(mid.runs[p]) :
              /\ mid.runs[p][k].id = doc.runs[p][k].id
              /\ mid.runs[p][k].status = IF doc.runs[p][k].id = r THEN status
                                         ELSE doc.runs[p][k].status
    BY StatusDoc
  <1>2. mid \in Doc /\ status \in Mark
    BY <1>1 DEF ButAt, Mark
  <1>3. new \in Doc /\ new.runs = mid.runs /\ new.defs = mid.defs
    BY <1>2, WithLastDoc
  <1> QED BY <1>1, <1>3 DEF ButAt

\* A pipeline that is created keeps the records it has.
LEMMA CreatedDoc ==
  ASSUME NEW doc \in Doc, NEW p \in Pipeline
  PROVE  LET new == Created(doc, p)
         IN  ButAt(doc, new, p) /\ new.runs[p] = doc.runs[p] /\ new.defs = doc.defs \cup {p}
  BY DEF Created, Doc, ButAt, Mark

\* One that is deleted has none.
LEMMA DeletedDoc ==
  ASSUME NEW doc \in Doc, NEW p \in Pipeline
  PROVE  LET new == Deleted(doc, p)
         IN  ButAt(doc, new, p) /\ Len(new.runs[p]) = 0 /\ new.defs = doc.defs \ {p}
  <1>1. << >> \in Seq(Record) /\ Len(<< >>) = 0
    OBVIOUS
  <1>2. Deleted(doc, p) \in Doc /\ Deleted(doc, p).runs = [doc.runs EXCEPT ![p] = << >>]
        /\ Deleted(doc, p).defs = doc.defs \ {p}
    BY <1>1 DEF Deleted, Doc, Mark
  <1> QED BY <1>1, <1>2 DEF ButAt, Doc

-----------------------------------------------------------------------------
\* The queue of requests.

\* n requests, the first or none, are answered, and others follow, which are loads or
\* saves of x.
Shift(n, x) ==
    /\ n \in {0, 1} /\ n <= Len(queue) /\ Len(queue') \in Nat /\ Len(queue') + n >= Len(queue)
    /\ \A k \in 1 .. Len(queue') : k + n <= Len(queue) => queue'[k] = queue[k + n]
    /\ \A k \in 1 .. Len(queue') : k + n > Len(queue) => queue'[k].run \in {0, x}

\* The pipelines of a document are created after the step.
BornThen(doc) == doc \in Doc /\ doc.defs \subseteq born'

\* The requests that are left.
Pending(n) == IF n = 0 THEN queue ELSE Tail(queue)

LEMMA PendingShift ==
  ASSUME Line, NEW n \in {0, 1}, n <= Len(queue)
  PROVE  /\ Pending(n) \in Seq(Request) /\ Len(Pending(n)) = Len(queue) - n /\ Len(queue) \in Nat
         /\ \A k \in 1 .. Len(Pending(n)) : Pending(n)[k] = queue[k + n]
  <1>1. queue \in Seq(Request) /\ Len(queue) \in Nat
    BY DEF Line
  <1>2. CASE n = 0
    BY <1>1, <1>2 DEF Pending
  <1>3. CASE n = 1
    <2>1. queue # << >>
      BY <1>1, <1>3
    <2>2. Tail(queue) \in Seq(Request) /\ Len(Tail(queue)) = Len(queue) - 1
      BY <1>1, <2>1
    <2>3. \A k \in 1 .. Len(Tail(queue)) : Tail(queue)[k] = queue[k + 1]
      BY <1>1, <2>1
    <2> QED BY <1>1, <1>3, <2>2, <2>3 DEF Pending
  <1> QED BY <1>2, <1>3

\* The requests that follow those that are left.
LEMMA Joined ==
  ASSUME Line, NEW n \in {0, 1}, n <= Len(queue), NEW x \in 0 .. MaxRuns, NEW more \in Seq(Request),
         queue' = Pending(n) \o more, born \subseteq born',
         \A k \in 1 .. Len(more) : /\ more[k].run \in {0, x}
                                   /\ IF more[k].load = None THEN BornThen(more[k].doc) ELSE more[k].run = 0
  PROVE  Line' /\ Shift(n, x) /\ Len(queue') = Len(queue) - n + Len(more)
         /\ \A k \in 1 .. Len(more) : queue'[Len(queue) - n + k] = more[k]
  <1>1. /\ Pending(n) \in Seq(Request) /\ Len(Pending(n)) = Len(queue) - n /\ Len(queue) \in Nat
        /\ \A k \in 1 .. Len(Pending(n)) : Pending(n)[k] = queue[k + n]
    BY PendingShift
  <1> DEFINE old == Pending(n)
  <1> HIDE DEF old
  <1>2. /\ old \in Seq(Request) /\ Len(old) = Len(queue) - n /\ queue' = old \o more /\ Len(old) \in Nat
        /\ \A k \in 1 .. Len(old) : old[k] = queue[k + n]
    BY <1>1 DEF old
  <1>3. Len(more) \in Nat /\ queue' \in Seq(Request) /\ Len(queue') = Len(old) + Len(more)
    BY <1>2
  <1>4. \A k \in 1 .. Len(queue') : queue'[k] = IF k <= Len(old) THEN old[k] ELSE more[k - Len(old)]
    BY <1>2, <1>3
  <1>5. \A k \in 1 .. Len(more) : queue'[Len(old) + k] = more[k]
    BY <1>2, <1>3, <1>4
  <1>6. \A k \in 1 .. Len(queue') : k > Len(old) => k - Len(old) \in 1 .. Len(more)
    BY <1>2, <1>3
  <1>7. \A k \in 1 .. Len(queue') : k <= Len(old) => k \in 1 .. Len(old) /\ k + n \in 1 .. Len(queue)
    BY <1>1, <1>2, <1>3
  <1>8. Shift(n, x)
    <2>1. ASSUME NEW k \in 1 .. Len(queue'), k + n <= Len(queue) PROVE queue'[k] = queue[k + n]
      BY <1>1, <1>2, <1>4, <1>7, <2>1
    <2>2. ASSUME NEW k \in 1 .. Len(queue'), k + n > Len(queue) PROVE queue'[k].run \in {0, x}
      BY <1>1, <1>2, <1>4, <1>6, <2>2
    <2> QED BY <1>1, <1>2, <1>3, <2>1, <2>2 DEF Shift
  <1>9. ASSUME NEW k \in 1 .. Len(queue')
        PROVE  IF queue'[k].load = None THEN BornThen(queue'[k].doc) ELSE queue'[k].run = 0
    <2>1. CASE k <= Len(old)
      <3>1. queue'[k] = queue[k + n] /\ k + n \in 1 .. Len(queue)
        BY <1>2, <1>4, <1>7, <2>1
      <3>2. IF queue[k + n].load = None THEN Born(queue[k + n].doc) ELSE queue[k + n].run = 0
        BY <3>1 DEF Line
      <3> QED BY <3>1, <3>2 DEF Born, BornThen
    <2>2. CASE ~ k <= Len(old)
      BY <1>2, <1>4, <1>6, <2>2
    <2> QED BY <2>1, <2>2
  <1>10. Line'
    BY <1>3, <1>9 DEF Line, Born, BornThen
  <1> QED BY <1>2, <1>3, <1>5, <1>8, <1>10

\* A change of the cache asks for a save of x, or for none, and the panel loads first.
LEMMA SetShift ==
  ASSUME Line, NEW n \in {0, 1}, n <= Len(queue), NEW x \in 0 .. MaxRuns, NEW doc, BornThen(doc),
         born \subseteq born', NEW requests, requests = << >> \/ requests = <<SaveOf(x, doc)>>,
         SetCache(doc, Pending(n), requests)
  PROVE  /\ cache' = doc /\ Line' /\ Shift(n, x)
         /\ requests # << >> => Len(queue') >= 1 /\ queue'[Len(queue')].run = x
  <1> DEFINE load == LoadOf("refresh")
             save == SaveOf(x, doc)
             more == IF panel /\ MayLoad(Pending(n)) THEN <<load>> \o requests ELSE requests
  <1>1. load \in Request /\ load.load # None /\ load.run = 0
    BY PipelinesAssumption DEF LoadOf, Request, Load
  <1>2. save \in Request /\ save.load = None /\ save.run = x /\ save.doc = doc
    BY DEF SaveOf, Request, BornThen
  <1>3. requests = << >> \/ requests = <<save>>
    OBVIOUS
  <1>4. Pending(n) \in Seq(Request) /\ Len(queue) \in Nat
    BY PendingShift
  <1>5. cache' = doc
        /\ queue' = IF panel /\ MayLoad(Pending(n)) THEN Append(Pending(n), load) \o requests
                                                   ELSE Pending(n) \o requests
    BY DEF SetCache
  <1> DEFINE old == Pending(n)
  <1> HIDE DEF load, save, old
  <1>6. old \in Seq(Request)
    BY <1>4 DEF old
  <1>7. requests \in Seq(Request)
    <2>1. << >> \in Seq(Request) /\ <<save>> \in Seq(Request)
      BY <1>2
    <2> QED BY <1>3, <2>1
  <1>8. Append(old, load) \o requests = old \o (<<load>> \o requests)
    <2>1. Append(old, load) = old \o <<load>>
      BY <1>1, <1>6, AppendIsConcat
    <2>2. <<load>> \in Seq(Request)
      BY <1>1
    <2> QED BY <1>6, <1>7, <2>1, <2>2, ConcatAssociative
  <1>9. queue' = old \o more
    BY <1>5, <1>8 DEF old
  <1>10. more \in Seq(Request) /\ Len(more) \in Nat
    BY <1>1, <1>7
  <1>11. ASSUME NEW k \in 1 .. Len(more) PROVE more[k] \in {load, save}
    <2>1. CASE requests = << >>
      BY <1>1, <1>11, <2>1
    <2>2. CASE requests = <<save>>
      BY <1>1, <1>2, <1>11, <2>2
    <2> QED BY <1>3, <2>1, <2>2
  <1>12. requests # << >> => Len(more) >= 1 /\ more[Len(more)] = save
    <2>1. CASE requests = <<save>>
      BY <1>1, <1>2, <2>1
    <2> QED BY <1>3, <2>1
  <1> HIDE DEF more
  <1>13. \A k \in 1 .. Len(more) :
            /\ more[k].run \in {0, x}
            /\ IF more[k].load = None THEN BornThen(more[k].doc) ELSE more[k].run = 0
    BY <1>1, <1>2, <1>11
  <1>14. queue' = Pending(n) \o more
    BY <1>9 DEF old
  <1>15. /\ Line' /\ Shift(n, x) /\ Len(queue') = Len(queue) - n + Len(more)
         /\ \A k \in 1 .. Len(more) : queue'[Len(queue) - n + k] = more[k]
    BY <1>10, <1>13, <1>14, Joined
  <1>16. requests # << >> => Len(queue') >= 1 /\ queue'[Len(queue')].run = x
    BY <1>2, <1>4, <1>10, <1>12, <1>15
  <1> QED BY <1>5, <1>15, <1>16

\* Who waits still does, unless the first request was its own.
LEMMA WaitsOn ==
  ASSUME Line, NEW n, NEW x, Shift(n, x), NEW r, Waits(r), n = 1 => queue[1].run # r
  PROVE  Waits(r)'
  <1>1. Len(queue) \in Nat
    BY DEF Line
  <1>2. PICK k \in 1 .. Len(queue) : queue[k].run = r
    BY DEF Waits
  <1>3. k - n \in 1 .. Len(queue') /\ queue'[k - n] = queue[k]
    <2>1. k - n >= 1
      BY <1>1, <1>2 DEF Shift
    <2>2. k - n \in 1 .. Len(queue')
      BY <1>1, <2>1 DEF Shift
    <2>3. (k - n) + n = k /\ k <= Len(queue)
      BY <1>1 DEF Shift
    <2>4. (k - n) + n <= Len(queue) => queue'[k - n] = queue[(k - n) + n]
      BY <2>2 DEF Shift
    <2> QED BY <2>2, <2>3, <2>4
  <1> QED BY <1>2, <1>3 DEF Waits

\* The order of two runs stays, unless the first request was that of the former.
LEMMA BeforeOn ==
  ASSUME Line, NEW n, NEW x, Shift(n, x), NEW q, NEW r, Before(q, r), n = 1 => queue[1].run # q
  PROVE  Before(q, r)'
  <1>1. Len(queue) \in Nat
    BY DEF Line
  <1>2. PICK k \in 1 .. Len(queue) : /\ queue[k].run = q
                                     /\ \A m \in 1 .. Len(queue) : queue[m].run = r => k < m
    BY DEF Before
  <1>3. k - n \in 1 .. Len(queue') /\ queue'[k - n] = queue[k]
    <2>1. k - n >= 1
      BY <1>1, <1>2 DEF Shift
    <2>2. k - n \in 1 .. Len(queue')
      BY <1>1, <2>1 DEF Shift
    <2>3. (k - n) + n = k /\ k <= Len(queue)
      BY <1>1 DEF Shift
    <2>4. (k - n) + n <= Len(queue) => queue'[k - n] = queue[(k - n) + n]
      BY <2>2 DEF Shift
    <2> QED BY <2>2, <2>3, <2>4
  <1>4. ASSUME NEW m \in 1 .. Len(queue'), queue'[m].run = r PROVE k - n < m
    <2>1. CASE m + n <= Len(queue)
      <3>1. m + n \in 1 .. Len(queue) /\ queue'[m] = queue[m + n]
        BY <1>1, <2>1 DEF Shift
      <3>2. k < m + n
        BY <1>2, <1>4, <3>1
      <3> QED BY <1>1, <3>2 DEF Shift
    <2>2. CASE ~ m + n <= Len(queue)
      BY <1>1, <2>2 DEF Shift
    <2> QED BY <2>1, <2>2
  <1> QED BY <1>2, <1>3, <1>4 DEF Before

\* A run that nothing waited for comes after every run that waits.
LEMMA BeforeNew ==
  ASSUME Line, NEW n, NEW x, Shift(n, x), NEW q, NEW r, Waits(q), n = 1 => queue[1].run # q,
         \A k \in 1 .. Len(queue) : queue[k].run # r
  PROVE  Before(q, r)'
  <1>1. Before(q, r)
    BY DEF Waits, Before
  <1> QED BY <1>1, BeforeOn

\* The first request is the one that is answered.
LEMMA HeadIs ==
  ASSUME Line, queue # << >>
  PROVE  Head(queue) = queue[1] /\ 1 \in 1 .. Len(queue) /\ 1 <= Len(queue) /\ queue[1] \in Request
  BY DEF Line

-----------------------------------------------------------------------------
\* What a step leaves of the records.

\* The record of the run is to be open after the step.
LiveThen(r) == exec'[r].stage \notin {"idle", "ended"}

\* The run is where it was, as far as its record tells.
SameRun(r) ==
    /\ exec'[r].pipeline = exec[r].pipeline
    /\ LiveThen(r) <=> Live(r)
    /\ exec'[r].stage = "ended" <=> exec[r].stage = "ended"
    /\ exec'[r].stage = "queued" => exec[r].stage = "queued"

\* The cache has the records that doc has of p, and those that are open are still to be.
SameRecords(doc, p) ==
    /\ Len(cache'.runs[p]) = Len(doc.runs[p])
    /\ \A k \in 1 .. Len(doc.runs[p]) :
          /\ cache'.runs[p][k].id = doc.runs[p][k].id
          /\ Open(doc, p, k) => Open(cache', p, k)
          /\ Open(cache', p, k) => \/ Open(doc, p, k)
                                   \/ /\ LiveThen(doc.runs[p][k].id)
                                      /\ exec'[doc.runs[p][k].id].pipeline = p
    /\ p \in cache'.defs => p \in doc.defs

\* The order of the runs of p is what it was.
SameOrder(p) ==
    \A q, r \in RunId : exec[q].pipeline = p /\ exec[q].stage = "ended" /\ Before(q, r) => Before(q, r)'

\* Then the records tell what they told.
LEMMA TellsOn ==
  ASSUME NEW doc \in Doc, NEW p \in Pipeline, Tells(doc, p), SameRecords(doc, p), SameOrder(p),
         born \subseteq born',
         \A r \in RunId : exec[r].pipeline = p \/ exec'[r].pipeline = p => SameRun(r)
  PROVE  Tells(cache, p)'
  <1>1. ASSUME NEW k \in 1 .. Len(cache'.runs[p]), Open(cache', p, k)
        PROVE  LiveThen(cache'.runs[p][k].id) /\ exec'[cache'.runs[p][k].id].pipeline = p
    <2> DEFINE r == doc.runs[p][k].id
    <2>1. k \in 1 .. Len(doc.runs[p]) /\ cache'.runs[p][k].id = r
      BY <1>1 DEF SameRecords
    <2>2. r \in RunId
      <3>1. doc.runs[p] \in Seq(Record)
        BY DEF Doc
      <3>2. doc.runs[p][k] \in Record
        BY <2>1, <3>1
      <3> QED BY <3>2 DEF Record
    <2> HIDE DEF r
    <2>3. CASE Open(doc, p, k)
      <3>1. Live(r) /\ exec[r].pipeline = p
        BY <2>1, <2>3 DEF Tells, r
      <3> QED BY <2>1, <2>2, <3>1 DEF SameRun, Live, LiveThen
    <2>4. CASE ~Open(doc, p, k)
      BY <1>1, <2>1, <2>4 DEF SameRecords, r
    <2> QED BY <2>3, <2>4
  <1>2. ASSUME NEW r \in RunId, exec'[r].pipeline = p
        PROVE  /\ p \in born'
               /\ p \in cache'.defs /\ LiveThen(r) =>
                    \E k \in 1 .. Len(cache'.runs[p]) : cache'.runs[p][k].id = r /\ Open(cache', p, k)
               /\ \A q \in RunId : exec'[q].pipeline = p =>
                     /\ LiveThen(r) /\ LiveThen(q) => r = q
                     /\ exec'[q].stage = "ended" /\ exec'[r].stage = "queued" => Before(q, r)'
    <2>1. SameRun(r) /\ exec[r].pipeline = p
      BY <1>2 DEF SameRun
    <2>2. p \in born'
      BY <2>1 DEF Tells
    <2>3. ASSUME p \in cache'.defs, LiveThen(r)
          PROVE  \E k \in 1 .. Len(cache'.runs[p]) : cache'.runs[p][k].id = r /\ Open(cache', p, k)
      <3>1. p \in doc.defs /\ Live(r)
        BY <2>1, <2>3 DEF SameRun, SameRecords
      <3>2. PICK k \in 1 .. Len(doc.runs[p]) : doc.runs[p][k].id = r /\ Open(doc, p, k)
        BY <2>1, <3>1 DEF Tells
      <3> QED BY <3>2 DEF SameRecords
    <2>4. ASSUME NEW q \in RunId, exec'[q].pipeline = p
          PROVE  /\ LiveThen(r) /\ LiveThen(q) => r = q
                 /\ exec'[q].stage = "ended" /\ exec'[r].stage = "queued" => Before(q, r)'
      <3>1. SameRun(q) /\ exec[q].pipeline = p
        BY <2>4 DEF SameRun
      <3>2. LiveThen(r) /\ LiveThen(q) => r = q
        BY <2>1, <3>1 DEF SameRun, Tells
      <3>3. ASSUME exec'[q].stage = "ended", exec'[r].stage = "queued" PROVE Before(q, r)'
        <4>1. exec[q].stage = "ended" /\ exec[r].stage = "queued"
          BY <2>1, <3>1, <3>3 DEF SameRun
        <4>2. Before(q, r)
          BY <2>1, <3>1, <4>1 DEF Tells
        <4> QED BY <3>1, <4>1, <4>2 DEF SameOrder
      <3> QED BY <3>2, <3>3
    <2> QED BY <2>2, <2>3, <2>4
  <1> QED BY <1>1, <1>2 DEF Tells, Open, Live, LiveThen

\* A pipeline that a load does not lose has in the file the records it has in the cache,

\* or no open ones and no run.
LEMMA LoadTells ==
  ASSUME NEW p \in Pipeline, p \notin lost', Loses, file \in Doc, cache \in Doc, Tells(cache, p)
  PROVE  Tells(file, p)
  <1>1. CASE (p \in file.defs <=> p \in cache.defs) /\ file.runs[p] = cache.runs[p]
    BY <1>1 DEF Tells, Open
  <1>2. CASE ~HasOpenRun(file, p) /\ \A r \in RunId : exec[r].pipeline # p
    <2>1. DOMAIN file.runs[p] = 1 .. Len(file.runs[p])
      BY DEF Doc
    <2> QED BY <1>2, <2>1 DEF Tells, Open, HasOpenRun
  <1> QED BY <1>1, <1>2 DEF Loses

\* Nothing waits for a run that has not started.
LEMMA QueueFresh ==
  ASSUME Line, Fresh, NEW n, NEW x, Shift(n, x), x \in 0 .. started', started <= started',
         started' \in Nat
  PROVE  \A k \in 1 .. Len(queue') : queue'[k].run <= started'
  <1> SUFFICES ASSUME NEW k \in 1 .. Len(queue') PROVE queue'[k].run <= started'
    OBVIOUS
  <1>1. started \in 0 .. MaxRuns /\ Len(queue) \in Nat
    BY DEF Fresh, Line
  <1>2. CASE k + n <= Len(queue)
    <2>1. k + n \in 1 .. Len(queue) /\ queue'[k] = queue[k + n]
      BY <1>1, <1>2 DEF Shift
    <2>2. queue[k + n] \in Request
      BY <2>1 DEF Line
    <2>3. queue[k + n].run <= started /\ queue[k + n].run \in Nat
      BY <2>1, <2>2, PipelinesAssumption DEF Fresh, Request
    <2> QED BY <1>1, <2>1, <2>3
  <1>3. CASE ~ k + n <= Len(queue)
    BY <1>1, <1>3 DEF Shift
  <1> QED BY <1>2, <1>3

\* A run that leaves still waits when its save was not the first.
LEMMA LeavingOn ==
  ASSUME Line, Leaving, NEW n, NEW x, Shift(n, x),
         \A q \in RunId : exec'[q].stage = "ended" =>
            \/ exec[q].stage = "ended" /\ (n = 1 => queue[1].run # q)
            \/ Waits(q)'
  PROVE  Leaving'
  <1> SUFFICES ASSUME NEW q \in RunId, exec'[q].stage = "ended", exec[q].stage = "ended",
                      n = 1 => queue[1].run # q
               PROVE  Waits(q)'
    BY DEF Leaving
  <1>1. Waits(q)
    BY DEF Leaving
  <1> QED BY <1>1, WaitsOn

\* A step that starts no run and ends none.
LEMMA Quietly ==
  ASSUME PInv, Line', Born(cache)', Born(file)', born \subseteq born',
         NEW n, NEW x \in 0 .. MaxRuns, Shift(n, x), x <= started, started' = started,
         \A r \in RunId : SameRun(r),
         \A p \in inFlight' : \/ p \in inFlight
                              \/ \E r \in RunId : Executing(r)' /\ exec'[r].pipeline = p,
         n = 1 => \A q \in RunId : exec[q].stage = "ended" => queue[1].run # q,
         \A p \in Pipeline \ lost' : Tells(cache, p)'
  PROVE  PInv'
  <1>1. Docs /\ Fresh /\ Idles /\ Reserves /\ Leaving /\ Line
    BY DEF PInv, Docs
  <1>2. Docs'
    BY DEF Docs
  <1>3. Fresh'
    <2>1. \A k \in 1 .. Len(queue') : queue'[k].run <= started'
      <3>1. x \in 0 .. started' /\ started <= started' /\ started' \in Nat
        BY <1>1, PipelinesAssumption DEF Fresh
      <3> QED BY <1>1, <3>1, QueueFresh
    <2>2. \A r \in RunId : r > started' => exec'[r].stage = "idle"
      BY <1>1 DEF Fresh, SameRun, Live, LiveThen
    <2> QED BY <1>1, <2>1, <2>2 DEF Fresh
  <1>4. Idles'
    BY <1>1 DEF Idles, SameRun, Live, LiveThen
  <1>5. Reserves'
    <2>1. ASSUME NEW p \in inFlight PROVE \E r \in RunId : Executing(r)' /\ exec'[r].pipeline = p
      BY <1>1 DEF Reserves, SameRun, Executing, Live, LiveThen
    <2> QED BY <2>1 DEF Reserves
  <1>6. Leaving'
    <2>1. \A q \in RunId : exec'[q].stage = "ended" =>
             exec[q].stage = "ended" /\ (n = 1 => queue[1].run # q)
      BY DEF SameRun
    <2> QED BY <1>1, <2>1, LeavingOn
  <1> QED BY <1>2, <1>3, <1>4, <1>5, <1>6 DEF PInv

\* The order of the runs stays when the first request was not of a run that ends.
LEMMA OrderOn ==
  ASSUME Line, NEW n, NEW x, Shift(n, x), NEW p,
         n = 1 => \A q \in RunId : exec[q].stage = "ended" /\ exec[q].pipeline = p => queue[1].run # q
  PROVE  SameOrder(p)
  BY BeforeOn DEF SameOrder

\* Requests that are only answered, or only asked.
LEMMA Answered ==
  ASSUME Line, queue # << >>, queue' = Tail(queue), born \subseteq born'
  PROVE  Line' /\ Shift(1, 0)
  <1>1. 1 \in {0, 1} /\ 1 <= Len(queue) /\ 0 \in 0 .. MaxRuns /\ << >> \in Seq(Request)
    BY HeadIs, PipelinesAssumption
  <1>2. Pending(1) \in Seq(Request)
    BY <1>1, PendingShift
  <1>3. queue' = Pending(1) \o << >>
    BY <1>2, ConcatEmptySeq DEF Pending
  <1>4. ASSUME NEW more, more = << >> PROVE Line' /\ Shift(1, 0)
    <2>1. more \in Seq(Request) /\ Len(more) = 0 /\ queue' = Pending(1) \o more
      BY <1>1, <1>3, <1>4
    <2>2. \A k \in 1 .. Len(more) :
             /\ more[k].run \in {0, 0}
             /\ IF more[k].load = None THEN BornThen(more[k].doc) ELSE more[k].run = 0
      BY <2>1
    <2> QED BY <1>1, <2>1, <2>2, Joined
  <1> QED BY <1>4

LEMMA Asked ==
  ASSUME Line, NEW l \in Load, queue' = Append(queue, LoadOf(l)), born \subseteq born'
  PROVE  Line' /\ Shift(0, 0)
  <1>1. LoadOf(l) \in Request /\ LoadOf(l).load # None /\ LoadOf(l).run = 0
    BY PipelinesAssumption DEF LoadOf, Request, Load
  <1>2. PICK load : load = LoadOf(l)
    OBVIOUS
  <1>3. queue \in Seq(Request) /\ Len(queue) \in Nat
    BY DEF Line
  <1>4. ASSUME NEW more, more = <<load>> PROVE Line' /\ Shift(0, 0)
    <2>1. more \in Seq(Request) /\ Len(more) = 1 /\ more[1] = load
      BY <1>1, <1>2, <1>4
    <2>2. queue' = Pending(0) \o more
      BY <1>1, <1>2, <1>3, <1>4, AppendIsConcat DEF Pending
    <2>3. \A k \in 1 .. Len(more) :
             /\ more[k].run \in {0, 0}
             /\ IF more[k].load = None THEN BornThen(more[k].doc) ELSE more[k].run = 0
      BY <1>1, <1>2, <2>1
    <2>4. 0 \in {0, 1} /\ 0 <= Len(queue) /\ 0 \in 0 .. MaxRuns
      BY <1>3, PipelinesAssumption
    <2> QED BY <2>1, <2>2, <2>3, <2>4, Joined
  <1> QED BY <1>4

LEMMA Unasked ==
  ASSUME Line, queue' = queue, born \subseteq born'
  PROVE  Line' /\ Shift(0, 0)
  <1>1. Len(queue) \in Nat
    BY DEF Line
  <1> QED BY <1>1 DEF Line, Shift, Born

\* What was read and what was saved.
LEMMA Read ==
  ASSUME Docs, NEW l \in Load, HasRead(l), born \subseteq born'
  PROVE  Born(file)' /\ BornThen(file) /\ queue # << >> /\ 1 <= Len(queue) /\ queue[1].run = 0
  <1>1. queue # << >> /\ Head(queue).load = l /\ file' = file
    BY DEF HasRead
  <1>2. 1 \in 1 .. Len(queue) /\ queue[1].load = l /\ 1 <= Len(queue)
    BY <1>1, HeadIs DEF Docs
  <1>3. queue[1].run = 0
    BY <1>2, PipelinesAssumption DEF Docs, Line, Load
  <1> QED BY <1>1, <1>2, <1>3 DEF Docs, Born, BornThen

LEMMA Saved ==
  ASSUME Docs, NEW r, HasSaved(r), born \subseteq born'
  PROVE  Born(file)' /\ queue # << >> /\ 1 <= Len(queue) /\ queue[1].run = r
  <1>1. queue # << >> /\ Head(queue).load = None /\ Head(queue).run = r /\ file' = Head(queue).doc
    BY DEF HasSaved
  <1>2. 1 \in 1 .. Len(queue) /\ queue[1].load = None /\ 1 <= Len(queue) /\ queue[1].run = r
        /\ file' = queue[1].doc
    BY <1>1, HeadIs DEF Docs
  <1>3. Born(queue[1].doc)
    BY <1>2 DEF Docs, Line
  <1> QED BY <1>1, <1>2, <1>3 DEF Born

\* A step that leaves the cache and every record what it is.
LEMMA CacheStays ==
  ASSUME PInv, Line', Born(file)', born' = born, cache' = cache, lost' = lost, started' = started,
         inFlight' = inFlight,
         NEW n, NEW x \in 0 .. MaxRuns, Shift(n, x), x <= started, \A r \in RunId : SameRun(r),
         n = 1 => \A q \in RunId : exec[q].stage = "ended" => queue[1].run # q
  PROVE  PInv'
  <1>1. Line /\ cache \in Doc /\ Born(cache)'
    BY DEF PInv, Docs, Born
  <1>2. ASSUME NEW p \in Pipeline \ lost' PROVE Tells(cache, p)'
    <2>1. Tells(cache, p) /\ SameRecords(cache, p)
      BY <1>2 DEF PInv, SameRecords, Open
    <2>2. SameOrder(p)
      BY <1>1, OrderOn
    <2> QED BY <1>1, <2>1, <2>2, TellsOn
  <1> QED BY <1>1, <1>2, Quietly

\* A run that works on is where it was.
LEMMA WorksOn ==
  ASSUME ExecType, NEW r \in RunId, Executing(r), exec[r].stage # "ended",
         NEW stage \in Stage \ {"idle", "ended", "queued"},
         exec'[r].stage = stage, exec'[r].pipeline = exec[r].pipeline,
         \A q \in RunId \ {r} : exec'[q] = exec[q]
  PROVE  \A q \in RunId : SameRun(q)
  BY DEF SameRun, Live, LiveThen, Executing

\* The steps of the operator and of the timers that only ask.
LEMMA AskSteps ==
  ASSUME PInv, UNCHANGED <<cache, file, runner, ghosts>>,
         queue' = queue \/ \E l \in Load : queue' = Append(queue, LoadOf(l))
  PROVE  PInv'
  <1>1. Docs /\ Line /\ started \in 0 .. MaxRuns
    BY DEF PInv, Docs, Fresh
  <1>2. /\ born' = born /\ cache' = cache /\ lost' = lost /\ started' = started
        /\ inFlight' = inFlight /\ file' = file /\ exec' = exec
    BY DEF runner, ghosts
  <1>3. Line' /\ Shift(0, 0)
    BY <1>1, <1>2, Asked, Unasked
  <1>4. Born(file)' /\ \A r \in RunId : SameRun(r)
    BY <1>1, <1>2 DEF Docs, Born, SameRun, Live, LiveThen
  <1>5. 0 \in 0 .. MaxRuns /\ 0 <= started
    BY <1>1, PipelinesAssumption
  <1> QED BY <1>2, <1>3, <1>4, <1>5, CacheStays

\* A save that nothing waits for.
LEMMA StoreStep ==
  ASSUME PInv, Stores
  PROVE  PInv'
  <1>1. Docs /\ Line /\ started \in 0 .. MaxRuns
    BY DEF PInv, Docs, Fresh
  <1>2. /\ born' = born /\ cache' = cache /\ lost' = lost /\ started' = started
        /\ inFlight' = inFlight /\ exec' = exec /\ HasSaved(0) /\ queue' = Tail(queue)
    BY DEF Stores, runner, ghosts
  <1>3. Born(file)' /\ queue # << >> /\ queue[1].run = 0
    BY <1>1, <1>2, Saved
  <1>4. Line' /\ Shift(1, 0)
    BY <1>1, <1>2, <1>3, Answered
  <1>5. \A r \in RunId : SameRun(r)
    BY <1>2 DEF SameRun, Live, LiveThen
  <1>6. 0 \in 0 .. MaxRuns /\ 0 <= started /\ \A q \in RunId : queue[1].run # q
    BY <1>1, <1>3, PipelinesAssumption DEF RunId
  <1> QED BY <1>2, <1>3, <1>4, <1>5, <1>6, CacheStays

-----------------------------------------------------------------------------
\* The steps of a run.

\* A run that works on after its save, or after the statement it waited for.
LEMMA WorkStep ==
  ASSUME PInv, ExecType, NEW r \in RunId, Executing(r), exec[r].stage # "ended",
         NEW stage \in Stage \ {"idle", "ended", "queued"},
         exec'[r].stage = stage, exec'[r].pipeline = exec[r].pipeline,
         \A q \in RunId \ {r} : exec'[q] = exec[q],
         UNCHANGED <<inFlight, ghosts>>,
         \/ HasSaved(r) /\ queue' = Tail(queue) /\ cache' = cache
         \/ HasSaved(r) /\ Update(r, cache, Tail(queue))
         \/ file' = file /\ Update(r, cache, queue)
         \/ UNCHANGED document
  PROVE  PInv'
  <1>1. Docs /\ Line /\ started \in 0 .. MaxRuns /\ Born(cache)
    BY DEF PInv, Docs, Fresh
  <1>2. born' = born /\ lost' = lost /\ started' = started /\ inFlight' = inFlight
        /\ BornThen(cache)
    BY <1>1 DEF ghosts, Born, BornThen
  <1>3. \A q \in RunId : SameRun(q)
    BY WorksOn
  <1>4. r <= started /\ r \in 0 .. MaxRuns /\ 0 \in 0 .. MaxRuns /\ 0 <= started
    BY <1>1, PipelinesAssumption DEF PInv, Fresh, Executing, RunId
  <1>5. CASE HasSaved(r) /\ queue' = Tail(queue) /\ cache' = cache
    <2>1. Born(file)' /\ queue # << >> /\ queue[1].run = r
      BY <1>1, <1>2, <1>5, Saved
    <2>2. Line' /\ Shift(1, 0)
      BY <1>1, <1>2, <1>5, <2>1, Answered
    <2> QED BY <1>2, <1>3, <1>4, <1>5, <2>1, <2>2, CacheStays
  <1>6. CASE HasSaved(r) /\ Update(r, cache, Tail(queue))
    <2>1. Born(file)' /\ 1 <= Len(queue) /\ queue[1].run = r
      BY <1>1, <1>2, <1>6, Saved
    <2>2. SetCache(cache, Pending(1), <<SaveOf(r, cache)>>)
      BY <1>6 DEF Update, Pending
    <2>3. cache' = cache /\ Line' /\ Shift(1, r)
      BY <1>1, <1>2, <1>4, <2>1, <2>2, SetShift
    <2> QED BY <1>2, <1>3, <1>4, <2>1, <2>3, CacheStays
  <1>7. CASE file' = file /\ Update(r, cache, queue)
    <2>1. SetCache(cache, Pending(0), <<SaveOf(r, cache)>>) /\ 0 <= Len(queue)
      BY <1>1, <1>7 DEF Update, Pending, Line
    <2>2. cache' = cache /\ Line' /\ Shift(0, r)
      BY <1>1, <1>2, <1>4, <2>1, SetShift
    <2>3. Born(file)'
      BY <1>1, <1>2, <1>7 DEF Docs, Born
    <2> QED BY <1>2, <1>3, <1>4, <2>2, <2>3, CacheStays
  <1>8. CASE UNCHANGED document
    <2>1. Line' /\ Shift(0, 0) /\ cache' = cache
      BY <1>1, <1>2, <1>8, Unasked DEF document
    <2>2. Born(file)'
      BY <1>1, <1>2, <1>8 DEF Docs, Born, document
    <2> QED BY <1>2, <1>3, <1>4, <2>1, <2>2, CacheStays
  <1> QED BY <1>5, <1>6, <1>7, <1>8

\* A run enters a pipeline that tells its records when the last one has left it.
LEMMA EnterTells ==
  ASSUME PInv, NEW r \in RunId, exec[r].stage = "queued", HasSaved(r),
         exec[r].pipeline \in inFlight, exec[r].pipeline \in Pipeline \ lost
  PROVE  FALSE
  <1> DEFINE p == exec[r].pipeline
  <1>1. PICK q \in RunId : Executing(q) /\ exec[q].pipeline = p
    BY DEF PInv, Reserves
  <1>2. Tells(cache, p)
    BY DEF PInv
  <1>3. Live(q) => q = r
    BY <1>1, <1>2 DEF Tells, Live
  <1>4. exec[q].stage = "ended"
    BY <1>1, <1>3 DEF Live, Executing
  <1>5. Before(q, r)
    BY <1>1, <1>2, <1>4 DEF Tells
  <1>6. queue[1].run = r /\ 1 <= Len(queue) /\ Len(queue) \in Nat
    BY HeadIs DEF HasSaved, PInv, Docs, Line
  <1>7. PICK k \in 1 .. Len(queue) : \A m \in 1 .. Len(queue) : queue[m].run = r => k < m
    BY <1>5 DEF Before
  <1> QED BY <1>6, <1>7

\* A run that enters gets an open record that says that it works.
LEMMA EnterRecords ==
  ASSUME PInv, ExecType, NEW r \in RunId, Enters(r)
  PROVE  PInv'
  <1> DEFINE p == exec[r].pipeline
  <1>1. Docs /\ Line /\ started \in 0 .. MaxRuns /\ Born(cache) /\ cache \in Doc /\ Idles /\ Fresh
    BY DEF PInv, Docs, Fresh, Born
  <1>2. /\ born' = born /\ lost' = lost /\ started' = started
        /\ exec[r].stage = "queued" /\ HasSaved(r)
    BY DEF Enters, ghosts
  <1>3. Born(file)' /\ 1 <= Len(queue) /\ queue # << >> /\ queue[1].run = r
    BY <1>1, <1>2, Saved
  <1>4. r <= started /\ r \in 0 .. MaxRuns /\ 0 \in 0 .. MaxRuns /\ 0 <= started /\ 0 # r
    BY <1>1, <1>2, PipelinesAssumption DEF Fresh, RunId
  <1>5. \A q \in RunId : exec[q].stage = "ended" => queue[1].run # q
    BY <1>2, <1>3
  <1>6. p # None /\ p \in Pipeline
    BY <1>1, <1>2 DEF Idles, ExecType
  <1>7. CASE p \in inFlight
    <2>1. p \in lost
      BY <1>2, <1>6, <1>7, EnterTells
    <2>2. exec' = [exec EXCEPT ![r] = Resting] /\ queue' = Tail(queue) /\ UNCHANGED <<cache, inFlight>>
      BY <1>7 DEF Enters
    <2>3. Line' /\ Shift(1, 0)
      BY <1>1, <1>2, <1>3, <2>2, Answered
    <2>4. exec'[r].stage = "idle" /\ exec'[r].pipeline = None /\ \A q \in RunId \ {r} : exec'[q] = exec[q]
      BY <2>2 DEF ExecType, Resting
    <2>5. ASSUME NEW o \in Pipeline \ lost' PROVE Tells(cache, o)'
      <3>1. Tells(cache, o) /\ SameRecords(cache, o) /\ o # p
        BY <1>2, <2>1, <2>2, <2>5 DEF PInv, SameRecords, Open
      <3>2. SameOrder(o)
        BY <1>1, <1>5, <2>3, OrderOn
      <3>3. \A q \in RunId : exec[q].pipeline = o \/ exec'[q].pipeline = o => SameRun(q)
        BY <2>4, <2>5, <3>1, PipelinesAssumption DEF SameRun, Live, LiveThen
      <3> QED BY <1>1, <1>2, <3>1, <3>2, <3>3, TellsOn
    <2>6. Fresh'
      <3>1. \A k \in 1 .. Len(queue') : queue'[k].run <= started'
        <4>1. 0 \in 0 .. started' /\ started <= started' /\ started' \in Nat
          BY <1>1, <1>2, PipelinesAssumption
        <4> QED BY <1>1, <2>3, <4>1, QueueFresh
      <3>2. \A q \in RunId : q > started' => exec'[q].stage = "idle"
        BY <1>1, <1>2, <2>4 DEF Fresh
      <3> QED BY <1>1, <1>2, <3>1, <3>2 DEF Fresh
    <2>7. Idles' /\ Reserves'
      BY <1>1, <1>2, <2>2, <2>4 DEF PInv, Idles, Reserves, Executing
    <2>8. Leaving'
      <3>1. \A q \in RunId : exec'[q].stage = "ended" =>
               exec[q].stage = "ended" /\ queue[1].run # q
        BY <1>5, <2>4
      <3>2. Leaving
        BY DEF PInv
      <3> QED BY <1>1, <2>3, <3>1, <3>2, LeavingOn
    <2>9. Docs'
      BY <1>1, <1>2, <1>3, <2>2, <2>3 DEF Docs, Born
    <2> QED BY <2>5, <2>6, <2>7, <2>8, <2>9 DEF PInv
  <1>8. CASE p \notin inFlight
    <2>0. PICK new : new = WithStatus(cache, p, r, "running")
      OBVIOUS
    <2>1. inFlight' = inFlight \cup {p} /\ Goes(r, "started") /\ Update(r, new, Tail(queue))
      BY <1>8, <2>0 DEF Enters
    <2>2. /\ exec'[r].stage = "started" /\ exec'[r].pipeline = p
          /\ \A q \in RunId \ {r} : exec'[q] = exec[q]
      <3>1. "started" \in Stage
        BY DEF Stage, Saving
      <3> QED BY <2>1, <3>1, Moved
    <2>3. /\ ButAt(cache, new, p) /\ new.defs = cache.defs /\ Len(new.runs[p]) = Len(cache.runs[p])
          /\ \A k \in 1 .. Len(new.runs[p]) :
                /\ new.runs[p][k].id = cache.runs[p][k].id
                /\ new.runs[p][k].status = IF cache.runs[p][k].id = r THEN "running"
                                                                     ELSE cache.runs[p][k].status
      <3>1. \A status \in {"running"} : status \in {"queued", "running", "success", "failed"}
        OBVIOUS
      <3> HIDE DEF p
      <3> QED BY <1>1, <1>6, <2>0, StatusDoc
    <2>4. BornThen(new)
      BY <1>1, <1>2, <2>3 DEF BornThen, Born, ButAt
    <2>5. SetCache(new, Pending(1), <<SaveOf(r, new)>>)
      BY <2>1 DEF Update, Pending
    <2>6. cache' = new /\ Line' /\ Shift(1, r)
      BY <1>1, <1>2, <1>3, <1>4, <2>4, <2>5, SetShift
    <2>7. \A q \in RunId : SameRun(q)
      BY <1>2, <2>2 DEF SameRun, Live, LiveThen
    <2>8. ASSUME NEW o \in Pipeline \ lost' PROVE Tells(cache, o)'
      <3>1. Tells(cache, o)
        BY <1>2, <2>8 DEF PInv
      <3>2. SameRecords(cache, o)
        <4>1. CASE o = p
          BY <2>2, <2>3, <2>6, <4>1 DEF SameRecords, Open, OpenStatus, LiveThen
        <4>2. CASE o # p
          BY <2>3, <2>6, <2>8, <4>2 DEF SameRecords, Open, ButAt
        <4> QED BY <4>1, <4>2
      <3>3. SameOrder(o)
        BY <1>1, <1>5, <2>6, OrderOn
      <3> QED BY <1>1, <1>2, <2>7, <3>1, <3>2, <3>3, TellsOn
    <2>9. \A o \in inFlight' : o \in inFlight \/ \E q \in RunId : Executing(q)' /\ exec'[q].pipeline = o
      BY <2>1, <2>2 DEF Executing
    <2>10. Born(cache)'
      BY <2>4, <2>6 DEF Born, BornThen
    <2> QED BY <1>2, <1>3, <1>4, <1>5, <2>6, <2>7, <2>8, <2>9, <2>10, Quietly
  <1> QED BY <1>7, <1>8

\* A run that closes its record ends, and no other run of its pipeline is to be open.
LEMMA CloseStep ==
  ASSUME PInv, ExecType, NEW r \in RunId, Closes(r)
  PROVE  PInv'
  <1>0. PICK p : p = exec[r].pipeline
    OBVIOUS
  <1>1. Docs /\ Line /\ started \in 0 .. MaxRuns /\ Born(cache) /\ cache \in Doc /\ Idles /\ Fresh
        /\ Leaving
    BY DEF PInv, Docs, Fresh, Born
  <1>2. /\ born' = born /\ lost' = lost /\ started' = started /\ inFlight' = inFlight
        /\ exec[r].stage \in {"filled", "broken"} /\ HasSaved(r) /\ Goes(r, "ended")
    BY DEF Closes, ghosts
  <1>3. PICK status \in {"success", "failed"} : Update(r, Ended(cache, p, r, status), Tail(queue))
    BY <1>0 DEF Closes
  <1>3a. PICK new : new = Ended(cache, p, r, status) /\ Update(r, new, Tail(queue))
    BY <1>3
  <1>4. Born(file)' /\ 1 <= Len(queue) /\ queue # << >> /\ queue[1].run = r
    BY <1>1, <1>2, Saved
  <1>5. r <= started /\ r \in 0 .. started' /\ r \in 0 .. MaxRuns /\ started' \in Nat
    BY <1>1, <1>2, PipelinesAssumption DEF Fresh, RunId
  <1>6. \A q \in RunId : exec[q].stage = "ended" => queue[1].run # q
    BY <1>2, <1>4
  <1>7. p \in Pipeline
    BY <1>0, <1>1, <1>2 DEF Idles, ExecType
  <1>8. /\ exec'[r].stage = "ended" /\ exec'[r].pipeline = p
        /\ \A q \in RunId \ {r} : exec'[q] = exec[q]
    <2>1. "ended" \in Stage
      BY DEF Stage, Saving
    <2> QED BY <1>0, <1>1, <1>2, <2>1, Moved
  <1>9. /\ ButAt(cache, new, p) /\ new.defs = cache.defs /\ Len(new.runs[p]) = Len(cache.runs[p])
        /\ \A k \in 1 .. Len(new.runs[p]) :
              /\ new.runs[p][k].id = cache.runs[p][k].id
              /\ new.runs[p][k].status = IF cache.runs[p][k].id = r THEN status
                                                                   ELSE cache.runs[p][k].status
    BY <1>1, <1>3a, <1>7, EndedDoc
  <1>10. BornThen(new)
    BY <1>1, <1>2, <1>9 DEF BornThen, Born, ButAt
  <1>11. SetCache(new, Pending(1), <<SaveOf(r, new)>>)
    BY <1>3a DEF Update, Pending
  <1>12. cache' = new /\ Line' /\ Shift(1, r) /\ Len(queue') >= 1 /\ queue'[Len(queue')].run = r
    <2>1. <<SaveOf(r, new)>> # << >>
      OBVIOUS
    <2> QED BY <1>1, <1>2, <1>4, <1>5, <1>10, <1>11, <2>1, SetShift
  <1>13. Waits(r)'
    BY <1>12 DEF Waits, Line
  <1>14. ASSUME NEW o \in Pipeline \ lost', o # p PROVE Tells(cache, o)'
    <2>1. Tells(cache, o) /\ SameRecords(cache, o)
      BY <1>2, <1>9, <1>12, <1>14 DEF PInv, SameRecords, Open, ButAt
    <2>2. SameOrder(o)
      BY <1>1, <1>6, <1>12, OrderOn
    <2>3. \A q \in RunId : exec[q].pipeline = o \/ exec'[q].pipeline = o => SameRun(q)
      BY <1>0, <1>8, <1>14 DEF SameRun, Live, LiveThen
    <2> QED BY <1>1, <1>2, <2>1, <2>2, <2>3, TellsOn
  <1>15. ASSUME p \notin lost PROVE Tells(cache, p)'
    <2>1. Tells(cache, p) /\ Live(r)
      BY <1>0, <1>2, <1>7, <1>15 DEF PInv, Live
    <2>2. \A q \in RunId : exec[q].pipeline = p /\ Live(q) => q = r
      BY <1>0, <2>1 DEF Tells
    <2>3. \A q \in RunId : exec'[q].pipeline = p => ~LiveThen(q)
      BY <1>8, <2>2 DEF Live, LiveThen
    <2>4. ASSUME NEW k \in 1 .. Len(cache'.runs[p]), Open(cache', p, k) PROVE FALSE
      <3> DEFINE q == cache.runs[p][k].id
      <3>1. k \in 1 .. Len(cache.runs[p]) /\ q # r /\ Open(cache, p, k)
        BY <1>9, <1>12, <2>4 DEF Open, OpenStatus
      <3>2. Live(q) /\ exec[q].pipeline = p
        BY <2>1, <3>1 DEF Tells
      <3>3. q \in RunId
        <4>1. cache.runs[p] \in Seq(Record)
          BY <1>1, <1>7 DEF Doc
        <4>2. cache.runs[p][k] \in Record
          BY <3>1, <4>1
        <4> QED BY <4>2 DEF Record
      <3> QED BY <2>2, <3>1, <3>2, <3>3
    <2>5. ASSUME NEW q \in RunId, exec'[q].pipeline = p PROVE p \in born' /\ exec'[q].stage # "queued"
      <3>1. exec[q].pipeline = p
        BY <1>0, <1>8, <2>5
      <3> QED BY <1>2, <2>1, <2>3, <2>5, <3>1 DEF Tells, LiveThen
    <2> QED BY <2>3, <2>4, <2>5 DEF Tells, Open, Live, LiveThen
  <1>16. Fresh'
    <2>1. \A k \in 1 .. Len(queue') : queue'[k].run <= started'
      BY <1>1, <1>2, <1>5, <1>12, QueueFresh
    <2> QED BY <1>1, <1>2, <1>5, <1>8, <2>1 DEF Fresh
  <1>17. Idles' /\ Reserves'
    <2>1. Executing(r) /\ Executing(r)'
      BY <1>2, <1>8 DEF Executing
    <2>2. \A q \in RunId : Executing(q) => Executing(q)' /\ exec'[q].pipeline = exec[q].pipeline
      BY <1>0, <1>8, <2>1 DEF Executing
    <2>3. Reserves'
      BY <1>2, <2>2 DEF PInv, Reserves
    <2>4. p # None
      BY <1>7, PipelinesAssumption
    <2> QED BY <1>1, <1>8, <2>3, <2>4 DEF Idles
  <1>18. Leaving'
    BY <1>1, <1>6, <1>8, <1>12, <1>13, LeavingOn
  <1>19. Docs'
    BY <1>4, <1>10, <1>12 DEF Docs, Born, BornThen
  <1> QED BY <1>2, <1>14, <1>15, <1>16, <1>17, <1>18, <1>19 DEF PInv

\* A run that leaves its pipeline has no open record any more.
LEMMA LeaveSteps ==
  ASSUME IInv, PInv, NEW r \in RunId, Leaves(r)
  PROVE  PInv'
  <1> DEFINE p == exec[r].pipeline
  <1>1. Docs /\ Line /\ started \in 0 .. MaxRuns /\ Born(cache) /\ cache \in Doc /\ Idles /\ Fresh
        /\ Leaving /\ ExecType
    BY DEF PInv, Docs, Fresh, Born, IInv
  <1>2. /\ born' = born /\ lost' = lost /\ started' = started /\ inFlight' = inFlight \ {p}
        /\ exec[r].stage = "ended" /\ HasSaved(r) /\ queue' = Tail(queue) /\ cache' = cache
        /\ exec' = [exec EXCEPT ![r] = Resting]
    BY DEF Leaves, ghosts
  <1>3. Born(file)' /\ 1 <= Len(queue) /\ queue # << >> /\ queue[1].run = r
    BY <1>1, <1>2, Saved
  <1>4. Line' /\ Shift(1, 0)
    BY <1>1, <1>2, <1>3, Answered
  <1>5. exec'[r].stage = "idle" /\ exec'[r].pipeline = None /\ \A q \in RunId \ {r} : exec'[q] = exec[q]
    BY <1>1, <1>2 DEF ExecType, Resting
  <1>6. ASSUME NEW o \in Pipeline \ lost' PROVE Tells(cache, o)'
    <2>1. Tells(cache, o)
      BY <1>2, <1>6 DEF PInv
    <2>2. \A q \in RunId : exec'[q].pipeline = o => q # r /\ exec[q] = exec'[q]
      BY <1>5, <1>6, PipelinesAssumption
    <2>3. ASSUME NEW q \in RunId, NEW s \in RunId, q # r, Before(q, s) PROVE Before(q, s)'
      BY <1>1, <1>3, <1>4, <2>3, BeforeOn
    <2>4. ASSUME NEW k \in 1 .. Len(cache.runs[o]), Open(cache, o, k)
          PROVE  exec'[cache.runs[o][k].id] = exec[cache.runs[o][k].id]
      <3> DEFINE q == cache.runs[o][k].id
      <3>1. Live(q)
        BY <2>1, <2>4 DEF Tells
      <3>2. q \in RunId
        <4>1. cache.runs[o] \in Seq(Record)
          BY <1>1, <1>6 DEF Doc
        <4>2. cache.runs[o][k] \in Record
          BY <2>4, <4>1
        <4> QED BY <4>2 DEF Record
      <3>3. q # r
        BY <1>2, <3>1 DEF Live
      <3> QED BY <1>5, <3>2, <3>3
    <2>5. ASSUME NEW k \in 1 .. Len(cache.runs[o]), Open(cache, o, k)
          PROVE  LiveThen(cache.runs[o][k].id) /\ exec'[cache.runs[o][k].id].pipeline = o
      BY <2>1, <2>4, <2>5 DEF Tells, Live, LiveThen
    <2>6. ASSUME NEW q \in RunId, exec'[q].pipeline = o
          PROVE  /\ o \in born'
                 /\ o \in cache'.defs /\ LiveThen(q) =>
                      \E k \in 1 .. Len(cache'.runs[o]) : cache'.runs[o][k].id = q /\ Open(cache', o, k)
                 /\ \A s \in RunId : exec'[s].pipeline = o =>
                       /\ LiveThen(q) /\ LiveThen(s) => q = s
                       /\ exec'[s].stage = "ended" /\ exec'[q].stage = "queued" => Before(s, q)'
      <3>1. exec[q].pipeline = o /\ (LiveThen(q) <=> Live(q))
        BY <2>2, <2>6 DEF Live, LiveThen
      <3>2. ASSUME NEW s \in RunId, exec'[s].pipeline = o
            PROVE  /\ LiveThen(q) /\ LiveThen(s) => q = s
                   /\ exec'[s].stage = "ended" /\ exec'[q].stage = "queued" => Before(s, q)'
        <4>1. exec[s].pipeline = o /\ (LiveThen(s) <=> Live(s)) /\ s # r
          BY <2>2, <3>2 DEF Live, LiveThen
        <4>2. exec[s].stage = "ended" /\ exec[q].stage = "queued" => Before(s, q)
          BY <2>1, <3>1, <4>1 DEF Tells
        <4> QED BY <2>1, <2>2, <2>3, <2>6, <3>1, <3>2, <4>1, <4>2 DEF Tells
      <3> QED BY <1>2, <2>1, <3>1, <3>2 DEF Tells, Open
    <2> QED BY <1>2, <2>5, <2>6 DEF Tells, Open, Live, LiveThen
  <1>7. Fresh'
    <2>1. \A k \in 1 .. Len(queue') : queue'[k].run <= started'
      <3>1. 0 \in 0 .. started' /\ started <= started' /\ started' \in Nat
        BY <1>1, <1>2, PipelinesAssumption
      <3> QED BY <1>1, <1>4, <3>1, QueueFresh
    <2> QED BY <1>1, <1>2, <1>5, <2>1 DEF Fresh
  <1>8. Idles'
    BY <1>1, <1>5 DEF Idles
  <1>9. Reserves'
    <2>1. ASSUME NEW o \in inFlight' PROVE \E q \in RunId : Executing(q)' /\ exec'[q].pipeline = o
      <3>1. o \in inFlight /\ o # p
        BY <1>2, <2>1
      <3>2. PICK q \in RunId : Executing(q) /\ exec[q].pipeline = o
        BY <3>1 DEF PInv, Reserves
      <3> QED BY <1>5, <3>1, <3>2 DEF Executing
    <2> QED BY <2>1 DEF Reserves
  <1>10. Leaving'
    BY <1>1, <1>3, <1>4, <1>5, LeavingOn
  <1>11. Docs'
    BY <1>1, <1>2, <1>3, <1>4 DEF Docs, Born
  <1> QED BY <1>6, <1>7, <1>8, <1>9, <1>10, <1>11 DEF PInv

-----------------------------------------------------------------------------
\* The steps that load and that change the definitions.

\* The pipelines that a load does not lose.
LEMMA Kept ==
  ASSUME PInv, Loses
  PROVE  lost \subseteq lost' /\ \A p \in Pipeline \ lost' : Tells(cache, p) /\ Tells(file, p)
  <1>1. lost \subseteq lost' /\ file \in Doc /\ cache \in Doc
    BY DEF Loses, PInv, Docs, Born
  <1>2. \A p \in Pipeline \ lost' : Tells(cache, p)
    BY <1>1 DEF PInv
  <1> QED BY <1>1, <1>2, LoadTells

\* A load that starts nothing.
LEMMA LoadStep ==
  ASSUME PInv, NEW l \in Load, HasRead(l), SetCache(file, Tail(queue), << >>), Loses,
         UNCHANGED <<runner, started, born>>
  PROVE  PInv'
  <1>1. Docs /\ Line /\ started \in 0 .. MaxRuns /\ file \in Doc
    BY DEF PInv, Docs, Fresh, Born
  <1>2. born' = born /\ started' = started /\ inFlight' = inFlight /\ exec' = exec
    BY DEF runner
  <1>3. Born(file)' /\ BornThen(file) /\ 1 <= Len(queue) /\ queue[1].run = 0
    BY <1>1, <1>2, Read
  <1>4. 0 \in 0 .. MaxRuns /\ 0 <= started
    BY <1>1, PipelinesAssumption
  <1>5. cache' = file /\ Line' /\ Shift(1, 0)
    <2>1. \A requests : requests = << >> => requests = << >> \/ requests = <<SaveOf(0, file)>>
      OBVIOUS
    <2>2. PICK requests : requests = << >> /\ SetCache(file, Pending(1), requests)
      BY DEF Pending
    <2> QED BY <1>1, <1>2, <1>3, <1>4, <2>1, <2>2, SetShift
  <1>6. \A r \in RunId : SameRun(r) /\ queue[1].run # r
    BY <1>2, <1>3 DEF SameRun, Live, LiveThen, RunId
  <1>7. ASSUME NEW p \in Pipeline \ lost' PROVE Tells(cache, p)'
    <2>1. Tells(file, p) /\ SameRecords(file, p)
      BY <1>5, <1>7, Kept DEF SameRecords, Open
    <2>2. SameOrder(p)
      BY <1>1, <1>5, <1>6, OrderOn
    <2> QED BY <1>1, <1>2, <1>6, <2>1, <2>2, TellsOn
  <1>8. Born(cache)'
    BY <1>3, <1>5 DEF Born, BornThen
  <1> QED BY <1>2, <1>3, <1>4, <1>5, <1>6, <1>7, <1>8, Quietly

\* A pipeline that is created has no run.
LEMMA CreateStep ==
  ASSUME PInv, NEW p \in Pipeline, Creates(p)
  PROVE  PInv'
  <1>1. Docs /\ Line /\ started \in 0 .. MaxRuns /\ file \in Doc /\ file.defs \subseteq born
    BY DEF PInv, Docs, Fresh, Born
  <1>2. /\ born' = born \cup {p} /\ started' = started /\ inFlight' = inFlight /\ exec' = exec
        /\ p \notin born /\ HasRead("create") /\ Loses
    BY DEF Creates, runner
  <1>3. PICK new : new = Created(file, p) /\ Update(0, new, Tail(queue))
    BY DEF Creates
  <1>4. Born(file)' /\ 1 <= Len(queue) /\ queue[1].run = 0
    <2>1. "create" \in Load
      BY DEF Load
    <2> QED BY <1>1, <1>2, <2>1, Read
  <1>5. 0 \in 0 .. MaxRuns /\ 0 <= started
    BY <1>1, PipelinesAssumption
  <1>6. ButAt(file, new, p) /\ new.runs[p] = file.runs[p] /\ new.defs = file.defs \cup {p}
    BY <1>1, <1>3, CreatedDoc
  <1>7. BornThen(new)
    BY <1>1, <1>2, <1>6 DEF BornThen, ButAt
  <1>8. SetCache(new, Pending(1), <<SaveOf(0, new)>>)
    BY <1>3 DEF Update, Pending
  <1>9. cache' = new /\ Line' /\ Shift(1, 0)
    BY <1>1, <1>2, <1>4, <1>5, <1>7, <1>8, SetShift
  <1>10. \A r \in RunId : SameRun(r) /\ queue[1].run # r
    BY <1>2, <1>4 DEF SameRun, Live, LiveThen, RunId
  <1>11. ASSUME NEW o \in Pipeline \ lost', o # p PROVE Tells(cache, o)'
    <2>1. Tells(file, o) /\ SameRecords(file, o)
      BY <1>2, <1>6, <1>9, <1>11, Kept DEF SameRecords, Open, ButAt
    <2>2. SameOrder(o)
      BY <1>1, <1>9, <1>10, OrderOn
    <2> QED BY <1>1, <1>2, <1>10, <2>1, <2>2, TellsOn
  <1>12. ASSUME p \notin lost' PROVE Tells(cache, p)'
    <2>1. Tells(file, p)
      BY <1>2, <1>12, Kept
    <2>2. \A r \in RunId : exec[r].pipeline # p
      BY <1>2, <2>1 DEF Tells
    <2>3. ASSUME NEW k \in 1 .. Len(file.runs[p]), Open(file, p, k) PROVE FALSE
      <3>1. file.runs[p] \in Seq(Record)
        BY <1>1 DEF Doc
      <3>2. file.runs[p][k] \in Record
        BY <2>3, <3>1
      <3>3. file.runs[p][k].id \in RunId
        BY <3>2 DEF Record
      <3> QED BY <2>1, <2>2, <2>3, <3>3 DEF Tells
    <2> QED BY <1>2, <1>6, <1>9, <2>2, <2>3 DEF Tells, Open
  <1>13. Born(cache)'
    BY <1>7, <1>9 DEF Born, BornThen
  <1> QED BY <1>2, <1>4, <1>5, <1>9, <1>10, <1>11, <1>12, <1>13, Quietly

\* A pipeline that is deleted has no records.
LEMMA DeleteStep ==
  ASSUME PInv, NEW p \in Pipeline, Deletes(p)
  PROVE  PInv'
  <1>1. Docs /\ Line /\ started \in 0 .. MaxRuns /\ cache \in Doc /\ cache.defs \subseteq born
    BY DEF PInv, Docs, Fresh, Born
  <1>2. /\ born' = born /\ started' = started /\ inFlight' = inFlight /\ exec' = exec
        /\ lost' = lost /\ file' = file
    BY DEF Deletes, runner, ghosts
  <1>3. PICK new : new = Deleted(cache, p) /\ Update(0, new, queue)
    BY DEF Deletes
  <1>4. 0 \in 0 .. MaxRuns /\ 0 <= started /\ 0 <= Len(queue) /\ 0 \in {0, 1} /\ 0 # 1
    BY <1>1, PipelinesAssumption DEF Line
  <1>5. ButAt(cache, new, p) /\ Len(new.runs[p]) = 0 /\ new.defs = cache.defs \ {p}
    BY <1>1, <1>3, DeletedDoc
  <1>6. BornThen(new)
    BY <1>1, <1>2, <1>5 DEF BornThen, ButAt
  <1>7. SetCache(new, Pending(0), <<SaveOf(0, new)>>)
    BY <1>3 DEF Update, Pending
  <1>8. cache' = new /\ Line' /\ Shift(0, 0)
    BY <1>1, <1>2, <1>4, <1>6, <1>7, SetShift
  <1>9. \A r \in RunId : SameRun(r)
    BY <1>2 DEF SameRun, Live, LiveThen
  <1>10. \A o : SameOrder(o)
    BY <1>1, <1>4, <1>8, OrderOn
  <1>11. ASSUME NEW o \in Pipeline \ lost', o # p PROVE Tells(cache, o)'
    <2>1. Tells(cache, o) /\ SameRecords(cache, o)
      BY <1>2, <1>5, <1>8, <1>11 DEF PInv, SameRecords, Open, ButAt
    <2> QED BY <1>1, <1>2, <1>9, <1>10, <2>1, TellsOn
  <1>12. ASSUME p \notin lost' PROVE Tells(cache, p)'
    <2>1. Tells(cache, p)
      BY <1>2, <1>12 DEF PInv
    <2> QED BY <1>2, <1>5, <1>8, <1>10, <2>1 DEF Tells, Open, Live, SameOrder
  <1>13. Born(cache)' /\ Born(file)'
    BY <1>1, <1>2, <1>6, <1>8 DEF Docs, Born, BornThen
  <1> QED BY <1>2, <1>4, <1>8, <1>9, <1>11, <1>12, <1>13, Quietly

\* A run that starts is the only one of its pipeline whose record is to be open: what

\* else the pipeline has waits for its last save.
LEMMA StartTells ==
  ASSUME PInv, ExecType, NEW p \in Pipeline, NEW doc \in Doc, doc.defs \subseteq born,
         NEW n \in {0, 1}, n <= Len(queue), n = 1 => queue[1].run = 0,
         Starts(p, doc, Pending(n)), born' = born, Born(file)',
         \A o \in Pipeline \ lost' : Tells(doc, o)
  PROVE  PInv'
  <1>0. PICK r : r = started + 1
    OBVIOUS
  <1>1. Docs /\ Line /\ started \in 0 .. MaxRuns /\ Idles /\ Fresh /\ Leaving
    BY DEF PInv, Docs, Fresh
  <1>2. PICK new : new = Queued(doc, p, r) /\ Update(r, new, Pending(n))
    BY <1>0 DEF Starts
  <1>3. /\ started < MaxRuns /\ started' = r /\ p \in doc.defs /\ ~HasOpenRun(doc, p)
        /\ exec' = [exec EXCEPT ![r] = [stage |-> "queued", pipeline |-> p, rows |-> None]]
        /\ inFlight' = inFlight
    BY <1>0 DEF Starts
  <1>4. /\ r \in RunId /\ r \in 0 .. MaxRuns /\ r > started /\ r \in 0 .. started' /\ started' \in Nat
        /\ started <= started' /\ started' \in 0 .. MaxRuns /\ r # 0
    BY <1>0, <1>1, <1>3, PipelinesAssumption DEF RunId
  <1>5. exec[r].stage = "idle" /\ exec[r].pipeline = None
    BY <1>1, <1>4 DEF Fresh, Idles
  <1>6. /\ exec'[r].stage = "queued" /\ exec'[r].pipeline = p
        /\ \A q \in RunId \ {r} : exec'[q] = exec[q]
    BY <1>3, <1>4 DEF ExecType
  <1>7. /\ ButAt(doc, new, p) /\ new.defs = doc.defs
        /\ Len(new.runs[p]) >= 1 /\ new.runs[p][1] = [id |-> r, status |-> "queued"]
        /\ \A k \in 1 .. Len(new.runs[p]) : k # 1 =>
              k - 1 \in 1 .. Len(doc.runs[p]) /\ new.runs[p][k] = doc.runs[p][k - 1]
    BY <1>2, <1>4, QueuedDoc
  <1>8. BornThen(new)
    BY <1>7 DEF BornThen, ButAt
  <1>9. SetCache(new, Pending(n), <<SaveOf(r, new)>>)
    BY <1>2 DEF Update
  <1>10. cache' = new /\ Line' /\ Shift(n, r)
    BY <1>1, <1>4, <1>8, <1>9, SetShift
  <1>11. n = 1 => \A q \in RunId : queue[1].run # q
    BY DEF RunId
  <1>12. ASSUME NEW o \in Pipeline \ lost', o # p PROVE Tells(cache, o)'
    <2>1. Tells(doc, o) /\ SameRecords(doc, o)
      BY <1>7, <1>10, <1>12 DEF SameRecords, Open, ButAt
    <2>2. SameOrder(o)
      BY <1>1, <1>10, <1>11, OrderOn
    <2>3. \A q \in RunId : exec[q].pipeline = o \/ exec'[q].pipeline = o => SameRun(q)
      BY <1>5, <1>6, <1>12, PipelinesAssumption DEF SameRun, Live, LiveThen
    <2> QED BY <2>1, <2>2, <2>3, TellsOn
  <1>13. ASSUME p \notin lost' PROVE Tells(cache, p)'
    <2>1. Tells(doc, p)
      BY <1>13
    <2>2. \A k \in 1 .. Len(doc.runs[p]) : ~Open(doc, p, k)
      <3>1. DOMAIN doc.runs[p] = 1 .. Len(doc.runs[p])
        BY DEF Doc
      <3> QED BY <1>3, <3>1 DEF HasOpenRun, Open
    <2>3. \A q \in RunId : exec[q].pipeline = p => ~Live(q) /\ q # r
      BY <1>3, <1>5, <2>1, <2>2, PipelinesAssumption DEF Tells
    <2>4. ASSUME NEW q \in RunId, q # r, exec'[q].pipeline = p
          PROVE  exec[q].pipeline = p /\ exec'[q].stage = "ended" /\ exec[q].stage = "ended"
      <3>1. exec'[q] = exec[q]
        BY <1>6, <2>4
      <3>2. exec[q].stage # "idle"
        BY <1>1, <2>4, <3>1, PipelinesAssumption DEF Idles
      <3> QED BY <2>3, <2>4, <3>1, <3>2 DEF Live
    <2>5. \A k \in 1 .. Len(cache'.runs[p]) : Open(cache', p, k) => k = 1
      BY <1>7, <1>10, <2>2 DEF Open
    <2>6. 1 \in 1 .. Len(cache'.runs[p]) /\ cache'.runs[p][1].id = r /\ Open(cache', p, 1)
      <3>1. Len(new.runs[p]) \in Nat
        BY <1>7 DEF ButAt, Doc
      <3> QED BY <1>7, <1>10, <3>1 DEF Open, OpenStatus
    <2>7. ASSUME NEW q \in RunId, q # r, exec'[q].pipeline = p PROVE Before(q, r)'
      <3>1. Waits(q)
        BY <1>1, <2>4, <2>7 DEF Leaving
      <3>2. ASSUME NEW k \in 1 .. Len(queue) PROVE queue[k].run # r
        <4>1. queue[k].run <= started
          BY <1>1 DEF Fresh
        <4>2. queue[k] \in Request
          BY <1>1 DEF Line
        <4>3. queue[k].run \in 0 .. MaxRuns
          BY <4>2 DEF Request
        <4> QED BY <1>1, <1>4, <4>1, <4>3, PipelinesAssumption
      <3> QED BY <1>1, <1>10, <1>11, <3>1, <3>2, BeforeNew
    <2>8. p \in born'
      BY <1>3
    <2>9. LiveThen(r)
      BY <1>6 DEF LiveThen
    <2>10. \A q \in RunId : exec'[q].pipeline = p => q = r \/ (~LiveThen(q) /\ exec'[q].stage # "queued")
      BY <2>4 DEF LiveThen
    <2>11. \A q \in RunId : exec'[q].pipeline = p =>
              /\ p \in born'
              /\ p \in cache'.defs /\ LiveThen(q) =>
                   \E k \in 1 .. Len(cache'.runs[p]) : cache'.runs[p][k].id = q /\ Open(cache', p, k)
              /\ \A s \in RunId : exec'[s].pipeline = p =>
                    /\ LiveThen(q) /\ LiveThen(s) => q = s
                    /\ exec'[s].stage = "ended" /\ exec'[q].stage = "queued" => Before(s, q)'
      <3>1. exec'[r].stage # "ended"
        BY <1>6
      <3>2. ASSUME NEW q \in RunId, exec'[q].pipeline = p, NEW s \in RunId, exec'[s].pipeline = p
            PROVE  /\ LiveThen(q) /\ LiveThen(s) => q = s
                   /\ exec'[s].stage = "ended" /\ exec'[q].stage = "queued" => Before(s, q)'
        <4>1. LiveThen(q) /\ LiveThen(s) => q = s
          BY <2>10, <3>2
        <4>2. ASSUME exec'[s].stage = "ended", exec'[q].stage = "queued" PROVE Before(s, q)'
          <5>1. s # r /\ q = r
            BY <2>10, <3>1, <3>2, <4>2
          <5> QED BY <2>7, <3>2, <5>1
        <4> QED BY <4>1, <4>2
      <3>3. ASSUME NEW q \in RunId, exec'[q].pipeline = p, LiveThen(q)
            PROVE  \E k \in 1 .. Len(cache'.runs[p]) : cache'.runs[p][k].id = q /\ Open(cache', p, k)
        <4>1. q = r
          BY <2>10, <3>3
        <4> QED BY <2>6, <4>1
      <3> QED BY <2>8, <3>2, <3>3
    <2>12. \A k \in 1 .. Len(cache'.runs[p]) : Open(cache', p, k) =>
              LiveThen(cache'.runs[p][k].id) /\ exec'[cache'.runs[p][k].id].pipeline = p
      BY <1>6, <2>5, <2>6, <2>9
    <2> QED BY <2>11, <2>12 DEF Tells, Open, Live, LiveThen
  <1>14. Fresh'
    <2>1. \A k \in 1 .. Len(queue') : queue'[k].run <= started'
      BY <1>1, <1>4, <1>10, QueueFresh
    <2>2. \A q \in RunId : q > started' => exec'[q].stage = "idle"
      <3>1. \A q \in RunId : q > started' => q > started /\ q # r
        BY <1>0, <1>1, <1>3 DEF RunId
      <3> QED BY <1>1, <1>6, <3>1 DEF Fresh
    <2> QED BY <1>4, <2>1, <2>2 DEF Fresh
  <1>15. Idles'
    BY <1>1, <1>6, PipelinesAssumption DEF Idles
  <1>16. Reserves'
    <2>1. ASSUME NEW o \in inFlight' PROVE \E q \in RunId : Executing(q)' /\ exec'[q].pipeline = o
      <3>1. PICK q \in RunId : Executing(q) /\ exec[q].pipeline = o
        BY <1>3, <2>1 DEF PInv, Reserves
      <3>2. q # r
        BY <1>5, <3>1 DEF Executing
      <3> QED BY <1>6, <3>1, <3>2 DEF Executing
    <2> QED BY <2>1 DEF Reserves
  <1>17. Leaving'
    BY <1>1, <1>6, <1>10, <1>11, LeavingOn
  <1>18. Docs'
    BY <1>8, <1>10 DEF Docs, Born, BornThen
  <1> QED BY <1>12, <1>13, <1>14, <1>15, <1>16, <1>17, <1>18 DEF PInv

\* The panel starts a run on the cache, the agent on what it has just read.
LEMMA StartSteps ==
  ASSUME PInv, ExecType, NEW p \in Pipeline, PanelRuns(p) \/ AgentRuns(p)
  PROVE  PInv'
  <1>1. Docs /\ Line /\ Born(cache) /\ Born(file) /\ Len(queue) \in Nat
    BY DEF PInv, Docs, Line
  <1>2. CASE PanelRuns(p)
    <2>1. /\ Starts(p, cache, Pending(0)) /\ file' = file /\ born' = born /\ lost' = lost
          /\ 0 \in {0, 1} /\ 0 <= Len(queue) /\ 0 # 1
      BY <1>1, <1>2 DEF PanelRuns, Pending
    <2>2. \A o \in Pipeline \ lost' : Tells(cache, o)
      BY <2>1 DEF PInv
    <2>3. cache \in Doc /\ cache.defs \subseteq born /\ Born(file)'
      BY <1>1, <2>1 DEF Born
    <2> QED BY <2>1, <2>2, <2>3, StartTells
  <1>3. CASE AgentRuns(p)
    <2>1. HasRead("run") /\ Loses /\ born' = born /\ "run" \in Load
      BY <1>3 DEF AgentRuns, Load
    <2>2. CASE Starts(p, file, Tail(queue))
      <3>1. Starts(p, file, Pending(1)) /\ 1 \in {0, 1}
        BY <2>2 DEF Pending
      <3>2. Born(file)' /\ 1 <= Len(queue) /\ queue[1].run = 0
        BY <1>1, <2>1, Read
      <3>3. file \in Doc /\ file.defs \subseteq born
        BY <1>1 DEF Born
      <3>4. \A o \in Pipeline \ lost' : Tells(file, o)
        BY <2>1, Kept
      <3> QED BY <2>1, <3>1, <3>2, <3>3, <3>4, StartTells
    <2>3. CASE SetCache(file, Tail(queue), << >>) /\ UNCHANGED <<runner, started>>
      BY <2>1, <2>3, LoadStep
    <2> QED BY <1>3, <2>2, <2>3 DEF AgentRuns
  <1> QED BY <1>2, <1>3

\* A document with no pipelines.
LEMMA EmptyDoc == Empty \in Doc /\ Empty.defs = {} /\ \A p \in Pipeline : Len(Empty.runs[p]) = 0
  <1>1. << >> \in Seq(Record) /\ Len(<< >>) = 0
    OBVIOUS
  <1> QED BY <1>1 DEF Empty, Doc, Mark

\* When nothing runs and nothing is asked for, the empty cache tells what there is.
LEMMA AtRest ==
  ASSUME cache = Empty, Born(file), queue = << >>, inFlight = {}, started \in 0 .. MaxRuns,
         exec = [r \in RunId |-> Resting]
  PROVE  PInv
  <1>1. Docs
    BY EmptyDoc DEF Docs, Born, Line
  <1>2. \A r \in RunId : exec[r].stage = "idle" /\ exec[r].pipeline = None
    BY DEF Resting
  <1>3. Fresh /\ Idles /\ Reserves /\ Leaving
    BY <1>2 DEF Fresh, Idles, Reserves, Leaving
  <1>4. \A p \in Pipeline : Tells(cache, p)
    BY <1>2, EmptyDoc, PipelinesAssumption DEF Tells
  <1> QED BY <1>1, <1>3, <1>4 DEF PInv

LEMMA InitPInv == Init => PInv
  <1> SUFFICES ASSUME Init PROVE PInv
    OBVIOUS
  <1>1. Born(file)
    BY EmptyDoc DEF Init, Born
  <1>2. started \in 0 .. MaxRuns
    BY PipelinesAssumption DEF Init
  <1> QED BY <1>1, <1>2, AtRest DEF Init

LEMMA RestartTells ==
  ASSUME PInv, Restart
  PROVE  PInv'
  <1>1. /\ cache' = Empty /\ queue' = << >> /\ inFlight' = {} /\ exec' = [r \in RunId |-> Resting]
        /\ file' = file /\ born' = born /\ started' = started
    BY DEF Restart
  <1>2. Born(file)' /\ started' \in 0 .. MaxRuns
    BY <1>1 DEF PInv, Docs, Born, Fresh
  <1>3. Docs'
    BY <1>1, <1>2, EmptyDoc DEF Docs, Born, Line
  <1>4. \A r \in RunId : exec'[r].stage = "idle" /\ exec'[r].pipeline = None
    BY <1>1 DEF Resting
  <1>5. Fresh' /\ Idles' /\ Reserves' /\ Leaving'
    BY <1>1, <1>2, <1>4 DEF Fresh, Idles, Reserves, Leaving
  <1>6. ASSUME NEW p \in Pipeline PROVE Tells(cache, p)'
    BY <1>1, <1>4, EmptyDoc, PipelinesAssumption DEF Tells
  <1> QED BY <1>3, <1>5, <1>6 DEF PInv

\* The steps of a run keep what the records tell.
LEMMA RunStepTells ==
  ASSUME IInv, PInv, NEW r \in RunId, RunStep(r)
  PROVE  PInv'
  <1> USE DEF IInv
  <1>1. CASE Enters(r)
    BY <1>1, EnterRecords
  <1>2. CASE Closes(r)
    BY <1>2, CloseStep
  <1>3. CASE Leaves(r)
    BY <1>3, LeaveSteps
  <1>4. CASE PushesStep(r)
    <2>1. PICK stage \in {"query", "table"} : Goes(r, stage)
      BY <1>4 DEF PushesStep
    <2>2. /\ Executing(r) /\ exec[r].stage # "ended" /\ UNCHANGED <<inFlight, ghosts>>
          /\ HasSaved(r) /\ Update(r, cache, Tail(queue))
      BY <1>4 DEF PushesStep, Executing
    <2>3. stage \in Stage \ {"idle", "ended", "queued"}
      BY DEF Stage, Saving
    <2> QED BY <2>1, <2>2, <2>3, Moved, WorkStep
  <1>5. CASE Sends(r)
    <2>1. PICK stage \in {"querying", "creating", "clearing"} : Goes(r, stage)
      BY <1>5 DEF Sends
    <2>2. /\ Executing(r) /\ exec[r].stage # "ended" /\ UNCHANGED <<inFlight, ghosts>>
          /\ HasSaved(r) /\ queue' = Tail(queue) /\ cache' = cache
      BY <1>5 DEF Sends, Executing
    <2>3. stage \in Stage \ {"idle", "ended", "queued"}
      BY DEF Stage, Saving
    <2> QED BY <2>1, <2>2, <2>3, Moved, WorkStep
  <1>6. CASE Breaks(r)
    <2>1. /\ Goes(r, "broken") /\ Executing(r) /\ exec[r].stage # "ended"
          /\ UNCHANGED <<inFlight, ghosts>> /\ file' = file /\ Update(r, cache, queue)
      BY <1>6 DEF Breaks, StepDone, Executing
    <2>2. "broken" \in Stage \ {"idle", "ended", "queued"}
      BY DEF Stage, Saving
    <2> QED BY <2>1, <2>2, Moved, WorkStep
  <1>7. CASE QueryAnswers(r)
    <2>1. PICK rows \in {"empty", "some"} :
            exec' = [exec EXCEPT ![r].stage = "queried", ![r].rows = rows]
      BY <1>7 DEF QueryAnswers
    <2>2. /\ exec'[r].stage = "queried" /\ exec'[r].pipeline = exec[r].pipeline
          /\ \A q \in RunId \ {r} : exec'[q] = exec[q]
      BY <2>1 DEF ExecType
    <2>3. /\ Executing(r) /\ exec[r].stage # "ended" /\ UNCHANGED <<inFlight, ghosts>>
          /\ file' = file /\ Update(r, cache, queue)
      BY <1>7 DEF QueryAnswers, Executing
    <2>4. "queried" \in Stage \ {"idle", "ended", "queued"}
      BY DEF Stage, Saving
    <2> QED BY <2>2, <2>3, <2>4, WorkStep
  <1>8. CASE TableIsThere(r)
    <2>1. /\ Goes(r, "clearing") /\ Executing(r) /\ exec[r].stage # "ended"
          /\ UNCHANGED <<inFlight, ghosts>> /\ UNCHANGED document
      BY <1>8 DEF TableIsThere, Executing
    <2>2. "clearing" \in Stage \ {"idle", "ended", "queued"}
      BY DEF Stage
    <2> QED BY <2>1, <2>2, Moved, WorkStep
  <1>9. CASE TableIsCleared(r)
    <2>1. PICK stage \in {"filling", "filled"} :
            /\ Goes(r, stage)
            /\ UNCHANGED document \/ (file' = file /\ Update(r, cache, queue))
      <3>1. CASE Goes(r, "filling") /\ UNCHANGED document
        BY <3>1
      <3>2. CASE StepDone(r, "filled")
        BY <3>2 DEF StepDone
      <3> QED BY <1>9, <3>1, <3>2 DEF TableIsCleared
    <2>2. Executing(r) /\ exec[r].stage # "ended" /\ UNCHANGED <<inFlight, ghosts>>
      BY <1>9 DEF TableIsCleared, Executing
    <2>3. stage \in Stage \ {"idle", "ended", "queued"}
      BY DEF Stage, Saving
    <2> QED BY <2>1, <2>2, <2>3, Moved, WorkStep
  <1>10. CASE TableIsFilled(r)
    <2>1. /\ exec[r].stage = "filling" /\ Executing(r) /\ UNCHANGED <<inFlight, ghosts>>
      BY <1>10 DEF TableIsFilled, Executing
    <2>2. CASE UNCHANGED <<document, exec>>
      <3>1. "filling" \in Stage \ {"idle", "ended", "queued"} /\ UNCHANGED document
        BY <2>2 DEF Stage
      <3>2. /\ exec'[r].stage = "filling" /\ exec'[r].pipeline = exec[r].pipeline
            /\ \A q \in RunId \ {r} : exec'[q] = exec[q]
        BY <2>1, <2>2
      <3> QED BY <2>1, <3>1, <3>2, WorkStep
    <2>3. CASE StepDone(r, "filled")
      <3>1. "filled" \in Stage \ {"idle", "ended", "queued"}
        BY DEF Stage, Saving
      <3>2. Goes(r, "filled") /\ file' = file /\ Update(r, cache, queue)
        BY <2>3 DEF StepDone
      <3> QED BY <2>1, <3>1, <3>2, Moved, WorkStep
    <2> QED BY <1>10, <2>2, <2>3 DEF TableIsFilled
  <1> QED BY <1>1, <1>2, <1>3, <1>4, <1>5, <1>6, <1>7, <1>8, <1>9, <1>10 DEF RunStep

LEMMA NextPInv == IInv /\ PInv /\ [Next]_vars => PInv'
  <1> SUFFICES ASSUME IInv, PInv, [Next]_vars PROVE PInv'
    OBVIOUS
  <1>1. CASE Operator
    <2>1. CASE PanelOpens
      <3>1. "refresh" \in Load
        BY DEF Load
      <3> QED BY <2>1, <3>1, AskSteps DEF PanelOpens
    <2>2. CASE PanelCloses
      BY <2>2, AskSteps DEF PanelCloses, document
    <2>3. ASSUME NEW p \in Pipeline, Deletes(p) PROVE PInv'
      BY <2>3, DeleteStep
    <2>4. ASSUME NEW p \in Pipeline, PanelRuns(p) PROVE PInv'
      BY <2>4, StartSteps DEF IInv
    <2> QED BY <1>1, <2>1, <2>2, <2>3, <2>4 DEF Operator
  <1>2. CASE Loads
    <2>1. PICK l \in Load : HasRead(l)
      BY <1>2 DEF Loads, Load
    <2>2. SetCache(file, Tail(queue), << >>) /\ Loses /\ UNCHANGED <<runner, started, born>>
      BY <1>2 DEF Loads
    <2> QED BY <2>1, <2>2, LoadStep
  <1>3. CASE Stores
    BY <1>3, StoreStep
  <1>4. CASE Restart
    BY <1>4, RestartTells
  <1>5. ASSUME NEW l \in Load, Asks(l) PROVE PInv'
    BY <1>5, AskSteps DEF Asks
  <1>6. ASSUME NEW p \in Pipeline, Creates(p) PROVE PInv'
    BY <1>6, CreateStep
  <1>7. ASSUME NEW p \in Pipeline, AgentRuns(p) PROVE PInv'
    BY <1>7, StartSteps DEF IInv
  <1>8. ASSUME NEW r \in RunId, RunStep(r) PROVE PInv'
    BY <1>8, RunStepTells
  <1>9. CASE UNCHANGED vars
    BY <1>9, AskSteps DEF vars, document
  <1> QED BY <1>1, <1>2, <1>3, <1>4, <1>5, <1>6, <1>7, <1>8, <1>9 DEF Next

\* What the records tell is that they match.
LEMMA Matches ==
  ASSUME PInv, ExecType
  PROVE  RunsMatch
  <1> SUFFICES ASSUME NEW p \in Pipeline \ lost
               PROVE  /\ \A k \in DOMAIN cache.runs[p] : cache.runs[p][k].status \in OpenStatus =>
                            exec[cache.runs[p][k].id].stage \notin {"idle", "ended"}
                      /\ \A r \in RunId : p \in cache.defs /\ exec[r].pipeline = p /\ exec[r].stage # "ended" =>
                            \E k \in DOMAIN cache.runs[p] : /\ cache.runs[p][k].id = r
                                                            /\ cache.runs[p][k].status \in OpenStatus
    BY DEF RunsMatch
  <1>1. Tells(cache, p) /\ Idles
    BY DEF PInv
  <1>2. DOMAIN cache.runs[p] = 1 .. Len(cache.runs[p])
    BY DEF PInv, Docs, Born, Doc
  <1>3. \A k \in 1 .. Len(cache.runs[p]) : Open(cache, p, k) => Live(cache.runs[p][k].id)
    BY <1>1 DEF Tells
  <1>4. ASSUME NEW r \in RunId, p \in cache.defs, exec[r].pipeline = p, exec[r].stage # "ended"
        PROVE  \E k \in 1 .. Len(cache.runs[p]) : cache.runs[p][k].id = r /\ Open(cache, p, k)
    <2>1. Live(r)
      BY <1>1, <1>4, PipelinesAssumption DEF Idles, Live
    <2> QED BY <1>1, <1>4, <2>1 DEF Tells
  <1> QED BY <1>2, <1>3, <1>4 DEF Open, Live

\* Unless a load replaced the runs of a pipeline while one was under way, or brought back

\* an open one, or a restart cut one off, a run is open exactly while it is executed or
\* about to be, and none is open for ever (PipelineStore.ts 562-574, 619-634, 759-850).
THEOREM RunsTell == Spec => []RunsMatch
  <1>1. IInv /\ PInv => RunsMatch
    BY Matches DEF IInv
  <1> QED BY InitIInv, NextIInv, InitPInv, NextPInv, <1>1, PTL DEF Spec
=============================================================================
