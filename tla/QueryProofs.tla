----------------------------- MODULE QueryProofs -----------------------------
(***************************************************************************)
(* For any queries, connections, drivers, limits and tabs: permits are     *)
(* neither kept nor given back twice; a settled query is over; results are *)
(* complete and in their tab; the row store holds rows of its own query;   *)
(* and Stop reaches the query that runs.                                   *)
(***************************************************************************)
EXTENDS QueryRuntime, TLAPS, FiniteSetTheorems, SequenceTheorems

JobsTyped ==
    /\ job \in [Query -> {"idle", "over"} \cup HoldsPermit]
    /\ on \in [Query -> Conn]
    /\ request \in [Query -> {"none", "execute", "stream"}]
    /\ reply \in [Query -> {"none", "ok", "error"}]
    /\ total \in Nat
    /\ perConn \in [Conn -> Nat]

CallsShaped ==
    /\ DOMAIN query = Query
    /\ \A q \in Query : {"kind", "phase"} \subseteq DOMAIN query[q]

\* How a command is asked for, admitted and answered while its call goes through its
\* phases: who asks holds no permit.
Quiet(q) == request[q] = "none" /\ reply[q] = "none"

Handshake(q) ==
    /\ query[q].phase \in {"none", "statement", "starting", "listening", "live", "dead"}
    /\ query[q].phase = "none" => Quiet(q) /\ job[q] = "idle"
    /\ query[q].phase = "statement" =>
          \/ request[q] = "execute" /\ reply[q] = "none" /\ job[q] = "idle"
          \/ Quiet(q) /\ job[q] = "executing"
          \/ request[q] = "none" /\ reply[q] # "none" /\ job[q] = "idle"
    /\ query[q].phase = "starting" =>
          \/ request[q] = "stream" /\ reply[q] = "none" /\ job[q] = "idle"
          \/ request[q] = "none" /\ reply[q] # "none" /\ job[q] # "executing"
    /\ query[q].phase \in {"listening", "live", "dead"} =>
          /\ Quiet(q) /\ job[q] # "executing"
          /\ query[q].phase = "listening" /\ query[q].kind = "agent" => job[q] = "idle"

Handshakes == \A q \in Query : Handshake(q)

\* What is run again is a query.
TabsShaped ==
    /\ active \in Tab
    /\ DOMAIN tab = Tab
    /\ \A t \in Tab : "base" \in DOMAIN tab[t] /\ tab[t].base \in Query \cup {NoQuery}

IInv == JobsTyped /\ CallsShaped /\ TabsShaped /\ Handshakes /\ PermitsMatch

-----------------------------------------------------------------------------
\* Counting.

\* There are finitely many queries, so who holds a permit can be counted.
LEMMA HoldersFinite ==
    IsFiniteSet(Holders) /\ \A c \in Conn : IsFiniteSet(HoldersOn(c))
  BY NativeAssumption, FS_Subset DEF Holders, HoldersOn

\* A query that is admitted.
LEMMA Enters ==
    ASSUME JobsTyped, PermitsMatch, NEW q \in Query, job[q] \notin HoldsPermit,
           NEW new \in HoldsPermit, job' = [job EXCEPT ![q] = new], UNCHANGED on, Acquire(q)
    PROVE  PermitsMatch' /\ total' \in Nat /\ perConn' \in [Conn -> Nat]
  <1>1. Holders' = Holders \cup {q} /\ q \notin Holders
    BY DEF Holders, JobsTyped
  <1>2. \A c \in Conn : HoldersOn(c)' = IF c = on[q] THEN HoldersOn(c) \cup {q} ELSE HoldersOn(c)
    BY <1>1 DEF HoldersOn, JobsTyped
  <1>3. Cardinality(Holders') = Cardinality(Holders) + 1
    BY <1>1, HoldersFinite, FS_AddElement
  <1>4. \A c \in Conn : Cardinality(HoldersOn(c)') =
          IF c = on[q] THEN Cardinality(HoldersOn(c)) + 1 ELSE Cardinality(HoldersOn(c))
    <2>1. \A c \in Conn : q \notin HoldersOn(c)
      BY <1>1 DEF HoldersOn
    <2>2. QED
      BY <1>2, <2>1, HoldersFinite, FS_AddElement
  <1>5. QED
    BY <1>3, <1>4 DEF PermitsMatch, Acquire, JobsTyped

\* A query whose task ends.
LEMMA Leaves ==
    ASSUME JobsTyped, PermitsMatch, NEW q \in Query, job[q] \in HoldsPermit,
           NEW new \in {"idle", "over"}, job' = [job EXCEPT ![q] = new], UNCHANGED on, Release(q)
    PROVE  PermitsMatch' /\ total' \in Nat /\ perConn' \in [Conn -> Nat]
  <1>1. Holders' = Holders \ {q} /\ q \in Holders
    BY DEF Holders, JobsTyped, HoldsPermit
  <1>2. \A c \in Conn : HoldersOn(c)' = IF c = on[q] THEN HoldersOn(c) \ {q} ELSE HoldersOn(c)
    BY <1>1 DEF HoldersOn, JobsTyped
  <1>3. Cardinality(Holders') = Cardinality(Holders) - 1 /\ Cardinality(Holders') \in Nat
    <2>1. IsFiniteSet(Holders \ {q}) /\ Cardinality(Holders \ {q}) = Cardinality(Holders) - 1
      BY <1>1, HoldersFinite, FS_RemoveElement
    <2>2. QED
      BY <1>1, <2>1, FS_CardinalityType
  <1>4. q \in HoldersOn(on[q]) /\ on[q] \in Conn
    BY <1>1 DEF HoldersOn, JobsTyped
  <1>5. /\ Cardinality(HoldersOn(on[q]) \ {q}) = Cardinality(HoldersOn(on[q])) - 1
        /\ Cardinality(HoldersOn(on[q]) \ {q}) \in Nat
    <2>1. /\ IsFiniteSet(HoldersOn(on[q]) \ {q})
          /\ Cardinality(HoldersOn(on[q]) \ {q}) = Cardinality(HoldersOn(on[q])) - 1
      BY <1>4, HoldersFinite, FS_RemoveElement
    <2>2. QED
      BY <2>1, FS_CardinalityType
  <1>6. total' = Cardinality(Holders') /\ total' \in Nat
    BY <1>3 DEF PermitsMatch, Release, JobsTyped
  <1>7. perConn' = [perConn EXCEPT ![on[q]] = Cardinality(HoldersOn(on[q]) \ {q})]
    <2> DEFINE n == Cardinality(HoldersOn(on[q]))
    <2>1. perConn[on[q]] = n /\ n \in Nat
      BY <1>4 DEF PermitsMatch, JobsTyped
    <2>2. Cardinality(HoldersOn(on[q]) \ {q}) = n - 1 /\ n - 1 \in Nat
      BY <1>5
    <2>3. (IF perConn[on[q]] = 0 THEN 0 ELSE perConn[on[q]] - 1) = n - 1
      <3> HIDE DEF n
      <3> QED
        BY <2>1, <2>2
    <2>4. QED
      BY <2>2, <2>3 DEF Release
  <1>8. QED
    BY <1>2, <1>4, <1>5, <1>6, <1>7 DEF PermitsMatch, JobsTyped

\* A query that keeps its permit, or has none.
LEMMA Keeps ==
    ASSUME JobsTyped, PermitsMatch, UNCHANGED <<total, perConn>>,
           \A q \in Query : /\ job'[q] \in HoldsPermit <=> job[q] \in HoldsPermit
                            /\ job[q] \in HoldsPermit => on'[q] = on[q]
    PROVE  PermitsMatch'
  <1>1. Holders' = Holders /\ \A c \in Conn : HoldersOn(c)' = HoldersOn(c)
    BY DEF Holders, HoldersOn
  <1>2. QED
    BY <1>1 DEF PermitsMatch

-----------------------------------------------------------------------------
\* The native side.

\* The native side takes a permit when it admits a query and gives it back when it is done.
LEMMA NativeKeeps == ASSUME IInv, NEW q \in Query, Native(q) PROVE IInv'
  <1> USE DEF IInv, CallsShaped, TabsShaped, Native, front
  <1>1. CASE Refuse(q)
    <2>1. JobsTyped' /\ Handshakes'
      BY <1>1 DEF Refuse, JobsTyped, Handshakes, Handshake, Quiet
    <2>2. PermitsMatch'
      BY <1>1, Keeps DEF Refuse
    <2>3. QED
      BY <2>1, <2>2, <1>1
  <1>2. CASE StartStatement(q)
    <2>1. job[q] \notin HoldsPermit
      BY <1>2 DEF StartStatement, Handshakes, Handshake, HoldsPermit, Quiet
    <2>2. PermitsMatch' /\ total' \in Nat /\ perConn' \in [Conn -> Nat]
      BY <1>2, <2>1, Enters DEF StartStatement, HoldsPermit
    <2>3. JobsTyped' /\ Handshakes'
      BY <1>2, <2>2 DEF StartStatement, JobsTyped, Handshakes, Handshake, Quiet, HoldsPermit
    <2>4. QED
      BY <2>2, <2>3, <1>2
  <1>3. CASE EndStatement(q)
    <2>1. PermitsMatch' /\ total' \in Nat /\ perConn' \in [Conn -> Nat]
      BY <1>3, Leaves DEF EndStatement, HoldsPermit
    <2>2. JobsTyped' /\ Handshakes'
      BY <1>3, <2>1 DEF EndStatement, JobsTyped, Handshakes, Handshake, Quiet, HoldsPermit
    <2>3. QED
      BY <2>1, <2>2, <1>3
  <1>4. CASE StartStream(q)
    <2>1. job[q] \notin HoldsPermit
      BY <1>4 DEF StartStream, Handshakes, Handshake, HoldsPermit, Quiet
    <2>2. PermitsMatch' /\ total' \in Nat /\ perConn' \in [Conn -> Nat]
      BY <1>4, <2>1, Enters DEF StartStream, HoldsPermit
    <2>3. JobsTyped' /\ Handshakes'
      BY <1>4, <2>2 DEF StartStream, JobsTyped, Handshakes, Handshake, Quiet, HoldsPermit
    <2>4. QED
      BY <2>2, <2>3, <1>4
  <1>5. CASE FlushUnlessCancelled(q) \/ Flush(q)
    <2>1. UNCHANGED <<job, on, request, reply, total, perConn>>
      BY <1>5 DEF FlushUnlessCancelled, Flush
    <2>2. PermitsMatch'
      BY <2>1, Keeps
    <2>3. QED
      BY <2>1, <2>2 DEF JobsTyped, Handshakes, Handshake, Quiet
  <1>6. CASE StopWhenFull(q) \/ StopOnRead(q) \/ LastBatch(q)
    <2>1. /\ UNCHANGED <<on, request, reply, total, perConn>>
          /\ job[q] = "streaming" /\ job' = [job EXCEPT ![q] = "recording"]
      BY <1>6 DEF StopWhenFull, StopOnRead, ObserveCancel, LastBatch, EndStream
    <2>2. PermitsMatch'
      BY <2>1, Keeps DEF JobsTyped, HoldsPermit
    <2>3. JobsTyped' /\ Handshakes'
      BY <2>1 DEF JobsTyped, Handshakes, Handshake, Quiet, HoldsPermit
    <2>4. QED
      BY <2>2, <2>3
  <1>7. CASE StreamFails(q) \/ TaskEnds(q)
    <2>1. /\ UNCHANGED <<on, request, reply>> /\ Release(q)
          /\ job[q] \in {"streaming", "recording"} /\ job' = [job EXCEPT ![q] = "over"]
      BY <1>7 DEF StreamFails, TaskEnds
    <2>2. PermitsMatch' /\ total' \in Nat /\ perConn' \in [Conn -> Nat]
      BY <2>1, Leaves DEF HoldsPermit
    <2>3. JobsTyped' /\ Handshakes'
      BY <2>1, <2>2 DEF JobsTyped, Handshakes, Handshake, Quiet, HoldsPermit
    <2>4. QED
      BY <2>2, <2>3
  <1>8. QED
    BY <1>1, <1>2, <1>3, <1>4, <1>5, <1>6, <1>7 DEF NativeStep
-----------------------------------------------------------------------------
\* The frontend.

\* A tab is shown executing or idle, gets a query to run or results.
TabStep ==
    \/ tab' = tab \/ tab' = Idle \/ tab' = [tab EXCEPT ![active].executing = TRUE]
    \/ \E q \in Query : tab' = Started(q)
    \/ \E q, r : tab' = ShowsIn(q, r)

\* Tabs and the query each is based on stay what they are.
LEMMA TabsStayShaped == ASSUME TabsShaped, TabStep, active' = active PROVE TabsShaped'
  <1> USE DEF TabsShaped
  <1>1. CASE tab' = tab
    BY <1>1
  <1>2. CASE tab' = Idle \/ tab' = [tab EXCEPT ![active].executing = TRUE]
    BY <1>2 DEF Idle
  <1>3. CASE \E q \in Query : tab' = Started(q)
    <2>1. PICK q \in Query : tab' = Started(q)
      BY <1>3
    <2>2. /\ DOMAIN tab' = Tab
          /\ \A t \in Tab \ {active} : tab'[t] = tab[t]
          /\ "base" \in DOMAIN tab'[active] /\ tab'[active].base = q
      BY <2>1 DEF Started
    <2>3. QED
      BY <2>2
  <1>4. CASE \E q, r : tab' = ShowsIn(q, r)
    <2>1. PICK q, r : tab' = ShowsIn(q, r)
      BY <1>4
    <2>2. \/ tab' = [tab EXCEPT ![query[q].home].results = r]
          \/ tab' = tab
          \/ tab' = [Idle EXCEPT ![active].results = r]
      BY <2>1 DEF ShowsIn
    <2>3. CASE tab' = [tab EXCEPT ![query[q].home].results = r]
      BY <2>3
    <2>4. CASE tab' = [Idle EXCEPT ![active].results = r]
      <3>1. /\ DOMAIN Idle = Tab
            /\ \A t \in Tab : "base" \in DOMAIN Idle[t] /\ Idle[t].base \in Query \cup {NoQuery}
        BY DEF Idle
      <3>2. QED
        BY <2>4, <3>1
    <2>5. QED
      BY <1>1, <2>2, <2>3, <2>4
  <1>5. QED
    BY <1>1, <1>2, <1>3, <1>4 DEF TabStep

\* The permits are untouched by all the frontend does.
ApartFrom(q) ==
    /\ UNCHANGED <<job, total, perConn>>
    /\ \A p \in Query \ {q} :
          /\ on'[p] = on[p] /\ request'[p] = request[p] /\ reply'[p] = reply[p]
          /\ query'[p].phase = query[p].phase /\ query'[p].kind = query[p].kind

\* A step of one call that takes and gives back no permit.
LEMMA OneCallStep ==
    ASSUME IInv, NEW q \in Query, ApartFrom(q), job[q] \in HoldsPermit => on'[q] = on[q],
           JobsTyped', CallsShaped', TabsShaped', Handshake(q)'
    PROVE  IInv'
  <1>1. PermitsMatch'
    BY Keeps DEF IInv, ApartFrom
  <1>2. Handshakes'
    BY DEF IInv, ApartFrom, Handshakes, Handshake, Quiet
  <1>3. QED
    BY <1>1, <1>2 DEF IInv

\* Nothing is asked and no call goes on.
LEMMA NoCallStep ==
    ASSUME IInv, UNCHANGED <<job, on, request, reply, total, perConn>>,
           CallsShaped', TabsShaped',
           \A q \in Query : query'[q].phase = query[q].phase /\ query'[q].kind = query[q].kind
    PROVE  IInv'
  <1>1. PermitsMatch'
    BY Keeps DEF IInv
  <1>2. JobsTyped' /\ Handshakes'
    BY DEF IInv, JobsTyped, Handshakes, Handshake, Quiet
  <1>3. QED
    BY <1>1, <1>2 DEF IInv

\* Settling a query leaves the others alone and gives it its phase.
LEMMA SettledKeeps ==
    ASSUME CallsShaped, NEW q, NEW phase, NEW outcome, query' = Settled(q, phase, outcome)
    PROVE  /\ CallsShaped'
           /\ \A p \in Query : p # q => query'[p] = query[p]
           /\ q \in Query => query'[q].phase = phase /\ query'[q].kind = query[q].kind
  <1> DEFINE first == [query EXCEPT ![q].phase = phase]
  <1>1. query' = [first EXCEPT ![q].outcome = IF first[q].outcome = "none" THEN outcome
                                                              ELSE first[q].outcome]
    BY DEF Settled
  <1> QED
    BY <1>1 DEF CallsShaped

\* A query that is launched had no task, so that no permit changes its connection.
LEMMA LaunchStep ==
    ASSUME IInv, NEW q \in Query, NEW c \in Conn, NEW kind, NEW base, NEW phase,
           Launch(q, c, kind, base, phase), TabStep,
           UNCHANGED <<job, reply, total, perConn, active>>,
           \/ phase = "statement" /\ request' = [request EXCEPT ![q] = "execute"]
           \/ phase = "starting" /\ request' = [request EXCEPT ![q] = "stream"]
           \/ phase = "listening" /\ UNCHANGED request
    PROVE  IInv'
  <1>1. query[q].phase = "none" /\ job[q] = "idle" /\ Quiet(q)
    BY DEF Launch, IInv, Handshakes, Handshake
  <1>2. CallsShaped' /\ ApartFrom(q) /\ query'[q].phase = phase
    BY DEF Launch, IInv, CallsShaped, JobsTyped, ApartFrom
  <1>3. JobsTyped'
    BY DEF Launch, IInv, JobsTyped
  <1>4. Handshake(q)'
    BY <1>1, <1>2 DEF Handshake, Quiet, IInv, JobsTyped
  <1>5. QED
    BY <1>1, <1>2, <1>3, <1>4, TabsStayShaped, OneCallStep DEF IInv, HoldsPermit

\* The ways to start a query are launches.
LEMMA BeginStep == ASSUME IInv, NEW q \in Query, Begin(q) PROVE IInv'
  <1>1. CASE \E c \in Conn : Run(q, c) \/ Explain(q, c)
    <2>1. PICK c \in Conn : Run(q, c) \/ Explain(q, c)
      BY <1>1
    <2>2. QED
      BY <2>1, LaunchStep DEF Run, Explain, TabStep
  <1>2. CASE \E c \in Conn : RunScript(q, c)
    BY <1>2, LaunchStep DEF RunScript, TabStep
  <1>3. CASE \E c \in Conn : AgentRuns(q, c)
    BY <1>3, LaunchStep DEF AgentRuns, TabStep
  <1>4. CASE \E c \in Conn : AgentAnalyses(q, c)
    BY <1>4, LaunchStep DEF AgentAnalyses, TabStep
  <1>5. CASE Reexecute(q)
    <2>1. on[tab[active].base] \in Conn
      BY <1>5 DEF Reexecute, IInv, TabsShaped, JobsTyped
    <2>2. QED
      BY <1>5, <2>1, LaunchStep DEF Reexecute, TabStep
  <1>6. QED
    BY <1>1, <1>2, <1>3, <1>4, <1>5 DEF Begin

\* A call that goes on takes the answer it awaited.
LEMMA ContinueStep == ASSUME IInv, NEW q \in Query, Continue(q) PROVE IInv'
  <1> USE DEF IInv, CallsShaped, JobsTyped, ApartFrom, Handshakes, Handshake, Quiet, TakeReply
  <1>1. CASE StatementReturns(q)
    <2>1. TabsShaped'
      BY <1>1, TabsStayShaped DEF StatementReturns, TabStep
    <2>2. CASE reply[q] = "ok"
      <3>1. /\ CallsShaped' /\ ApartFrom(q) /\ UNCHANGED on
            /\ query[q].phase = "statement" /\ query'[q].phase = "starting"
            /\ request' = [request EXCEPT ![q] = "stream"]
            /\ reply' = [reply EXCEPT ![q] = "none"]
        BY <1>1, <2>2 DEF StatementReturns, WithPhase
      <3>2. job[q] = "idle"
        BY <2>2, <3>1
      <3>3. JobsTyped'
        BY <3>1
      <3>4. Handshake(q)'
        BY <3>1, <3>2
      <3>5. QED
        BY <2>1, <3>1, <3>3, <3>4, OneCallStep
    <2>3. CASE reply[q] = "error"
      <3>1. /\ query' = Settled(q, "dead", "failed")
            /\ UNCHANGED <<on, request, job, total, perConn>>
            /\ reply' = [reply EXCEPT ![q] = "none"]
            /\ query[q].phase = "statement"
        BY <1>1, <2>3 DEF StatementReturns
      <3>2. /\ CallsShaped' /\ query'[q].phase = "dead"
            /\ \A p \in Query \ {q} : query'[p] = query[p]
        BY <3>1, SettledKeeps
      <3>3. ApartFrom(q)
        BY <3>1, <3>2
      <3>4. JobsTyped'
        BY <3>1
      <3>5. job[q] = "idle" /\ request[q] = "none"
        BY <2>3, <3>1
      <3>6. Handshake(q)'
        BY <3>1, <3>2, <3>5
      <3>7. QED
        BY <2>1, <3>1, <3>2, <3>3, <3>4, <3>6, OneCallStep
    <2>4. QED
      BY <1>1, <2>2, <2>3 DEF StatementReturns
  <1>2. CASE StartReturns(q)
    <2>1. TabsShaped'
      BY <1>2, TabsStayShaped DEF StartReturns, TabStep
    <2>2. QED
      BY <1>2, <2>1, OneCallStep DEF StartReturns, WithPhase
  <1>3. CASE StartFails(q)
    <2>1. TabsShaped'
      BY <1>3, TabsStayShaped DEF StartFails, TabStep
    <2>2. QED
      BY <1>3, <2>1, OneCallStep DEF StartFails, Settled
  <1>4. CASE Register(q)
    <2>1. TabsShaped'
      BY <1>4, TabsStayShaped DEF Register, TabStep, front
    <2>2. QED
      BY <1>4, <2>1, NoCallStep DEF Register, front
  <1>5. CASE ListenReturns(q)
    <2>1. TabsShaped'
      BY <1>5, TabsStayShaped DEF ListenReturns, TabStep
    <2>2. QED
      BY <1>5, <2>1, OneCallStep DEF ListenReturns, WithPhase
  <1>6. QED
    BY <1>1, <1>2, <1>3, <1>4, <1>5 DEF Continue

\* An event that is delivered asks for nothing.
LEMMA DeliverStep == ASSUME IInv, Deliver PROVE IInv'
  <1> DEFINE q == Head(events).query
             k == Head(events).batch
  <1>1. \/ UNCHANGED <<query, tab>>
        \/ query' = Heard(q, k) /\ UNCHANGED tab
        \/ Completes(q, k)
        \/ Fails(q)
    BY DEF Deliver
  <1>2. UNCHANGED <<job, on, request, reply, total, perConn, active>>
    BY DEF Deliver
  <1> HIDE DEF q, k
  <1>3. TabStep
    BY <1>1 DEF TabStep, Completes, Fails
  <1>4. /\ CallsShaped'
        /\ \A p \in Query : query'[p].phase = query[p].phase /\ query'[p].kind = query[p].kind
    <2>1. CASE UNCHANGED query
      BY <2>1 DEF IInv, CallsShaped
    <2>2. CASE query' = Heard(q, k)
      BY <2>2 DEF IInv, CallsShaped, Heard
    <2>3. CASE Completes(q, k)
      BY <2>3 DEF IInv, CallsShaped, Completes, Settled
    <2>4. CASE Fails(q)
      BY <2>4 DEF IInv, CallsShaped, Fails, Settled
    <2>5. QED
      BY <1>1, <2>1, <2>2, <2>3, <2>4
  <1>5. QED
    BY <1>2, <1>3, <1>4, TabsStayShaped, NoCallStep DEF IInv

\* Stop, time-outs and tab changes leave what was asked and answered alone.
LEMMA OtherStep ==
    ASSUME IInv, \/ Stop \/ ServeCancel \/ StopReturns \/ AgentCancels \/ Hydrate
                 \/ (\E q \in Query : AgentTimesOut(q)) \/ (\E t \in Tab : SwitchTab(t))
                 \/ UNCHANGED vars
    PROVE  IInv'
  <1>1. UNCHANGED <<job, on, request, reply, total, perConn>>
    BY DEF Stop, ServeCancel, StopReturns, AgentCancels, Hydrate, AgentTimesOut, SwitchTab,
           vars, native
  <1>2. \/ UNCHANGED query
        \/ \E q, outcome : query' = Settled(q, query[q].phase, outcome)
    BY DEF Stop, StopHandle, StopNothing, ServeCancel, StopReturns, AgentCancels, Hydrate,
           AgentTimesOut, SwitchTab, vars, front
  <1>3. /\ CallsShaped'
        /\ \A p \in Query : query'[p].phase = query[p].phase /\ query'[p].kind = query[p].kind
    <2>1. CASE UNCHANGED query
      BY <2>1 DEF IInv, CallsShaped
    <2>2. CASE \E q, outcome : query' = Settled(q, query[q].phase, outcome)
      <3>1. PICK q, outcome : query' = Settled(q, query[q].phase, outcome)
        BY <2>2
      <3>2. QED
        BY <3>1, SettledKeeps DEF IInv
    <2>3. QED
      BY <1>2, <2>1, <2>2
  <1>4. \/ TabStep /\ active' = active
        \/ UNCHANGED tab /\ active' \in Tab
    BY DEF Stop, StopHandle, StopNothing, ServeCancel, StopReturns, AgentCancels, Hydrate,
           AgentTimesOut, SwitchTab, vars, front, TabStep
  <1>5. TabsShaped'
    BY <1>4, TabsStayShaped DEF IInv, TabsShaped
  <1>6. QED
    BY <1>1, <1>3, <1>5, NoCallStep

-----------------------------------------------------------------------------
\* At the start nobody holds a permit.
LEMMA InitIInv == Init => IInv
  <1> SUFFICES ASSUME Init PROVE IInv
    OBVIOUS
  <1>1. JobsTyped
    BY NativeAssumption DEF Init, NativeInit, JobsTyped
  <1>2. CallsShaped /\ Handshakes
    BY DEF Init, NativeInit, CallsShaped, Handshakes, Handshake, Quiet
  <1>3. TabsShaped
    BY RuntimeAssumption DEF Init, TabsShaped, FirstTab
  <1>4. Holders = {} /\ \A c \in Conn : HoldersOn(c) = {}
    BY DEF Init, NativeInit, Holders, HoldersOn, HoldsPermit
  <1>5. PermitsMatch
    BY <1>4, FS_EmptySet DEF Init, NativeInit, PermitsMatch
  <1>6. QED
    BY <1>1, <1>2, <1>3, <1>5 DEF IInv

\* Every step keeps the invariant.
LEMMA NextIInv == ASSUME IInv, [Next]_vars PROVE IInv'
  <1>1. CASE \E q \in Query : Begin(q) \/ Native(q) \/ Continue(q)
    BY <1>1, BeginStep, NativeKeeps, ContinueStep
  <1>2. CASE Deliver
    BY <1>2, DeliverStep
  <1>3. QED
    BY <1>1, <1>2, OtherStep DEF Next

\* Whatever is refused, fails, is cancelled or times out, and in whatever order, the two
\* counters of permits are the queries at work (security.rs 40-110).
THEOREM Permits == Spec => []PermitsMatch
  <1>1. Init => IInv
    BY InitIInv
  <1>2. IInv /\ [Next]_vars => IInv'
    BY NextIInv
  <1>3. IInv => PermitsMatch
    BY DEF IInv
  <1>4. QED
    BY <1>1, <1>2, <1>3, PTL DEF Spec

-----------------------------------------------------------------------------
(* A query that is settled stays as it is: who is settled has stopped to   *)
(* listen, or has heard its last batch.                                    *)

Event == [query : Query, kind : {"rows", "final", "error"}, batch : Nat]

\* The last batch of a query was emitted.
Past == {"recording", "over"}

\* Nothing of a query follows its last batch.
LastIsLast ==
    /\ events \in Seq(Event)
    /\ \A k \in 1 .. Len(events) : events[k].kind # "rows" =>
          /\ job[events[k].query] \in Past
          /\ \A m \in 1 .. Len(events) : m > k => events[m].query # events[k].query

CallsFull ==
    /\ CallsShaped
    /\ \A q \in Query : {"rows", "outcome"} \subseteq DOMAIN query[q]

ResultsShaped ==
    /\ DOMAIN tab = Tab
    /\ \A t \in Tab : "results" \in DOMAIN tab[t]

HandleIsLive == handle = NoQuery \/ (handle \in Query /\ query[handle].phase = "live")

\* Who is settled does not listen and will not, or has nothing to hear.
Deaf(q) == /\ q \notin listeners
           /\ query[q].phase \in {"live", "dead"} \/ (query[q].phase = "starting" /\ query[q].kind = "agent")
Silent(q) == job[q] \in Past /\ \A k \in 1 .. Len(events) : events[k].query # q

CallSettles(q) ==
    /\ query[q].phase = "none" => query[q].kind = "none"
    /\ query[q].phase \in {"none", "statement", "starting"} /\ query[q].kind # "agent"
          => q \notin listeners
    /\ query[q].phase \in {"none", "statement"} => query[q].outcome = "none" /\ q \notin listeners
    /\ query[q].outcome # "none" => Deaf(q) \/ Silent(q)

SInv ==
    /\ sent \in [Query -> Nat]
    /\ LastIsLast /\ CallsFull /\ ResultsShaped /\ HandleIsLive
    /\ \A q \in Query : CallSettles(q)

\* What SettledIsSilent says of a step.
Frozen == \A q \in Query : query[q].outcome # "none" =>
              query'[q].outcome = query[q].outcome /\ query'[q].rows = query[q].rows
SameResults == \A t \in Tab : tab'[t].results = tab[t].results
StaysSettled ==
    /\ Frozen
    /\ \A q \in Query : query[q].outcome # "none" =>
          \A t \in Tab : tab'[t].results.query = q => tab[t].results = tab'[t].results

\* Events are of queries.
LEMMA EventsNamed ==
    ASSUME LastIsLast
    PROVE  \A k \in 1 .. Len(events) : events[k] \in Event /\ events[k].query \in Query
  <1>1. \A k \in 1 .. Len(events) : events[k] \in Event
    BY DEF LastIsLast
  <1>2. QED
    BY <1>1 DEF Event

\* The native side works on a query without a word.
LEMMA QuietNativeSettles ==
    ASSUME SInv, UNCHANGED <<front, listeners, events>>, sent' \in [Query -> Nat],
           \A p \in Query : job[p] \in Past => job'[p] \in Past
    PROVE  SInv'
  <1>1. LastIsLast'
    <2>1. \A k \in 1 .. Len(events) : events[k].query \in Query
      BY EventsNamed DEF SInv
    <2>2. QED
      BY <2>1 DEF SInv, LastIsLast
  <1>2. \A p \in Query : Silent(p) => Silent(p)'
    BY DEF Silent
  <1>3. \A p \in Query : CallSettles(p)'
    BY <1>2 DEF SInv, CallSettles, Deaf, front
  <1>4. CallsFull' /\ ResultsShaped' /\ HandleIsLive'
    BY DEF SInv, CallsFull, CallsShaped, ResultsShaped, HandleIsLive, front
  <1>5. QED
    BY <1>1, <1>3, <1>4 DEF SInv

\* It emits a batch of a query whose last one is yet to come.
LEMMA EmitSettles ==
    ASSUME SInv, JobsTyped, UNCHANGED <<front, listeners>>,
           NEW q \in Query, job[q] = "streaming", NEW kind \in {"rows", "final", "error"},
           Emit(q, kind), kind # "rows" => job'[q] \in Past,
           \A p \in Query \ {q} : job'[p] = job[p]
    PROVE  SInv'
  <1> DEFINE e == [query |-> q, kind |-> kind, batch |-> sent[q] + 1]
  <1>1. e \in Event /\ e.query = q /\ e.kind = kind /\ sent' \in [Query -> Nat]
    BY DEF Event, SInv, Emit
  <1>2. events' = events \/ (q \in listeners /\ events' = Append(events, e))
    BY DEF Emit
  <1> HIDE DEF e
  <1>3. \A k \in 1 .. Len(events) : events[k] \in Event /\ (events[k].kind # "rows" => events[k].query # q)
    BY DEF SInv, LastIsLast, Past
  <1>4. \A p \in Query : job[p] \in Past => job'[p] = job[p] /\ p # q
    BY DEF Past
  <1>5. CASE events' = events
    <2>1. \A p \in Query : job[p] \in Past => job'[p] \in Past
      BY <1>4
    <2>2. UNCHANGED <<front, listeners, events>>
      BY <1>5
    <2>3. QED
      BY <1>1, <2>1, <2>2, QuietNativeSettles
  <1>6. CASE q \in listeners /\ events' = Append(events, e)
    <2>1. /\ events' \in Seq(Event) /\ Len(events') = Len(events) + 1 /\ Len(events) \in Nat
          /\ events'[Len(events) + 1] = e
          /\ \A k \in 1 .. Len(events) : events'[k] = events[k]
      BY <1>1, <1>6 DEF SInv, LastIsLast
    <2>2. LastIsLast'
      <3>1. SUFFICES ASSUME NEW k \in 1 .. Len(events'), events'[k].kind # "rows"
                     PROVE  /\ job'[events'[k].query] \in Past
                            /\ \A m \in 1 .. Len(events') : m > k => events'[m].query # events'[k].query
        BY <2>1 DEF LastIsLast
      <3>2. CASE k = Len(events) + 1
        BY <1>1, <2>1, <3>1, <3>2
      <3>3. CASE k \in 1 .. Len(events)
        <4>1. /\ events'[k] = events[k] /\ events[k].query # q /\ events[k].query \in Query
              /\ job[events[k].query] \in Past
          BY <1>3, <2>1, <3>1, <3>3 DEF SInv, LastIsLast, Event
        <4>2. \A m \in 1 .. Len(events) : m > k => events[m].query # events[k].query
          BY <2>1, <3>1, <3>3 DEF SInv, LastIsLast
        <4>3. job'[events'[k].query] \in Past
          BY <1>4, <4>1
        <4>4. \A m \in 1 .. Len(events') : m > k => events'[m].query # events'[k].query
          <5>1. SUFFICES ASSUME NEW m \in 1 .. Len(events'), m > k
                         PROVE  events'[m].query # events'[k].query
            OBVIOUS
          <5>2. CASE m = Len(events) + 1
            BY <1>1, <2>1, <4>1, <5>2
          <5>3. CASE m \in 1 .. Len(events)
            BY <2>1, <4>1, <4>2, <5>1, <5>3
          <5>4. QED
            BY <2>1, <5>1, <5>2, <5>3
        <4>5. QED
          BY <4>3, <4>4
      <3>4. QED
        BY <2>1, <3>2, <3>3
    <2>3. \A p \in Query : Silent(p) => Silent(p)'
      BY <1>1, <1>4, <2>1 DEF Silent
    <2>4. \A p \in Query : CallSettles(p)'
      BY <2>3 DEF SInv, CallSettles, Deaf, front
    <2>5. QED
      BY <1>1, <2>2, <2>4 DEF SInv, CallsFull, CallsShaped, ResultsShaped, HandleIsLive, front
  <1>7. QED
    BY <1>2, <1>5, <1>6

\* Whatever the native side does.
LEMMA NativeSettles == ASSUME SInv, IInv, NEW q \in Query, Native(q) PROVE SInv'
  <1> USE DEF Native, IInv
  <1>1. CASE Refuse(q) \/ StartStatement(q) \/ EndStatement(q) \/ StartStream(q) \/ TaskEnds(q)
    <2>1. \/ UNCHANGED job
          \/ job[q] \notin Past /\ \A p \in Query \ {q} : job'[p] = job[p]
          \/ job' = [job EXCEPT ![q] = "over"]
      BY <1>1 DEF Refuse, StartStatement, EndStatement, StartStream, TaskEnds, Handshakes,
                  Handshake, Quiet, JobsTyped, Past
    <2>2. \A p \in Query : job[p] \in Past => job'[p] \in Past
      BY <2>1 DEF JobsTyped, Past
    <2>3. UNCHANGED <<listeners, events>> /\ sent' \in [Query -> Nat]
      BY <1>1 DEF Refuse, StartStatement, EndStatement, StartStream, TaskEnds, SInv
    <2>4. UNCHANGED <<front, listeners, events>>
      BY <2>3
    <2>5. QED
      BY <2>2, <2>3, <2>4, QuietNativeSettles
  <1>2. CASE FlushUnlessCancelled(q) \/ Flush(q)
    <2>1. job[q] = "streaming" /\ Emit(q, "rows") /\ UNCHANGED <<job, listeners>>
      BY <1>2 DEF FlushUnlessCancelled, Flush
    <2>2. UNCHANGED <<front, listeners>>
      BY <2>1
    <2>3. QED
      BY <2>1, <2>2, EmitSettles
  <1>3. CASE StopWhenFull(q) \/ StopOnRead(q) \/ LastBatch(q)
    <2>1. /\ job[q] = "streaming" /\ Emit(q, "final") /\ UNCHANGED listeners
          /\ job' = [job EXCEPT ![q] = "recording"]
      BY <1>3 DEF StopWhenFull, StopOnRead, ObserveCancel, LastBatch, EndStream
    <2>2. UNCHANGED <<front, listeners>>
      BY <2>1
    <2>3. job'[q] \in Past /\ \A p \in Query \ {q} : job'[p] = job[p]
      BY <2>1 DEF JobsTyped, Past
    <2>4. QED
      BY <2>1, <2>2, <2>3, EmitSettles
  <1>4. CASE StreamFails(q)
    <2>1. /\ job[q] = "streaming" /\ Emit(q, "error") /\ UNCHANGED listeners
          /\ job' = [job EXCEPT ![q] = "over"]
      BY <1>4 DEF StreamFails
    <2>2. UNCHANGED <<front, listeners>>
      BY <2>1
    <2>3. job'[q] \in Past /\ \A p \in Query \ {q} : job'[p] = job[p]
      BY <2>1 DEF JobsTyped, Past
    <2>4. QED
      BY <2>1, <2>2, <2>3, EmitSettles
  <1>5. QED
    BY <1>1, <1>2, <1>3, <1>4 DEF NativeStep

-----------------------------------------------------------------------------
\* The frontend.

\* The step of one call.
LEMMA OneCallSettles ==
    ASSUME SInv, NEW q, UNCHANGED <<job, events, sent>>, CallsFull', ResultsShaped', HandleIsLive',
           \A p \in Query \ {q} : /\ query'[p].phase = query[p].phase
                                  /\ query'[p].kind = query[p].kind
                                  /\ query'[p].outcome = query[p].outcome
                                  /\ p \in listeners' <=> p \in listeners,
           q \in Query => CallSettles(q)'
    PROVE  SInv'
  <1>1. LastIsLast'
    BY DEF SInv, LastIsLast
  <1>2. \A p \in Query : Silent(p) => Silent(p)'
    BY DEF Silent
  <1>3. \A p \in Query : CallSettles(p)'
    BY <1>2 DEF SInv, CallSettles, Deaf
  <1>4. QED
    BY <1>1, <1>3 DEF SInv

\* A tab keeps its results unless some are put there.
KeepsResults ==
    \/ tab' = tab \/ tab' = Idle \/ tab' = [tab EXCEPT ![active].executing = TRUE]
    \/ \E q \in Query : tab' = Started(q)

\* A step that leaves every tab's results alone keeps their shape.
LEMMA ResultsKept == ASSUME ResultsShaped, KeepsResults PROVE ResultsShaped' /\ SameResults
  <1> USE DEF ResultsShaped, SameResults
  <1>1. CASE tab' = tab
    BY <1>1
  <1>2. CASE tab' = Idle \/ tab' = [tab EXCEPT ![active].executing = TRUE]
    BY <1>2 DEF Idle
  <1>3. CASE \E q \in Query : tab' = Started(q)
    <2>1. PICK q \in Query : tab' = Started(q)
      BY <1>3
    <2>2. QED
      BY <2>1 DEF Started
  <1>4. QED
    BY <1>1, <1>2, <1>3 DEF KeepsResults

\* Settling a call changes its phase and its outcome, the latter only once.
LEMMA SettlesOnce ==
    ASSUME CallsFull, NEW q, NEW phase, NEW outcome, query' = Settled(q, phase, outcome)
    PROVE  /\ CallsFull' /\ Frozen
           /\ \A p \in Query \ {q} : query'[p] = query[p]
           /\ q \in Query => /\ query'[q].phase = phase /\ query'[q].kind = query[q].kind
                             /\ query'[q].rows = query[q].rows
  <1> DEFINE first == [query EXCEPT ![q].phase = phase]
  <1>1. query' = [first EXCEPT ![q].outcome = IF first[q].outcome = "none" THEN outcome
                                                              ELSE first[q].outcome]
    BY DEF Settled
  <1> QED
    BY <1>1 DEF CallsFull, CallsShaped, Frozen

\* A query that is launched was not settled and does not listen.
LEMMA LaunchSettles ==
    ASSUME SInv, NEW q \in Query, NEW c, NEW kind, NEW base, NEW phase \in {"statement", "starting", "listening"},
           Launch(q, c, kind, base, phase), KeepsResults,
           UNCHANGED <<job, events, sent, listeners, handle>>
    PROVE  SInv' /\ StaysSettled
  <1>1. /\ query[q].phase = "none"
        /\ query' = [query EXCEPT ![q] = [@ EXCEPT !.kind = kind, !.home = active,
                                                   !.base = base, !.phase = phase]]
    BY DEF Launch
  <1>2. CallsFull' /\ Frozen
    BY <1>1 DEF SInv, CallsFull, CallsShaped, Frozen
  <1>3. query'[q].phase = phase /\ query'[q].outcome = query[q].outcome /\ query'[q].kind = kind
    BY <1>1 DEF SInv, CallsFull, CallsShaped
  <1>4. \A p \in Query \ {q} : query'[p] = query[p]
    BY <1>1 DEF SInv, CallsFull, CallsShaped
  <1>5. HandleIsLive'
    BY <1>1, <1>4 DEF SInv, HandleIsLive
  <1>6. CallSettles(q)'
    BY <1>1, <1>3 DEF SInv, CallSettles
  <1>7. ResultsShaped' /\ SameResults
    BY ResultsKept DEF SInv
  <1>8. SInv'
    BY <1>2, <1>4, <1>5, <1>6, <1>7, OneCallSettles
  <1>9. QED
    BY <1>2, <1>7, <1>8 DEF StaysSettled, SameResults

\* Executing a query (runner.ts) starts a query of its own and unsettles none.
LEMMA BeginSettles == ASSUME SInv, NEW q \in Query, Begin(q) PROVE SInv' /\ StaysSettled
  <1>1. CASE \E c \in Conn : Run(q, c) \/ Explain(q, c)
    <2>1. PICK c \in Conn : Run(q, c) \/ Explain(q, c)
      BY <1>1
    <2>2. QED
      BY <2>1, LaunchSettles DEF Run, Explain, KeepsResults
  <1>2. CASE \E c \in Conn : RunScript(q, c)
    BY <1>2, LaunchSettles DEF RunScript, KeepsResults
  <1>3. CASE \E c \in Conn : AgentRuns(q, c)
    BY <1>3, LaunchSettles DEF AgentRuns, KeepsResults
  <1>4. CASE \E c \in Conn : AgentAnalyses(q, c)
    BY <1>4, LaunchSettles DEF AgentAnalyses, KeepsResults
  <1>5. CASE Reexecute(q)
    BY <1>5, LaunchSettles DEF Reexecute, KeepsResults
  <1>6. QED
    BY <1>1, <1>2, <1>3, <1>4, <1>5 DEF Begin

\* A call that goes on: one that fails is not listened to, one that has settled while its
\* listener was registered has no batch to come.
LEMMA ContinueSettles == ASSUME SInv, IInv, NEW q \in Query, Continue(q) PROVE SInv' /\ StaysSettled
  <1> USE DEF SInv
  <1>1. CASE StatementReturns(q)
    <2>1. /\ UNCHANGED <<job, events, sent, listeners, handle>> /\ KeepsResults
          /\ query[q].phase = "statement"
          /\ query' = WithPhase(q, "starting") \/ query' = Settled(q, "dead", "failed")
      BY <1>1 DEF StatementReturns, KeepsResults
    <2>2. ResultsShaped' /\ SameResults
      BY <2>1, ResultsKept
    <2>3. /\ CallsFull' /\ Frozen /\ \A p \in Query \ {q} : query'[p] = query[p]
          /\ query'[q].kind = query[q].kind
          /\ \/ query'[q].phase = "starting" /\ query'[q].outcome = query[q].outcome
             \/ query'[q].phase = "dead"
      <3>1. CASE query' = WithPhase(q, "starting")
        BY <3>1 DEF WithPhase, CallsFull, CallsShaped, Frozen
      <3>2. CASE query' = Settled(q, "dead", "failed")
        BY <3>2, SettlesOnce
      <3>3. QED
        BY <2>1, <3>1, <3>2
    <2>4. HandleIsLive'
      BY <2>1, <2>3 DEF HandleIsLive
    <2>5. CallSettles(q)'
      BY <2>1, <2>3 DEF CallSettles, Deaf
    <2>6. SInv'
      BY <2>1, <2>2, <2>3, <2>4, <2>5, OneCallSettles
    <2>7. QED
      BY <2>2, <2>3, <2>6 DEF StaysSettled, SameResults
  <1>2. CASE StartReturns(q)
    <2>1. /\ UNCHANGED <<job, events, sent, listeners, handle, tab>>
          /\ query[q].phase = "starting"
          /\ query' = WithPhase(q, IF query[q].kind = "agent" THEN "live" ELSE "listening")
      BY <1>2 DEF StartReturns
    <2>2. CallsFull' /\ Frozen /\ \A p \in Query \ {q} : query'[p] = query[p]
      BY <2>1 DEF WithPhase, CallsFull, CallsShaped, Frozen
    <2>3. /\ query'[q].kind = query[q].kind /\ query'[q].outcome = query[q].outcome
          /\ query'[q].phase = IF query[q].kind = "agent" THEN "live" ELSE "listening"
      BY <2>1 DEF WithPhase, CallsFull, CallsShaped
    <2>4. ResultsShaped' /\ SameResults
      BY <2>1 DEF ResultsShaped, SameResults
    <2>5. HandleIsLive'
      BY <2>1, <2>2 DEF HandleIsLive
    <2>6. CallSettles(q)'
      BY <2>1, <2>3 DEF CallSettles, Deaf, Silent
    <2>7. SInv'
      BY <2>1, <2>2, <2>4, <2>5, <2>6, OneCallSettles
    <2>8. QED
      BY <2>2, <2>4, <2>7 DEF StaysSettled, SameResults
  <1>3. CASE StartFails(q)
    <2>1. /\ UNCHANGED <<job, events, sent>> /\ KeepsResults
          /\ query[q].phase = "starting" /\ query' = Settled(q, "dead", "failed")
          /\ listeners' = (IF query[q].kind = "agent" THEN listeners \ {q} ELSE listeners)
          /\ handle' \in {handle, NoQuery}
      BY <1>3 DEF StartFails, KeepsResults
    <2>2. /\ CallsFull' /\ Frozen /\ \A p \in Query \ {q} : query'[p] = query[p]
          /\ query'[q].phase = "dead"
      BY <2>1, SettlesOnce
    <2>3. ResultsShaped' /\ SameResults
      BY <2>1, ResultsKept
    <2>4. HandleIsLive'
      BY <2>1, <2>2 DEF HandleIsLive
    <2>5. q \notin listeners'
      BY <2>1 DEF CallSettles
    <2>6. CallSettles(q)'
      BY <2>2, <2>5 DEF CallSettles, Deaf
    <2>7. SInv'
      BY <2>1, <2>2, <2>3, <2>4, <2>6, OneCallSettles
    <2>8. QED
      BY <2>2, <2>3, <2>7 DEF StaysSettled, SameResults
  <1>4. CASE Register(q)
    <2>1. /\ UNCHANGED <<job, events, sent, query, tab, handle>>
          /\ query[q].phase = "listening" /\ listeners' = listeners \cup {q}
      BY <1>4 DEF Register, front
    <2>2. CallsFull' /\ HandleIsLive' /\ ResultsShaped' /\ SameResults /\ Frozen
      BY <2>1 DEF CallsFull, CallsShaped, HandleIsLive, ResultsShaped, SameResults, Frozen
    <2>3. CallSettles(q)'
      BY <2>1 DEF CallSettles, Deaf, Silent
    <2>4. SInv'
      BY <2>1, <2>2, <2>3, OneCallSettles
    <2>5. QED
      BY <2>2, <2>4 DEF StaysSettled, SameResults
  <1>5. CASE ListenReturns(q)
    <2>1. /\ UNCHANGED <<job, events, sent, listeners, tab>>
          /\ query[q].phase = "listening"
          /\ query' = WithPhase(q, IF query[q].kind = "agent" THEN "starting" ELSE "live")
          /\ handle' = IF query[q].kind = "run" THEN q ELSE handle
      BY <1>5 DEF ListenReturns
    <2>2. CallsFull' /\ Frozen /\ \A p \in Query \ {q} : query'[p] = query[p]
      BY <2>1 DEF WithPhase, CallsFull, CallsShaped, Frozen
    <2>3. /\ query'[q].kind = query[q].kind /\ query'[q].outcome = query[q].outcome
          /\ query'[q].phase = IF query[q].kind = "agent" THEN "starting" ELSE "live"
      BY <2>1 DEF WithPhase, CallsFull, CallsShaped
    <2>4. ResultsShaped' /\ SameResults
      BY <2>1 DEF ResultsShaped, SameResults
    <2>5. HandleIsLive'
      BY <2>1, <2>2, <2>3 DEF HandleIsLive
    <2>6. CallSettles(q)'
      BY <2>1, <2>3 DEF CallSettles, Deaf, Silent
    <2>7. SInv'
      BY <2>1, <2>2, <2>4, <2>5, <2>6, OneCallSettles
    <2>8. QED
      BY <2>2, <2>4, <2>7 DEF StaysSettled, SameResults
  <1>6. QED
    BY <1>1, <1>2, <1>3, <1>4, <1>5 DEF Continue

\* The oldest event is of a query that is not settled, if it is heard at all.
LEMMA WhoHearsIsNotSettled ==
    ASSUME SInv, events # <<>>, NEW q \in Query, q = Head(events).query, Hears(q)
    PROVE  query[q].outcome = "none"
  <1>1. 1 \in 1 .. Len(events) /\ events[1] = Head(events)
    BY DEF SInv, LastIsLast
  <1>2. ~Deaf(q)
    BY DEF Hears, Deaf
  <1>3. ~Silent(q)
    BY <1>1 DEF Silent
  <1>4. QED
    BY <1>2, <1>3 DEF SInv, CallSettles

\* What is left of the events after the oldest.
LEMMA EventsAdvance ==
    ASSUME SInv, events # <<>>, events' = Tail(events), UNCHANGED job
    PROVE  /\ LastIsLast' /\ \A p \in Query : Silent(p) => Silent(p)'
           /\ \E q \in Query : q = Head(events).query /\ (Head(events).kind # "rows" => Silent(q)')
  <1>1. /\ events \in Seq(Event) /\ Len(events) \in Nat /\ Len(events) > 0
        /\ events' \in Seq(Event) /\ Len(events') = Len(events) - 1
        /\ \A k \in 1 .. Len(events') : k + 1 \in 1 .. Len(events) /\ events'[k] = events[k + 1]
        /\ Head(events) = events[1] /\ 1 \in 1 .. Len(events)
    BY DEF SInv, LastIsLast
  <1>2. LastIsLast'
    <2>1. SUFFICES ASSUME NEW k \in 1 .. Len(events'), events'[k].kind # "rows"
                   PROVE  /\ job[events'[k].query] \in Past
                          /\ \A m \in 1 .. Len(events') : m > k => events'[m].query # events'[k].query
      BY <1>1 DEF LastIsLast
    <2>2. k + 1 \in 1 .. Len(events) /\ events'[k] = events[k + 1]
      BY <1>1, <2>1
    <2>3. /\ job[events[k + 1].query] \in Past
          /\ \A m \in 1 .. Len(events) : m > k + 1 => events[m].query # events[k + 1].query
      BY <2>1, <2>2 DEF SInv, LastIsLast
    <2>4. \A m \in 1 .. Len(events') : m > k => events'[m].query # events[k + 1].query
      BY <1>1, <2>2, <2>3
    <2>5. QED
      BY <2>2, <2>3, <2>4
  <1>3. \A p \in Query : Silent(p) => Silent(p)'
    BY <1>1 DEF Silent
  <1>4. PICK q \in Query : q = Head(events).query
    BY <1>1, EventsNamed DEF SInv
  <1>5. ASSUME Head(events).kind # "rows" PROVE Silent(q)'
    <2>1. /\ job[q] \in Past
          /\ \A m \in 1 .. Len(events) : m > 1 => events[m].query # q
      BY <1>1, <1>4, <1>5 DEF SInv, LastIsLast
    <2>2. \A k \in 1 .. Len(events') : k + 1 > 1 /\ events'[k].query # q
      BY <1>1, <2>1
    <2>3. QED
      BY <2>1, <2>2 DEF Silent
  <1>6. QED
    BY <1>2, <1>3, <1>4, <1>5

\* A batch that is delivered settles its query or is added to its rows.
LEMMA DeliverSettles == ASSUME SInv, Deliver PROVE SInv' /\ StaysSettled
  <1>1. /\ events # <<>> /\ events' = Tail(events)
        /\ UNCHANGED <<job, sent>>
    BY DEF Deliver
  <1>2. /\ LastIsLast' /\ \A p \in Query : Silent(p) => Silent(p)'
        /\ \E q \in Query : q = Head(events).query /\ (Head(events).kind # "rows" => Silent(q)')
    BY <1>1, EventsAdvance
  <1>3. PICK q \in Query : q = Head(events).query /\ (Head(events).kind # "rows" => Silent(q)')
    BY <1>2
  <1>4. PICK k : k = Head(events).batch
    OBVIOUS
  <1>5. CASE ~Hears(q)
    <2>1. UNCHANGED <<query, tab, handle, listeners>>
      BY <1>3, <1>5 DEF Deliver
    <2>2. /\ CallsFull' /\ ResultsShaped' /\ HandleIsLive' /\ SameResults /\ Frozen
      BY <2>1 DEF SInv, CallsFull, CallsShaped, ResultsShaped, HandleIsLive, SameResults, Frozen
    <2>3. \A p \in Query : CallSettles(p)'
      BY <1>2, <2>1 DEF SInv, CallSettles, Deaf
    <2>4. QED
      BY <1>1, <1>2, <2>2, <2>3 DEF SInv, StaysSettled, SameResults
  <1>6. CASE Hears(q) /\ Head(events).kind = "rows"
    <2>1. query' = Heard(q, k) /\ UNCHANGED <<tab, handle, listeners>>
      BY <1>3, <1>4, <1>6 DEF Deliver
    <2>2. query[q].outcome = "none"
      BY <1>1, <1>3, <1>6, WhoHearsIsNotSettled
    <2>3. /\ CallsFull' /\ \A p \in Query \ {q} : query'[p] = query[p]
          /\ query'[q].phase = query[q].phase /\ query'[q].kind = query[q].kind
          /\ query'[q].outcome = query[q].outcome
      BY <2>1 DEF SInv, CallsFull, CallsShaped, Heard
    <2>4. Frozen
      BY <2>2, <2>3 DEF Frozen
    <2>5. ResultsShaped' /\ HandleIsLive' /\ SameResults
      BY <2>1, <2>3 DEF SInv, ResultsShaped, HandleIsLive, SameResults
    <2>6. \A p \in Query : CallSettles(p)'
      BY <1>2, <2>1, <2>3 DEF SInv, CallSettles, Deaf
    <2>7. QED
      BY <1>1, <1>2, <2>3, <2>4, <2>5, <2>6 DEF SInv, StaysSettled, SameResults
  <1>7. CASE Hears(q) /\ Head(events).kind # "rows"
    <2>1. /\ Completes(q, k) \/ Fails(q)
          /\ listeners' = (IF query[q].phase = "live" THEN listeners \ {q} ELSE listeners)
      BY <1>3, <1>4, <1>7 DEF Deliver
    <2>2. query[q].outcome = "none"
      BY <1>1, <1>3, <1>7, WhoHearsIsNotSettled
    <2>3. /\ CallsFull' /\ \A p \in Query \ {q} : query'[p] = query[p]
          /\ query'[q].phase = query[q].phase /\ query'[q].kind = query[q].kind
      <3>1. CASE Completes(q, k)
        <4> DEFINE settled == Settled(q, query[q].phase, "completed")
        <4>1. /\ DOMAIN settled = Query
              /\ \A p \in Query : {"kind", "phase", "rows", "outcome"} \subseteq DOMAIN settled[p]
              /\ \A p \in Query \ {q} : settled[p] = query[p]
              /\ settled[q].phase = query[q].phase /\ settled[q].kind = query[q].kind
          BY DEF SInv, CallsFull, CallsShaped, Settled
        <4>2. query' = [settled EXCEPT ![q].rows = Append(settled[q].rows, k)]
          BY <3>1 DEF Completes
        <4> HIDE DEF settled
        <4>3. QED
          BY <4>1, <4>2 DEF CallsFull, CallsShaped
      <3>2. CASE Fails(q)
        BY <3>2, SettlesOnce DEF Fails, SInv
      <3>3. QED
        BY <2>1, <3>1, <3>2
    <2>4. Frozen
      BY <2>2, <2>3 DEF Frozen
    <2>5. HandleIsLive'
      BY <2>1, <2>3 DEF SInv, HandleIsLive, Completes, Fails
    <2>6. /\ ResultsShaped'
          /\ \A t \in Tab : tab'[t].results = tab[t].results \/ tab'[t].results.query = q
      <3>1. CASE Completes(q, k)
        <4>1. PICK r : r.query = q /\ tab' = ShowsIn(q, r)
          BY <3>1 DEF Completes
        <4>2. /\ DOMAIN Idle = Tab
              /\ \A t \in Tab : "results" \in DOMAIN Idle[t] /\ Idle[t].results = tab[t].results
          BY DEF SInv, ResultsShaped, Idle
        <4>3. QED
          BY <4>1, <4>2 DEF SInv, ResultsShaped, ShowsIn
      <3>2. CASE Fails(q)
        BY <3>2, ResultsKept DEF Fails, SInv, KeepsResults, SameResults
      <3>3. QED
        BY <2>1, <3>1, <3>2
    <2>7. \A p \in Query : CallSettles(p)'
      BY <1>2, <1>3, <1>7, <2>1, <2>3 DEF SInv, CallSettles, Deaf, Hears
    <2>8. SInv'
      BY <1>1, <1>2, <2>3, <2>5, <2>6, <2>7 DEF SInv
    <2>9. QED
      BY <2>2, <2>4, <2>6, <2>8 DEF StaysSettled
  <1>8. QED
    BY <1>5, <1>6, <1>7

\* Stop and the timers settle a query that they stop listening to.
LEMMA StopSettles ==
    ASSUME SInv, Stop \/ \E q \in Query : AgentTimesOut(q)
    PROVE  SInv' /\ StaysSettled
  <1>1. UNCHANGED <<job, events, sent, handle>> /\ KeepsResults
    BY DEF Stop, StopHandle, StopNothing, AgentTimesOut, KeepsResults
  <1>2. ResultsShaped' /\ SameResults
    BY <1>1, ResultsKept DEF SInv
  <1>3. CASE StopNothing /\ Stop
    <2>1. UNCHANGED <<query, listeners>>
      BY <1>3 DEF StopNothing
    <2>2. CallsFull' /\ HandleIsLive' /\ Frozen
      BY <1>1, <2>1 DEF SInv, CallsFull, CallsShaped, HandleIsLive, Frozen
    <2>3. SInv'
      <3>1. LastIsLast' /\ \A p \in Query : CallSettles(p)'
        BY <1>1, <2>1 DEF SInv, LastIsLast, CallSettles, Deaf, Silent
      <3>2. QED
        BY <1>1, <1>2, <2>2, <3>1 DEF SInv
    <2>4. QED
      BY <1>2, <2>2, <2>3 DEF StaysSettled, SameResults
  <1>4. CASE (StopHandle /\ Stop) \/ \E q \in Query : AgentTimesOut(q)
    <2>1. PICK q \in Query, outcome \in {"stopped", "timed out"} :
            /\ query' = Settled(q, query[q].phase, outcome)
            /\ listeners' = listeners \ {q}
            /\ query[q].phase = "live" \/ (query[q].phase = "starting" /\ query[q].kind = "agent")
      <3>1. CASE StopHandle
        BY <3>1 DEF StopHandle, SInv, HandleIsLive
      <3>2. CASE \E q \in Query : AgentTimesOut(q)
        BY <3>2 DEF AgentTimesOut
      <3>3. QED
        BY <1>4, <3>1, <3>2
    <2>2. /\ CallsFull' /\ Frozen /\ \A p \in Query \ {q} : query'[p] = query[p]
          /\ query'[q].phase = query[q].phase /\ query'[q].kind = query[q].kind
      BY <2>1, SettlesOnce DEF SInv
    <2>3. HandleIsLive'
      BY <1>1, <2>2 DEF SInv, HandleIsLive
    <2>4. CallSettles(q)'
      BY <2>1, <2>2 DEF CallSettles, Deaf
    <2>5. SInv'
      BY <1>1, <1>2, <2>1, <2>2, <2>3, <2>4, OneCallSettles
    <2>6. QED
      BY <1>2, <2>2, <2>5 DEF StaysSettled, SameResults
  <1>5. QED
    BY <1>3, <1>4 DEF Stop

\* The rest touches no call.
LEMMA OthersSettle ==
    ASSUME SInv, \/ ServeCancel \/ StopReturns \/ AgentCancels \/ Hydrate
                 \/ (\E t \in Tab : SwitchTab(t)) \/ UNCHANGED vars
    PROVE  SInv' /\ StaysSettled
  <1>1. /\ UNCHANGED <<job, events, sent, listeners, query>> /\ KeepsResults
        /\ handle' \in {handle, NoQuery}
    BY DEF ServeCancel, StopReturns, AgentCancels, Hydrate, SwitchTab, vars, native, front, KeepsResults
  <1>2. ResultsShaped' /\ SameResults
    BY <1>1, ResultsKept DEF SInv
  <1>3. CallsFull' /\ HandleIsLive' /\ Frozen
    BY <1>1 DEF SInv, CallsFull, CallsShaped, HandleIsLive, Frozen
  <1>4. LastIsLast' /\ \A p \in Query : CallSettles(p)'
    BY <1>1 DEF SInv, LastIsLast, CallSettles, Deaf, Silent
  <1>5. SInv'
    BY <1>1, <1>2, <1>3, <1>4 DEF SInv
  <1>6. QED
    BY <1>2, <1>3, <1>5 DEF StaysSettled, SameResults

-----------------------------------------------------------------------------
\* No query has settled before the first is executed.
LEMMA InitSettles == Init => SInv
  <1> SUFFICES ASSUME Init PROVE SInv
    OBVIOUS
  <1>1. events = <<>> /\ LastIsLast
    BY DEF Init, NativeInit, LastIsLast
  <1>2. CallsFull /\ ResultsShaped /\ HandleIsLive
    BY DEF Init, CallsFull, CallsShaped, ResultsShaped, HandleIsLive
  <1>3. \A q \in Query : CallSettles(q)
    BY DEF Init, NativeInit, CallSettles
  <1>4. QED
    BY <1>1, <1>2, <1>3 DEF Init, NativeInit, SInv

\* Every step of the runtime keeps the invariant and leaves settled queries silent.
LEMMA NextSettles == ASSUME SInv, IInv, [Next]_vars PROVE SInv' /\ StaysSettled
  <1>1. CASE \E q \in Query : Begin(q)
    BY <1>1, BeginSettles
  <1>2. CASE \E q \in Query : Native(q)
    <2>1. PICK q \in Query : Native(q)
      BY <1>2
    <2>2. Frozen /\ UNCHANGED tab
      BY <2>1 DEF Native, front, Frozen
    <2>3. SInv'
      BY <2>1, NativeSettles
    <2>4. QED
      BY <2>2, <2>3 DEF StaysSettled
  <1>3. CASE \E q \in Query : Continue(q)
    BY <1>3, ContinueSettles
  <1>4. CASE Deliver
    BY <1>4, DeliverSettles
  <1>5. CASE Stop \/ \E q \in Query : AgentTimesOut(q)
    BY <1>5, StopSettles
  <1>6. QED
    BY <1>1, <1>2, <1>3, <1>4, <1>5, OthersSettle DEF Next

\* A query that has completed, failed, timed out or been stopped stays as it is and puts
\* nothing in a tab any more, whatever the native side still emits and in whatever order
\* listening, stopping and delivery happen (runtime.ts 168, 261; registerHandlers.ts 474).
THEOREM SettledStays == Spec => SettledIsSilent
  <1>1. Init => IInv /\ SInv
    BY InitIInv, InitSettles
  <1>2. (IInv /\ SInv) /\ [Next]_vars => (IInv /\ SInv)'
    BY NextIInv, NextSettles
  <1>3. (IInv /\ SInv) /\ [Next]_vars =>
          [\A q \in Query : query[q].outcome # "none" =>
               /\ query'[q].outcome = query[q].outcome
               /\ query'[q].rows = query[q].rows
               /\ \A t \in Tab : tab'[t].results.query = q => tab[t].results = tab'[t].results]_vars
    BY NextSettles DEF StaysSettled, Frozen
  <1>4. QED
    BY <1>1, <1>2, <1>3, PTL DEF Spec, SettledIsSilent
-----------------------------------------------------------------------------
(* What the frontend shows: whose results a tab has, whose rows the store  *)
(* has, and which query Stop reaches.  First the types, and what each      *)
(* action does to a call.                                                  *)

CallRec == [kind    : {"none", "run", "sort", "agent", "duckdb"},
            home    : Tab,
            base    : Query \cup {NoQuery},
            phase   : {"none", "statement", "starting", "listening", "live", "dead"},
            rows    : Seq(Nat),
            outcome : {"none", "completed", "failed", "stopped", "timed out"}]
TabRec == [executing : BOOLEAN, base : Query \cup {NoQuery},
           results : [query : Query \cup {NoQuery}, rows : Seq(Nat)]]
StoreRec == [query : Query \cup {NoQuery}, rows : Seq(Query \X Nat), streaming : BOOLEAN]

FrontTyped ==
    /\ query \in [Query -> CallRec]
    /\ tab \in [Tab -> TabRec]
    /\ active \in Tab
    /\ handle \in Query \cup {NoQuery}
    /\ store \in StoreRec
    /\ stopping \in [query : Query \cup {NoQuery}, served : BOOLEAN]

Only(q) == \A p \in Query \ {q} : query'[p] = query[p]
OwnFields(q) == /\ query'[q].kind = query[q].kind /\ query'[q].home = query[q].home
                /\ query'[q].base = query[q].base
TabsKept == \A t \in Tab : tab'[t] = tab[t]
\* Tabs keep their results; only the active one changes.
TabsKeepResults == /\ \A t \in Tab : tab'[t].results = tab[t].results
                   /\ \A t \in Tab \ {active} : tab'[t] = tab[t]

\* There is a first tab.
LEMMA FirstIsTab == FirstTab \in Tab
BY RuntimeAssumption DEF FirstTab

\* A call in its next phase.
LEMMA PhaseView ==
    ASSUME FrontTyped, NEW q \in Query, NEW phase \in {"starting", "listening", "live"},
           query' = WithPhase(q, phase)
    PROVE  /\ query' \in [Query -> CallRec]
           /\ Only(q) /\ OwnFields(q)
           /\ query'[q].phase = phase /\ query'[q].rows = query[q].rows
           /\ query'[q].outcome = query[q].outcome
BY DEF FrontTyped, WithPhase, CallRec, Only, OwnFields

\* What settling makes of the calls.
SettledAs(new, q, phase, outcome) ==
    /\ new \in [Query -> CallRec]
    /\ \A p \in Query \ {q} : new[p] = query[p]
    /\ new[q].kind = query[q].kind
    /\ new[q].home = query[q].home
    /\ new[q].base = query[q].base
    /\ new[q].rows = query[q].rows
    /\ new[q].phase = phase
    /\ new[q].outcome = IF query[q].outcome = "none" THEN outcome ELSE query[q].outcome

\* Settling a call.
LEMMA SettledView ==
    ASSUME FrontTyped, NEW q \in Query,
           NEW phase \in {"none", "statement", "starting", "listening", "live", "dead"},
           NEW outcome \in {"completed", "failed", "stopped", "timed out"}
    PROVE  SettledAs(Settled(q, phase, outcome), q, phase, outcome)
<1> DEFINE first == [query EXCEPT ![q].phase = phase]
           new == [first EXCEPT ![q].outcome = IF @ = "none" THEN outcome ELSE @]
<1>1. Settled(q, phase, outcome) = new
  BY DEF Settled
<1>2. /\ first \in [Query -> CallRec]
      /\ \A p \in Query \ {q} : first[p] = query[p]
      /\ first[q].kind = query[q].kind /\ first[q].home = query[q].home
      /\ first[q].base = query[q].base /\ first[q].rows = query[q].rows
      /\ first[q].phase = phase /\ first[q].outcome = query[q].outcome
  BY DEF FrontTyped, CallRec
<1> HIDE DEF first
<1>3. /\ new \in [Query -> CallRec]
      /\ \A p \in Query \ {q} : new[p] = first[p]
      /\ new[q].kind = first[q].kind /\ new[q].home = first[q].home
      /\ new[q].base = first[q].base /\ new[q].rows = first[q].rows
      /\ new[q].phase = first[q].phase
      /\ new[q].outcome = IF first[q].outcome = "none" THEN outcome ELSE first[q].outcome
  BY <1>2 DEF CallRec
<1> HIDE DEF new
<1>4. SettledAs(new, q, phase, outcome)
  BY <1>2, <1>3 DEF SettledAs
<1> QED
  BY <1>1, <1>4

\* The active tab shown idle.
LEMMA IdleView ==
    ASSUME FrontTyped
    PROVE  /\ Idle \in [Tab -> TabRec]
           /\ Idle[active].executing = FALSE
           /\ \A t \in Tab : Idle[t].results = tab[t].results
           /\ \A t \in Tab \ {active} : Idle[t] = tab[t]
BY DEF FrontTyped, Idle, TabRec

\* The active tab shown executing.
LEMMA ExecutingView ==
    ASSUME FrontTyped, NEW q \in Query,
           tab' = Started(q) \/ tab' = [tab EXCEPT ![active].executing = TRUE]
    PROVE  /\ tab' \in [Tab -> TabRec]
           /\ tab'[active].executing = TRUE
           /\ TabsKeepResults
<1>1. tab \in [Tab -> TabRec] /\ active \in Tab /\ tab[active] \in TabRec
  BY DEF FrontTyped
<1>2. ASSUME NEW r \in TabRec, tab' = [tab EXCEPT ![active] = r],
             r.executing = TRUE, r.results = tab[active].results
      PROVE  /\ tab' \in [Tab -> TabRec]
             /\ tab'[active].executing = TRUE
             /\ TabsKeepResults
  BY <1>1, <1>2 DEF TabsKeepResults
<1> DEFINE started == [tab[active] EXCEPT !.executing = TRUE, !.base = q]
           busy == [tab[active] EXCEPT !.executing = TRUE]
<1>3. CASE tab' = Started(q)
  <2>1. started \in TabRec /\ started.executing = TRUE /\ started.results = tab[active].results
    BY <1>1 DEF TabRec
  <2>2. tab' = [tab EXCEPT ![active] = started]
    BY <1>3 DEF Started
  <2> HIDE DEF started
  <2> QED
    BY <1>2, <2>1, <2>2
<1>4. CASE tab' = [tab EXCEPT ![active].executing = TRUE]
  <2>1. busy \in TabRec /\ busy.executing = TRUE /\ busy.results = tab[active].results
    BY <1>1 DEF TabRec
  <2>2. tab' = [tab EXCEPT ![active] = busy]
    BY <1>4
  <2> HIDE DEF busy
  <2> QED
    BY <1>2, <2>1, <2>2
<1> QED
  BY <1>3, <1>4

\* The operations of the row store.
LEMMA StoreView ==
    ASSUME FrontTyped, NEW q \in Query, NEW k \in Nat
    PROVE  /\ Reset(q) \in StoreRec
           /\ Finalized(store) \in StoreRec
           /\ Finalized(store).query = store.query /\ Finalized(store).rows = store.rows
           /\ AppendBatch(q, k) \in StoreRec
           /\ AppendBatch(q, k).query = store.query
           /\ AppendBatch(q, k).streaming = store.streaming
           /\ AppendBatch(q, k).rows = LastRows(Append(store.rows, <<q, k>>))
           /\ Finalized(AppendBatch(q, k)) \in StoreRec
           /\ Finalized(AppendBatch(q, k)).query = store.query
           /\ Finalized(AppendBatch(q, k)).rows = LastRows(Append(store.rows, <<q, k>>))
<1>1. store \in StoreRec /\ store.rows \in Seq(Query \X Nat)
  BY DEF FrontTyped, StoreRec
<1> DEFINE longer == Append(store.rows, <<q, k>>)
<1>2. longer \in Seq(Query \X Nat)
  BY <1>1
<1>3. LastRows(longer) \in Seq(Query \X Nat)
  <2> HIDE DEF longer
  <2>1. StoreLimit \in Nat \ {0} /\ Len(longer) \in Nat
    BY <1>2, RuntimeAssumption
  <2>2. CASE Len(longer) <= StoreLimit
    BY <1>2, <2>2 DEF LastRows
  <2>3. CASE ~(Len(longer) <= StoreLimit)
    <3>1. Len(longer) - StoreLimit + 1 \in 1 .. Len(longer) + 1
      BY <2>1, <2>3
    <3>2. SubSeq(longer, Len(longer) - StoreLimit + 1, Len(longer)) \in Seq(Query \X Nat)
      BY <1>2, <2>1, <3>1, SubSeqProperties
    <3> QED
      BY <2>3, <3>2 DEF LastRows
  <2> QED
    BY <2>2, <2>3
<1> DEFINE last == LastRows(longer)
<1>4. AppendBatch(q, k) = [store EXCEPT !.rows = last]
  BY <1>1 DEF AppendBatch, StoreRec
<1> HIDE DEF last
<1>5. Reset(q) \in StoreRec
  BY EmptySeq DEF Reset, StoreRec
<1>6. last \in Seq(Query \X Nat)
  BY <1>3 DEF last
<1>7. /\ AppendBatch(q, k) \in StoreRec
      /\ AppendBatch(q, k).query = store.query
      /\ AppendBatch(q, k).streaming = store.streaming
      /\ AppendBatch(q, k).rows = last
  BY <1>1, <1>4, <1>6 DEF StoreRec
<1>8. ASSUME NEW s \in StoreRec
      PROVE  Finalized(s) \in StoreRec /\ Finalized(s).query = s.query /\ Finalized(s).rows = s.rows
  BY DEF Finalized, StoreRec
<1> QED
  BY <1>1, <1>5, <1>7, <1>8 DEF last
-----------------------------------------------------------------------------
(* What a step does to the calls.                                          *)

\* Who is in the dead phase is settled.
DeadSettled == \A q \in Query : query[q].phase = "dead" => query[q].outcome # "none"

\* No batch is emitted or heard: rows stay, and a call that is not settled goes on
\* listening.
Hushed ==
    /\ \A q \in Query : /\ query'[q].rows = query[q].rows
                        /\ query[q].phase # "none" => OwnFields(q)
                        /\ query[q].outcome # "none" => query'[q].outcome = query[q].outcome
                        /\ query'[q].outcome = "none" /\ q \in listeners => q \in listeners'
                        /\ job[q] \in Past => job'[q] \in Past
    /\ \A t \in Tab : tab'[t].results = tab[t].results
    /\ UNCHANGED <<sent, events, missed>>
    /\ upset \subseteq upset'

\* A query is launched in the active tab.
Begun(q) ==
    /\ Only(q)
    /\ query[q].phase = "none" /\ query'[q].phase \in {"statement", "starting", "listening"}
    /\ query'[q].phase = "listening" => query'[q].kind = "agent"
    /\ query'[q].home = active /\ query'[q].outcome = query[q].outcome
    /\ query'[q].kind = "run" => tab'[active].executing = TRUE
    /\ TabsKeepResults
    /\ UNCHANGED <<active, handle, store, stopping>>
    /\ Upset("overlap", Busy)

\* The rows of a query go to the store once it is listened to.
Fed(q) == Live(q) /\ query[q].phase \in IF query[q].kind = "agent" THEN {"live"}
                                                                   ELSE {"listening", "live"}

\* A call in flight goes on, or ends.
Flies(q) ==
    /\ InFlight(q) /\ Only(q) /\ OwnFields(q) /\ upset \subseteq upset'
    /\ UNCHANGED <<active, stopping>>
    /\ Live(q)' /\ query[q].kind = "run" =>
          /\ tab'[active].executing = TRUE \/ tab' = tab
          /\ query'[q].phase = "live" => handle' = q \/ (handle' = handle /\ query[q].phase = "live")
Feeds(q) ==
    /\ store' \in {store, Finalized(store), Reset(q)}
    /\ Fed(q)' => store' = Reset(q) \/ (store' = store /\ Fed(q))

\* What has happened stays in `upset'.
LEMMA UpsetGrows ==
    ASSUME NEW h, NEW happened, Upset(h, happened)
    PROVE  upset \subseteq upset' /\ (happened => h \in upset')
BY DEF Upset

\* A call that is launched.
LEMMA LaunchView ==
    ASSUME FrontTyped, NEW q \in Query, NEW c, NEW kind \in {"run", "sort", "agent", "duckdb"},
           NEW base \in Query \cup {NoQuery}, NEW phase \in {"statement", "starting", "listening"},
           Launch(q, c, kind, base, phase)
    PROVE  /\ query' \in [Query -> CallRec]
           /\ Only(q)
           /\ query[q].phase = "none" /\ query'[q].phase = phase /\ query'[q].kind = kind
           /\ query'[q].home = active /\ query'[q].rows = query[q].rows
           /\ query'[q].outcome = query[q].outcome
<1>1. query \in [Query -> CallRec] /\ active \in Tab /\ query[q] \in CallRec
  BY DEF FrontTyped
<1> DEFINE new == [query[q] EXCEPT !.kind = kind, !.home = active, !.base = base, !.phase = phase]
<1>2. /\ new \in CallRec /\ new.phase = phase /\ new.kind = kind /\ new.home = active
      /\ new.rows = query[q].rows /\ new.outcome = query[q].outcome
  BY <1>1 DEF CallRec
<1>3. query' = [query EXCEPT ![q] = new] /\ query[q].phase = "none"
  BY DEF Launch
<1> HIDE DEF new
<1> QED
  BY <1>1, <1>2, <1>3 DEF Only

\* Whatever launches it.
LEMMA BeginViewOf ==
    ASSUME FrontTyped, DeadSettled, NEW q \in Query,
           NEW c, NEW kind \in {"run", "sort", "agent", "duckdb"},
           NEW base \in Query \cup {NoQuery}, NEW phase \in {"statement", "starting", "listening"},
           Launch(q, c, kind, base, phase),
           phase = "listening" => kind = "agent",
           \/ tab' = Started(q) \/ tab' = [tab EXCEPT ![active].executing = TRUE]
           \/ tab' = tab /\ kind # "run",
           UNCHANGED <<job, sent, listeners, events, missed, active, handle, store, stopping>>
    PROVE  FrontTyped' /\ DeadSettled' /\ Hushed /\ Begun(q)
<1>1. /\ query' \in [Query -> CallRec]
      /\ Only(q)
      /\ query[q].phase = "none" /\ query'[q].phase = phase /\ query'[q].kind = kind
      /\ query'[q].home = active /\ query'[q].rows = query[q].rows
      /\ query'[q].outcome = query[q].outcome
  BY LaunchView
<1>2. /\ tab' \in [Tab -> TabRec] /\ TabsKeepResults
      /\ kind = "run" => tab'[active].executing = TRUE
  <2>1. CASE tab' = tab /\ kind # "run"
    BY <2>1 DEF FrontTyped, TabsKeepResults
  <2>2. CASE tab' = Started(q) \/ tab' = [tab EXCEPT ![active].executing = TRUE]
    <3>1. /\ tab' \in [Tab -> TabRec]
          /\ tab'[active].executing = TRUE
          /\ TabsKeepResults
      BY <2>2, ExecutingView
    <3> QED
      BY <3>1
  <2> QED
    BY <2>1, <2>2
<1>3. Upset("overlap", Busy)
  BY DEF Launch
<1>4. upset \subseteq upset'
  BY <1>3 DEF Upset
<1>5. FrontTyped'
  BY <1>1, <1>2 DEF FrontTyped
<1>6. DeadSettled'
  BY <1>1 DEF DeadSettled, Only
<1>7. Hushed
  BY <1>1, <1>2, <1>4 DEF Hushed, Only, OwnFields, TabsKeepResults
<1>8. Begun(q)
  BY <1>1, <1>2, <1>3 DEF Begun
<1> QED
  BY <1>5, <1>6, <1>7, <1>8

\* Every way to run a query.
LEMMA BeginView ==
    ASSUME FrontTyped, DeadSettled, NEW q \in Query, Begin(q)
    PROVE  FrontTyped' /\ DeadSettled' /\ Hushed /\ Begun(q)
<1>1. q \in Query \cup {NoQuery} /\ tab[active].base \in Query \cup {NoQuery}
  BY DEF FrontTyped, TabRec
<1>2. CASE \E c \in Conn : Run(q, c) \/ Explain(q, c)
  BY <1>1, <1>2, BeginViewOf DEF Run, Explain
<1>3. CASE \E c \in Conn : RunScript(q, c)
  BY <1>1, <1>3, BeginViewOf DEF RunScript
<1>4. CASE \E c \in Conn : AgentRuns(q, c)
  BY <1>1, <1>4, BeginViewOf DEF AgentRuns
<1>5. CASE \E c \in Conn : AgentAnalyses(q, c)
  BY <1>1, <1>5, BeginViewOf DEF AgentAnalyses
<1>6. CASE Reexecute(q)
  BY <1>1, <1>6, BeginViewOf DEF Reexecute
<1> QED
  BY <1>2, <1>3, <1>4, <1>5, <1>6 DEF Begin
\* A call that goes on moves to another phase; one that ends is settled.
LEMMA PhaseStep ==
    ASSUME FrontTyped, DeadSettled, NEW q \in Query, InFlight(q),
           NEW phase \in {"starting", "listening", "live"}, query' = WithPhase(q, phase),
           \/ tab' = tab \/ tab' = Started(q),
           \/ listeners' = listeners \/ listeners' = listeners \cup {q},
           \/ handle' = handle \/ handle' = q,
           \/ store' = store \/ store' = Reset(q),
           UNCHANGED <<job, sent, events, missed, active, stopping, upset>>
    PROVE  /\ FrontTyped' /\ DeadSettled' /\ Hushed /\ Only(q) /\ OwnFields(q)
           /\ query'[q].phase = phase /\ query'[q].outcome = query[q].outcome
<1>1. /\ query' \in [Query -> CallRec]
      /\ Only(q) /\ OwnFields(q)
      /\ query'[q].phase = phase /\ query'[q].rows = query[q].rows
      /\ query'[q].outcome = query[q].outcome
  BY PhaseView
<1>2. tab' \in [Tab -> TabRec] /\ TabsKeepResults
  <2>1. CASE tab' = tab
    BY <2>1 DEF FrontTyped, TabsKeepResults
  <2>2. CASE tab' = Started(q)
    <3>1. /\ tab' \in [Tab -> TabRec]
          /\ tab'[active].executing = TRUE
          /\ TabsKeepResults
      BY <2>2, ExecutingView
    <3> QED
      BY <3>1
  <2> QED
    BY <2>1, <2>2
<1>3. store' \in StoreRec
  <2>1. Reset(q) \in StoreRec
    BY EmptySeq DEF Reset, StoreRec
  <2> QED
    BY <2>1 DEF FrontTyped
<1>4. FrontTyped'
  BY <1>1, <1>2, <1>3 DEF FrontTyped
<1>5. DeadSettled'
  BY <1>1 DEF DeadSettled, Only
<1>6. Hushed
  BY <1>1, <1>2 DEF Hushed, Only, OwnFields, TabsKeepResults
<1> QED
  BY <1>1, <1>4, <1>5, <1>6

\* A call that is settled, and may not listen any more.
LEMMA SettleStep ==
    ASSUME FrontTyped, DeadSettled, NEW q \in Query, InFlight(q) \/ query[q].phase = "live",
           NEW phase \in {"none", "statement", "starting", "listening", "live", "dead"},
           NEW outcome \in {"completed", "failed", "stopped", "timed out"},
           query' = Settled(q, phase, outcome),
           \/ tab' = tab \/ tab' = Idle,
           \/ listeners' = listeners \/ listeners' = listeners \ {q},
           \/ handle' = handle \/ handle' = NoQuery,
           \/ store' = store \/ store' = Finalized(store),
           stopping' \in [query : Query \cup {NoQuery}, served : BOOLEAN],
           upset \subseteq upset',
           UNCHANGED <<job, sent, events, missed, active>>
    PROVE  /\ FrontTyped' /\ DeadSettled' /\ Hushed /\ Only(q) /\ OwnFields(q)
           /\ query'[q].outcome # "none" /\ query'[q].phase = phase
<1>1. SettledAs(query', q, phase, outcome)
  BY SettledView
<1>2. /\ query' \in [Query -> CallRec]
      /\ \A p \in Query \ {q} : query'[p] = query[p]
      /\ query'[q].kind = query[q].kind
      /\ query'[q].home = query[q].home
      /\ query'[q].base = query[q].base
      /\ query'[q].rows = query[q].rows
      /\ query'[q].phase = phase
      /\ query'[q].outcome = IF query[q].outcome = "none" THEN outcome ELSE query[q].outcome
  BY <1>1 DEF SettledAs
<1>3. tab' \in [Tab -> TabRec] /\ \A t \in Tab : tab'[t].results = tab[t].results
  BY IdleView DEF FrontTyped
<1>4. store' \in StoreRec
  BY DEF FrontTyped, Finalized, StoreRec
<1>5. query'[q].outcome # "none"
  BY <1>2
<1>6. FrontTyped'
  BY <1>2, <1>3, <1>4 DEF FrontTyped
<1>7. DeadSettled'
  BY <1>2, <1>5 DEF DeadSettled
<1>8. Hushed
  <2>1. \A p \in Query : query'[p].outcome = "none" /\ p \in listeners => p \in listeners'
    BY <1>5
  <2>2. \A p \in Query : query[p].outcome # "none" => query'[p].outcome = query[p].outcome
    BY <1>2
  <2> QED
    BY <1>2, <1>3, <2>1, <2>2 DEF Hushed, OwnFields
<1> QED
  BY <1>2, <1>5, <1>6, <1>7, <1>8 DEF Only, OwnFields

\* The steps from the launch to the listener.
LEMMA ContinueView ==
    ASSUME FrontTyped, DeadSettled, NEW q \in Query, Continue(q)
    PROVE  FrontTyped' /\ DeadSettled' /\ Hushed /\ Flies(q) /\ Feeds(q)
<1>1. CASE StatementReturns(q) /\ reply[q] = "ok"
  <2>1. /\ query[q].phase = "statement" /\ query' = WithPhase(q, "starting") /\ tab' = Started(q)
        /\ UNCHANGED <<listeners, handle, store, job, sent, events, missed, active, stopping, upset>>
    BY <1>1 DEF StatementReturns
  <2>2. InFlight(q)
    BY <2>1 DEF InFlight
  <2>3. /\ FrontTyped' /\ DeadSettled' /\ Hushed /\ Only(q) /\ OwnFields(q)
        /\ query'[q].phase = "starting" /\ query'[q].outcome = query[q].outcome
    BY <2>1, <2>2, PhaseStep
  <2>4. tab'[active].executing = TRUE
    <3>1. /\ tab' \in [Tab -> TabRec]
          /\ tab'[active].executing = TRUE
          /\ TabsKeepResults
      BY <2>1, ExecutingView
    <3> QED
      BY <3>1
  <2> QED
    BY <2>1, <2>2, <2>3, <2>4 DEF Flies, Feeds, Fed
<1>2. CASE (StatementReturns(q) /\ reply[q] = "error") \/ StartFails(q)
  <2>1. /\ query[q].phase \in {"statement", "starting"} /\ query' = Settled(q, "dead", "failed")
        /\ tab' = tab \/ tab' = Idle
        /\ listeners' = listeners \/ listeners' = listeners \ {q}
        /\ handle' = handle \/ handle' = NoQuery
        /\ store' = store \/ store' = Finalized(store)
        /\ UNCHANGED <<job, sent, events, missed, active, stopping, upset>>
    BY <1>2 DEF StatementReturns, StartFails
  <2>2. InFlight(q)
    BY <2>1 DEF InFlight
  <2>3. stopping' \in [query : Query \cup {NoQuery}, served : BOOLEAN] /\ upset \subseteq upset'
    BY <2>1 DEF FrontTyped
  <2>4. /\ FrontTyped' /\ DeadSettled' /\ Hushed /\ Only(q) /\ OwnFields(q)
        /\ query'[q].outcome # "none" /\ query'[q].phase = "dead"
    BY <2>1, <2>2, <2>3, SettleStep
  <2> QED
    BY <2>1, <2>2, <2>3, <2>4 DEF Flies, Feeds, Fed, Live
<1>3. CASE StartReturns(q)
  <2> DEFINE phase == IF query[q].kind = "agent" THEN "live" ELSE "listening"
  <2>1. /\ query[q].phase = "starting" /\ query' = WithPhase(q, phase) /\ store' = Reset(q)
        /\ UNCHANGED <<tab, listeners, handle, job, sent, events, missed, active, stopping, upset>>
    BY <1>3 DEF StartReturns
  <2>2. InFlight(q) /\ phase \in {"starting", "listening", "live"}
    BY <2>1 DEF InFlight
  <2>3. phase = "live" => query[q].kind = "agent"
    OBVIOUS
  <2> HIDE DEF phase
  <2>4. /\ FrontTyped' /\ DeadSettled' /\ Hushed /\ Only(q) /\ OwnFields(q)
        /\ query'[q].phase = phase /\ query'[q].outcome = query[q].outcome
    BY <2>1, <2>2, PhaseStep
  <2> QED
    BY <2>1, <2>2, <2>3, <2>4 DEF Flies, Feeds
<1>4. CASE Register(q)
  <2>1. /\ query[q].phase = "listening" /\ listeners' = listeners \cup {q}
        /\ UNCHANGED <<query, tab, handle, store, job, sent, events, missed, active, stopping, upset>>
    BY <1>4 DEF Register, front
  <2>2. InFlight(q)
    BY <2>1 DEF InFlight
  <2>3. FrontTyped' /\ DeadSettled'
    BY <2>1 DEF FrontTyped, DeadSettled
  <2>4. Hushed /\ Only(q) /\ OwnFields(q)
    BY <2>1 DEF Hushed, Only, OwnFields
  <2> QED
    BY <2>1, <2>2, <2>3, <2>4 DEF Flies, Feeds, Fed, Live
<1>5. CASE ListenReturns(q)
  <2> DEFINE phase == IF query[q].kind = "agent" THEN "starting" ELSE "live"
  <2>1. /\ query[q].phase = "listening" /\ query' = WithPhase(q, phase)
        /\ handle' = IF query[q].kind = "run" THEN q ELSE handle
        /\ UNCHANGED <<tab, listeners, store, job, sent, events, missed, active, stopping, upset>>
    BY <1>5 DEF ListenReturns
  <2>2. InFlight(q) /\ phase \in {"starting", "listening", "live"}
    BY <2>1 DEF InFlight
  <2>3. phase = "live" <=> query[q].kind # "agent"
    OBVIOUS
  <2>4. phase \in {"live", "starting"}
    OBVIOUS
  <2> HIDE DEF phase
  <2>5. /\ FrontTyped' /\ DeadSettled' /\ Hushed /\ Only(q) /\ OwnFields(q)
        /\ query'[q].phase = phase /\ query'[q].outcome = query[q].outcome
    BY <2>1, <2>2, PhaseStep
  <2>6. Flies(q)
    BY <2>1, <2>2, <2>5 DEF Flies
  <2>7. Fed(q)' => Fed(q)
    BY <2>1, <2>3, <2>4, <2>5 DEF Fed, Live, OwnFields
  <2> QED
    BY <2>1, <2>5, <2>6, <2>7 DEF Feeds
<1>6. reply[q] # "none" => reply[q] = "ok" \/ reply[q] = "error" \/ ~StatementReturns(q)
  BY DEF StatementReturns
<1> QED
  BY <1>1, <1>2, <1>3, <1>4, <1>5, <1>6 DEF Continue, StatementReturns
-----------------------------------------------------------------------------
(* The steps of the native side, of Stop and of the timers.                *)

Upto(n) == [i \in 1 .. n |-> i]

\* Results are those of one settled query, all of them if it was listened to from
\* the start, in its tab.
Shown(t) ==
    LET r == tab[t].results
        q == r.query
    IN  IF q = NoQuery
        THEN r.rows = <<>>
        ELSE /\ query[q].outcome # "none" /\ job[q] \in Past
             /\ r.rows = query[q].rows
             /\ q \notin missed => r.rows = Upto(sent[q])
             /\ ("switch" \in upset => query[q].kind = "sort") => query[q].home = t

Emits(q) ==
    /\ job[q] = "streaming" /\ \E kind \in {"rows", "final", "error"} : Emit(q, kind)
    /\ \A p \in Query : job[p] \in Past => job'[p] \in Past
    /\ UNCHANGED <<front, listeners>>

\* The native side emits, or does nothing that is seen.
LEMMA NativeView ==
    ASSUME FrontTyped, DeadSettled, IInv, NEW q \in Query, Native(q)
    PROVE  FrontTyped' /\ DeadSettled' /\ UNCHANGED front /\ (Hushed \/ Emits(q))
<1>1. UNCHANGED front /\ NativeStep(q)
  BY DEF Native
<1>2. FrontTyped' /\ DeadSettled'
  BY <1>1 DEF front, FrontTyped, DeadSettled
<1>3. CASE Refuse(q) \/ StartStatement(q) \/ EndStatement(q) \/ StartStream(q) \/ TaskEnds(q)
  <2>1. \/ UNCHANGED job
        \/ job[q] \notin Past /\ \A p \in Query \ {q} : job'[p] = job[p]
        \/ job' = [job EXCEPT ![q] = "over"]
    BY <1>3 DEF Refuse, StartStatement, EndStatement, StartStream, TaskEnds, IInv, Handshakes,
                Handshake, Quiet, JobsTyped, Past
  <2>2. \A p \in Query : job[p] \in Past => job'[p] \in Past
    BY <2>1 DEF IInv, JobsTyped, Past
  <2>3. UNCHANGED <<listeners, events, sent, missed>>
    BY <1>3 DEF Refuse, StartStatement, EndStatement, StartStream, TaskEnds
  <2>4. Hushed
    BY <1>1, <2>2, <2>3 DEF Hushed, front, OwnFields
  <2> QED
    BY <1>1, <1>2, <2>4
<1>4. CASE FlushUnlessCancelled(q) \/ Flush(q) \/ StopWhenFull(q) \/ StopOnRead(q) \/ LastBatch(q)
           \/ StreamFails(q)
  <2>1. job[q] = "streaming" /\ UNCHANGED listeners
    BY <1>4 DEF FlushUnlessCancelled, Flush, StopWhenFull, StopOnRead, ObserveCancel, LastBatch, StreamFails
  <2>2. Emit(q, "rows") \/ Emit(q, "final") \/ Emit(q, "error")
    BY <1>4 DEF FlushUnlessCancelled, Flush, StopWhenFull, StopOnRead, ObserveCancel, LastBatch, StreamFails
  <2>3. UNCHANGED job \/ job' = [job EXCEPT ![q] = "recording"] \/ job' = [job EXCEPT ![q] = "over"]
    BY <1>4 DEF FlushUnlessCancelled, Flush, StopWhenFull, StopOnRead, ObserveCancel, LastBatch, StreamFails,
                EndStream
  <2>4. \A p \in Query : job[p] \in Past => job'[p] \in Past
    BY <2>3 DEF IInv, JobsTyped, Past
  <2> QED
    BY <1>1, <1>2, <2>1, <2>2, <2>4 DEF Emits
<1> QED
  BY <1>1, <1>3, <1>4 DEF NativeStep

\* The timers of the agent.
LEMMA TimeOutView ==
    ASSUME FrontTyped, DeadSettled, NEW q \in Query, AgentTimesOut(q)
    PROVE  FrontTyped' /\ DeadSettled' /\ Hushed /\ Flies(q) /\ Feeds(q)
<1>1. /\ query[q].phase \in {"live", "starting"} /\ query[q].outcome = "none"
      /\ query' = Settled(q, query[q].phase, "timed out")
      /\ store' = Finalized(store) /\ (tab' = tab \/ tab' = Idle)
      /\ listeners' = listeners \ {q}
      /\ UNCHANGED <<job, sent, events, missed, active, handle, stopping>>
  BY DEF AgentTimesOut
<1>2. Upset("agent timeout", query[q].phase = "starting")
  BY DEF AgentTimesOut
<1>3. InFlight(q)
  BY <1>1 DEF InFlight
<1>4. stopping' \in [query : Query \cup {NoQuery}, served : BOOLEAN] /\ upset \subseteq upset'
  BY <1>1, <1>2 DEF FrontTyped, Upset
<1>5. PICK phase \in {"live", "starting"} : phase = query[q].phase
  BY <1>1
<1>6. phase \in {"none", "statement", "starting", "listening", "live", "dead"}
  BY <1>5
<1>7. /\ FrontTyped' /\ DeadSettled' /\ Hushed /\ Only(q) /\ OwnFields(q)
      /\ query'[q].outcome # "none" /\ query'[q].phase = phase
  BY <1>1, <1>3, <1>4, <1>5, <1>6, SettleStep
<1> QED
  BY <1>1, <1>3, <1>4, <1>7 DEF Flies, Feeds, Fed, Live

\* Stop settles the query of the handle, if there is one.
Stopped(q) ==
    /\ Only(q) /\ OwnFields(q)
    /\ query[q].phase = "live" /\ query'[q].phase = "live" /\ query'[q].outcome # "none"
    /\ query[q].outcome # "none" => "early stop" \in upset'
    /\ handle = q /\ stopping'.query = q /\ ~stopping'.served
    /\ store' = Finalized(store)
    /\ UNCHANGED <<tab, active, handle>>

\* Stop, with a handle or without one.
LEMMA StopView ==
    ASSUME FrontTyped, DeadSettled, SInv, Stop
    PROVE  /\ FrontTyped' /\ DeadSettled' /\ Hushed
           /\ \/ \E q \in Query : Stopped(q)
              \/ "early stop" \in upset' /\ UNCHANGED <<query, active, handle, store, stopping>>
<1>1. /\ Upset("early stop", handle = NoQuery \/ ~Live(handle))
      /\ UNCHANGED <<job, sent, events, missed, active, handle>>
  BY DEF Stop
<1>2. upset \subseteq upset' /\ (handle = NoQuery \/ ~Live(handle) => "early stop" \in upset')
  BY <1>1 DEF Upset
<1>3. CASE StopHandle
  <2>1. /\ handle # NoQuery
        /\ stopping' = [query |-> handle, served |-> FALSE]
        /\ query' = Settled(handle, query[handle].phase, "stopped")
        /\ store' = Finalized(store) /\ listeners' = listeners \ {handle} /\ tab' = tab
    BY <1>3 DEF StopHandle
  <2>2. handle \in Query /\ query[handle].phase = "live"
    BY <2>1 DEF SInv, HandleIsLive
  <2>3. stopping' \in [query : Query \cup {NoQuery}, served : BOOLEAN]
    BY <2>1, <2>2
  <2>4. /\ FrontTyped' /\ DeadSettled' /\ Hushed /\ Only(handle) /\ OwnFields(handle)
        /\ query'[handle].outcome # "none" /\ query'[handle].phase = "live"
    BY <1>1, <1>2, <2>1, <2>2, <2>3, SettleStep
  <2>5. Stopped(handle)
    BY <1>1, <1>2, <2>1, <2>2, <2>4 DEF Stopped, Live
  <2> QED
    BY <2>2, <2>4, <2>5
<1>4. CASE StopNothing
  <2>1. handle = NoQuery /\ tab' = Idle /\ UNCHANGED <<stopping, query, store, listeners>>
    BY <1>4 DEF StopNothing
  <2>2. tab' \in [Tab -> TabRec] /\ \A t \in Tab : tab'[t].results = tab[t].results
    BY <2>1, IdleView
  <2>3. FrontTyped' /\ DeadSettled'
    BY <1>1, <2>1, <2>2 DEF FrontTyped, DeadSettled
  <2>4. Hushed
    BY <1>1, <1>2, <2>1, <2>2 DEF Hushed, OwnFields
  <2> QED
    BY <1>1, <1>2, <2>1, <2>3, <2>4
<1> QED
  BY <1>3, <1>4 DEF Stop

\* The rest moves no call.
LEMMA OtherView ==
    ASSUME FrontTyped, DeadSettled, \A t \in Tab : Shown(t),
           ServeCancel \/ StopReturns \/ AgentCancels \/ Hydrate \/ (\E t \in Tab : SwitchTab(t))
           \/ UNCHANGED vars
    PROVE  FrontTyped' /\ DeadSettled' /\ Hushed /\ query' = query
<1>1. UNCHANGED <<query, job, sent, events, missed, listeners>> /\ (tab' = tab \/ tab' = Idle)
  BY DEF ServeCancel, StopReturns, AgentCancels, Hydrate, SwitchTab, vars, native, front
<1>2. upset \subseteq upset'
  BY DEF ServeCancel, StopReturns, AgentCancels, Hydrate, SwitchTab, vars, front, Upset
<1>3. tab' \in [Tab -> TabRec] /\ \A t \in Tab : tab'[t].results = tab[t].results
  BY <1>1, IdleView DEF FrontTyped
<1>4. Hushed
  BY <1>1, <1>2, <1>3 DEF Hushed, OwnFields
<1>5. active' \in Tab /\ handle' \in Query \cup {NoQuery}
      /\ stopping' \in [query : Query \cup {NoQuery}, served : BOOLEAN]
  <2>1. CASE ServeCancel
    BY <2>1 DEF ServeCancel, FrontTyped
  <2>2. CASE StopReturns
    BY <2>2 DEF StopReturns, FrontTyped, NotStopping
  <2>3. CASE AgentCancels \/ Hydrate \/ (\E t \in Tab : SwitchTab(t)) \/ UNCHANGED vars
    BY <2>3 DEF AgentCancels, Hydrate, SwitchTab, vars, front, FrontTyped
  <2> QED
    BY <2>1, <2>2, <2>3
<1>6. store' \in StoreRec
  <2>1. CASE ~Hydrate
    BY <2>1 DEF ServeCancel, StopReturns, AgentCancels, SwitchTab, vars, front, FrontTyped, Finalized, StoreRec
  <2>2. CASE Hydrate
    <3> DEFINE r == tab[active].results
               shown == [i \in 1 .. Len(r.rows) |-> <<r.query, r.rows[i]>>]
    <3>1. active \in Tab /\ tab[active] \in TabRec
      BY DEF FrontTyped
    <3>2. r.rows # <<>> /\ store' = [query |-> r.query, rows |-> shown, streaming |-> FALSE]
      BY <2>2 DEF Hydrate
    <3>3. r.query \in Query \cup {NoQuery} /\ r.rows \in Seq(Nat)
      BY <3>1 DEF TabRec
    <3>4. r.query # NoQuery
      BY <3>1, <3>2 DEF Shown
    <3>5. shown \in Seq(Query \X Nat)
      <4> HIDE DEF r
      <4>1. Len(r.rows) \in Nat /\ \A i \in 1 .. Len(r.rows) : <<r.query, r.rows[i]>> \in Query \X Nat
        BY <3>3, <3>4
      <4> QED
        BY <4>1
    <3> QED
      BY <3>2, <3>3, <3>4, <3>5 DEF StoreRec
  <2> QED
    BY <2>1, <2>2
<1>7. FrontTyped' /\ DeadSettled'
  BY <1>1, <1>3, <1>5, <1>6 DEF FrontTyped, DeadSettled
<1> QED
  BY <1>1, <1>4, <1>7
-----------------------------------------------------------------------------
(* What a delivered batch does.                                            *)

Heeds(q, k) ==
    /\ k = Head(events).batch /\ k \in Nat
    /\ InFlight(q) /\ Fed(q) /\ Only(q) /\ OwnFields(q)
    /\ query'[q].phase = query[q].phase
    /\ UNCHANGED missed

\* A batch is added, the last one completes the query, an error ends it.
Adds(q, k) ==
    /\ Heeds(q, k)
    /\ query'[q].rows = Append(query[q].rows, k) /\ query'[q].outcome = "none"
    /\ store' = AppendBatch(q, k)
    /\ UNCHANGED <<tab, handle, listeners>>
CompletedWith(q, k) ==
    /\ Heeds(q, k) /\ Head(events).kind = "final"
    /\ query'[q].rows = Append(query[q].rows, k) /\ query'[q].outcome = "completed"
    /\ store' = Finalized(AppendBatch(q, k))
    /\ \A p \in Query \ {q} : p \in listeners => p \in listeners'
    /\ \A t \in Tab :
          \/ tab'[t].results = tab[t].results
          \/ /\ tab'[t].results = [query |-> q, rows |-> query'[q].rows]
             /\ t = IF query[q].kind = "sort" THEN query[q].home ELSE active
FailedWith(q, k) ==
    /\ Heeds(q, k)
    /\ query'[q].rows = query[q].rows /\ query'[q].outcome = "failed"
    /\ store' = Finalized(store)
    /\ \A p \in Query \ {q} : p \in listeners => p \in listeners'
    /\ \A t \in Tab : tab'[t].results = tab[t].results

\* A batch that nobody hears.
Unheard(q) ==
    /\ ~Hears(q)
    /\ missed' = IF q \in listeners THEN missed \cup {q} ELSE missed
    /\ UNCHANGED <<query, tab, handle, store, listeners>>

\* Who hears a batch is fed: it is listened to, and not settled.
LEMMA WhoHearsIsFed ==
    ASSUME FrontTyped, DeadSettled, SInv, events # <<>>, NEW q \in Query, q = Head(events).query, Hears(q)
    PROVE  query[q].outcome = "none" /\ InFlight(q) /\ Fed(q)
<1>1. query[q].outcome = "none"
  BY WhoHearsIsNotSettled
<1>2. q \in listeners /\ (query[q].kind = "agent" => query[q].phase = "live")
  BY DEF Hears
<1>3. query[q].phase \in {"none", "statement", "starting", "listening", "live", "dead"}
  BY DEF FrontTyped, CallRec
<1>4. CallSettles(q)
  BY DEF SInv
<1>5. query[q].phase \in {"listening", "live"}
  BY <1>1, <1>2, <1>3, <1>4 DEF CallSettles, DeadSettled
<1> QED
  BY <1>1, <1>2, <1>5 DEF InFlight, Fed, Live

\* Where results go.
LEMMA ShownView ==
    ASSUME FrontTyped, NEW q \in Query, NEW results \in [query : Query \cup {NoQuery}, rows : Seq(Nat)]
    PROVE  /\ ShowsIn(q, results) \in [Tab -> TabRec]
           /\ \A t \in Tab :
                 \/ ShowsIn(q, results)[t].results = tab[t].results
                 \/ /\ ShowsIn(q, results)[t].results = results
                    /\ t = IF query[q].kind = "sort" THEN query[q].home ELSE active
<1>1. /\ tab \in [Tab -> TabRec] /\ query[q].home \in Tab /\ active \in Tab
  BY DEF FrontTyped, CallRec
<1>2. Idle \in [Tab -> TabRec] /\ \A t \in Tab : Idle[t].results = tab[t].results
  BY IdleView
<1>3. ASSUME NEW old \in [Tab -> TabRec], NEW u \in Tab
      PROVE  /\ [old EXCEPT ![u].results = results] \in [Tab -> TabRec]
             /\ [old EXCEPT ![u].results = results][u].results = results
             /\ \A t \in Tab \ {u} : [old EXCEPT ![u].results = results][t] = old[t]
  <2>1. [old[u] EXCEPT !.results = results] \in TabRec
    BY DEF TabRec
  <2>2. [old[u] EXCEPT !.results = results].results = results
    BY DEF TabRec
  <2> DEFINE new == [old[u] EXCEPT !.results = results]
  <2>3. [old EXCEPT ![u].results = results] = [old EXCEPT ![u] = new]
    OBVIOUS
  <2>4. new \in TabRec /\ new.results = results
    BY <2>1, <2>2
  <2> HIDE DEF new
  <2> QED
    BY <2>3, <2>4
<1>4. CASE query[q].kind = "sort"
  <2>1. ShowsIn(q, results) = [tab EXCEPT ![query[q].home].results = results]
    BY <1>4 DEF ShowsIn
  <2> QED
    BY <1>1, <1>3, <1>4, <2>1
<1>5. CASE query[q].kind = "duckdb"
  <2>1. ShowsIn(q, results) = tab
    BY <1>5 DEF ShowsIn
  <2> QED
    BY <1>1, <2>1
<1>6. CASE query[q].kind # "sort" /\ query[q].kind # "duckdb"
  <2>1. ShowsIn(q, results) = [Idle EXCEPT ![active].results = results]
    BY <1>6 DEF ShowsIn
  <2> HIDE DEF Idle
  <2> QED
    BY <1>1, <1>2, <1>3, <1>6, <2>1
<1> QED
  BY <1>4, <1>5, <1>6

\* A delivered batch is not heard, is added, is the last, or is an error.
LEMMA DeliverView ==
    ASSUME FrontTyped, DeadSettled, SInv, Deliver
    PROVE  /\ FrontTyped' /\ DeadSettled'
           /\ events # <<>> /\ events' = Tail(events)
           /\ UNCHANGED <<job, sent, active, stopping, upset>>
           /\ \E q \in Query :
                 /\ q = Head(events).query
                 /\ Unheard(q) \/ \E k \in Nat : Adds(q, k) \/ CompletedWith(q, k) \/ FailedWith(q, k)
<1>1. events # <<>> /\ events' = Tail(events) /\ UNCHANGED <<job, sent, active, stopping, upset>>
  BY DEF Deliver
<1>2. 1 \in 1 .. Len(events) /\ events[1] = Head(events)
  BY <1>1 DEF SInv, LastIsLast
<1>3. Head(events) \in Event /\ Head(events).query \in Query
  BY <1>2, EventsNamed DEF SInv
<1>4. PICK q \in Query : q = Head(events).query
  BY <1>3
<1>5. PICK k \in Nat : k = Head(events).batch
  BY <1>3 DEF Event
<1>6. query[q] \in CallRec /\ query[q].rows \in Seq(Nat)
  BY DEF FrontTyped, CallRec
<1>7. CASE ~Hears(q)
  <2>1. Unheard(q)
    BY <1>4, <1>7 DEF Deliver, Unheard
  <2>2. FrontTyped' /\ DeadSettled'
    BY <1>1, <2>1 DEF Unheard, FrontTyped, DeadSettled
  <2> QED
    BY <1>1, <1>4, <2>1, <2>2
<1>8. CASE Hears(q)
  <2>1. query[q].outcome = "none" /\ InFlight(q) /\ Fed(q)
    BY <1>1, <1>4, <1>8, WhoHearsIsFed
  <2>2. /\ Finalized(store) \in StoreRec
        /\ AppendBatch(q, k) \in StoreRec
        /\ Finalized(AppendBatch(q, k)) \in StoreRec
    <3>1. /\ Reset(q) \in StoreRec
          /\ Finalized(store) \in StoreRec
          /\ Finalized(store).query = store.query /\ Finalized(store).rows = store.rows
          /\ AppendBatch(q, k) \in StoreRec
          /\ AppendBatch(q, k).query = store.query
          /\ AppendBatch(q, k).streaming = store.streaming
          /\ AppendBatch(q, k).rows = LastRows(Append(store.rows, <<q, k>>))
          /\ Finalized(AppendBatch(q, k)) \in StoreRec
          /\ Finalized(AppendBatch(q, k)).query = store.query
          /\ Finalized(AppendBatch(q, k)).rows = LastRows(Append(store.rows, <<q, k>>))
      BY StoreView
    <3> QED
      BY <3>1
  <2>3. CASE Head(events).kind = "rows"
    <3>1. /\ store' = AppendBatch(q, k) /\ query' = Heard(q, k)
          /\ UNCHANGED <<tab, handle, listeners, missed>>
      BY <1>4, <1>5, <1>8, <2>3 DEF Deliver
    <3>2. /\ query' \in [Query -> CallRec] /\ Only(q) /\ OwnFields(q)
          /\ query'[q].phase = query[q].phase /\ query'[q].outcome = query[q].outcome
          /\ query'[q].rows = Append(query[q].rows, k)
      <4> DEFINE more == Append(query[q].rows, k)
      <4>1. more \in Seq(Nat)
        BY <1>6
      <4>2. query' = [query EXCEPT ![q].rows = more]
        BY <3>1 DEF Heard
      <4> HIDE DEF more
      <4>3. /\ query' \in [Query -> CallRec] /\ Only(q) /\ OwnFields(q)
            /\ query'[q].phase = query[q].phase /\ query'[q].outcome = query[q].outcome
            /\ query'[q].rows = more
        BY <1>6, <4>1, <4>2 DEF CallRec, Only, OwnFields, FrontTyped
      <4> QED
        BY <4>3 DEF more
    <3>3. FrontTyped' /\ DeadSettled'
      BY <1>1, <2>2, <3>1, <3>2 DEF FrontTyped, DeadSettled, Only
    <3>4. Adds(q, k)
      BY <1>5, <2>1, <3>1, <3>2 DEF Adds, Heeds
    <3> QED
      BY <1>1, <1>4, <3>3, <3>4
  <2>4. ASSUME Head(events).kind = "final"
        PROVE  FrontTyped' /\ DeadSettled' /\ CompletedWith(q, k)
    <3>1. Completes(q, k) /\ UNCHANGED missed
          /\ listeners' = IF query[q].phase = "live" THEN listeners \ {q} ELSE listeners
      BY <1>4, <1>5, <1>8, <2>4 DEF Deliver
    <3> DEFINE more == Append(query[q].rows, k)
               results == [query |-> q, rows |-> more]
               settled == Settled(q, query[q].phase, "completed")
    <3>2. more \in Seq(Nat)
      BY <1>6
    <3>3. SettledAs(settled, q, query[q].phase, "completed")
      <4>1. query[q].phase \in {"none", "statement", "starting", "listening", "live", "dead"}
        BY <1>6 DEF CallRec
      <4> QED
        BY <4>1, SettledView
    <3>4. query' = [settled EXCEPT ![q].rows = Append(query[q].rows, k)]
      <4>1. settled[q].rows = query[q].rows
        BY <3>3 DEF SettledAs
      <4>2. query' = [settled EXCEPT ![q].rows = Append(@, k)]
        BY <3>1 DEF Completes
      <4> HIDE DEF settled
      <4> QED
        BY <4>1, <4>2
    <3>5. tab' = ShowsIn(q, results) /\ store' = Finalized(AppendBatch(q, k))
          /\ handle' \in {handle, NoQuery}
      BY <3>1 DEF Completes
    <3>6. results \in [query : Query \cup {NoQuery}, rows : Seq(Nat)]
      BY <3>2
    <3> HIDE DEF settled, more
    <3>7. /\ query' \in [Query -> CallRec] /\ Only(q) /\ OwnFields(q)
          /\ query'[q].phase = query[q].phase /\ query'[q].outcome = "completed"
          /\ query'[q].rows = more
      <4>1. query' = [settled EXCEPT ![q].rows = more]
        BY <3>4 DEF more
      <4> QED
        BY <2>1, <3>2, <3>3, <4>1 DEF SettledAs, CallRec, Only, OwnFields
    <3> HIDE DEF results
    <3>8. /\ ShowsIn(q, results) \in [Tab -> TabRec]
          /\ \A t \in Tab :
                \/ ShowsIn(q, results)[t].results = tab[t].results
                \/ /\ ShowsIn(q, results)[t].results = results
                   /\ t = IF query[q].kind = "sort" THEN query[q].home ELSE active
      BY <3>6, ShownView
    <3>9. results = [query |-> q, rows |-> query'[q].rows]
      BY <3>7 DEF results
    <3>10. FrontTyped' /\ DeadSettled'
      BY <1>1, <2>2, <3>5, <3>7, <3>8 DEF FrontTyped, DeadSettled, Only
    <3>11. CompletedWith(q, k)
      BY <1>5, <2>1, <2>4, <3>1, <3>5, <3>7, <3>8, <3>9 DEF CompletedWith, Heeds, more
    <3> QED
      BY <3>10, <3>11
  <2>5. ASSUME Head(events).kind = "error"
        PROVE  FrontTyped' /\ DeadSettled' /\ FailedWith(q, k)
    <3>1. Fails(q) /\ UNCHANGED missed
          /\ listeners' = IF query[q].phase = "live" THEN listeners \ {q} ELSE listeners
      BY <1>4, <1>5, <1>8, <2>5 DEF Deliver
    <3>2. /\ query' = Settled(q, query[q].phase, "failed") /\ store' = Finalized(store)
          /\ tab' = tab \/ tab' = Idle
          /\ handle' \in {handle, NoQuery}
      BY <3>1 DEF Fails
    <3>3. SettledAs(query', q, query[q].phase, "failed")
      <4>1. query[q].phase \in {"none", "statement", "starting", "listening", "live", "dead"}
        BY <1>6 DEF CallRec
      <4> QED
        BY <3>2, <4>1, SettledView
    <3>4. /\ query' \in [Query -> CallRec] /\ Only(q) /\ OwnFields(q)
          /\ query'[q].phase = query[q].phase /\ query'[q].outcome = "failed"
          /\ query'[q].rows = query[q].rows
      BY <2>1, <3>3 DEF SettledAs, Only, OwnFields
    <3>5. tab' \in [Tab -> TabRec] /\ \A t \in Tab : tab'[t].results = tab[t].results
      BY <3>2, IdleView DEF FrontTyped
    <3>6. FrontTyped' /\ DeadSettled'
      BY <1>1, <2>2, <3>2, <3>4, <3>5 DEF FrontTyped, DeadSettled, Only
    <3>7. FailedWith(q, k)
      BY <1>5, <2>1, <3>1, <3>2, <3>4, <3>5 DEF FailedWith, Heeds
    <3> QED
      BY <3>6, <3>7
  <2>6. Head(events).kind \in {"rows", "final", "error"}
    BY <1>3 DEF Event
  <2> QED
    BY <1>1, <1>4, <2>3, <2>4, <2>5, <2>6
<1> QED
  BY <1>7, <1>8
-----------------------------------------------------------------------------
(* Who is in flight, and what Stop would reach.                            *)

Homes == "switch" \notin upset => \A q \in Query : InFlight(q) => query[q].home = active
Alone == "overlap" \notin upset => \A p, q \in Query : InFlight(p) /\ InFlight(q) => p = q
StopsIdle == upset = {} /\ stopping.query # NoQuery => \A q \in Query : ~InFlight(q)
ServedIsNamed == stopping.served => stopping.query # NoQuery

Flights == Homes /\ Alone /\ StopsIdle /\ ServedIsNamed /\ StopReachesQuery

\* Who is live is in flight.
LEMMA LiveFlies ==
    ASSUME FrontTyped, DeadSettled, NEW q \in Query, Live(q)
    PROVE  InFlight(q)
BY DEF FrontTyped, CallRec, DeadSettled, Live, InFlight

\* One call in flight goes on: no other call needs the button.
LEMMA FliesOn ==
    ASSUME FrontTyped, DeadSettled, FrontTyped', DeadSettled', Flights, NEW q \in Query, Flies(q),
           query'[q].outcome = "none" => query[q].outcome = "none"
    PROVE  Flights'
<1>1. /\ InFlight(q) /\ Only(q) /\ OwnFields(q) /\ upset \subseteq upset'
      /\ UNCHANGED <<active, stopping>>
  BY DEF Flies
<1>2. \A p \in Query : InFlight(p)' => InFlight(p) /\ query'[p].home = query[p].home
  BY <1>1 DEF InFlight, Only, OwnFields
<1>3. Homes' /\ Alone' /\ StopsIdle' /\ ServedIsNamed'
  BY <1>1, <1>2 DEF Flights, Homes, Alone, StopsIdle, ServedIsNamed
<1>4. StopReachesQuery'
  <2>1. SUFFICES ASSUME upset' = {}, NEW p \in Query, Live(p)', query'[p].kind = "run"
                 PROVE  /\ query'[p].home = active'
                        /\ tab'[active'].executing
                        /\ query'[p].phase = "live" => handle' = p
    BY DEF StopReachesQuery
  <2>2. upset = {}
    BY <1>1, <2>1
  <2>3. InFlight(p)'
    BY <2>1, LiveFlies DEF FrontTyped, CallRec, DeadSettled, Live, InFlight
  <2>4. p = q /\ query'[p].home = active'
    BY <1>1, <1>2, <2>2, <2>3 DEF Flights, Alone, Homes
  <2>5. query[q].kind = "run"
    BY <1>1, <2>1, <2>4 DEF OwnFields
  <2>6. /\ tab'[active].executing = TRUE \/ tab' = tab
        /\ query'[q].phase = "live" => handle' = q \/ (handle' = handle /\ query[q].phase = "live")
    BY <2>1, <2>4, <2>5 DEF Flies
  <2>7. /\ tab[active].executing
        /\ query[q].phase = "live" => handle = q
    <3>1. Live(q)
      BY <1>1, <2>1, <2>4 DEF InFlight, Live
    <3> QED
      BY <2>2, <2>5, <3>1 DEF Flights, StopReachesQuery
  <2> QED
    BY <1>1, <2>4, <2>6, <2>7
<1> QED
  BY <1>3, <1>4 DEF Flights
\* A launch while another call is in flight, or Stop is awaited, is an overlap.
LEMMA BeginFlights ==
    ASSUME FrontTyped, DeadSettled, FrontTyped', DeadSettled', Flights, NEW q \in Query, Begun(q)
    PROVE  Flights'
<1>1. /\ Only(q) /\ query[q].phase = "none" /\ query'[q].phase \in {"statement", "starting", "listening"}
      /\ query'[q].home = active
      /\ UNCHANGED <<active, handle, store, stopping>>
      /\ upset \subseteq upset' /\ (Busy => "overlap" \in upset')
  BY DEF Begun, Upset
<1>2. \A p \in Query : InFlight(p)' => p = q \/ (p # q /\ InFlight(p) /\ query'[p] = query[p])
  BY <1>1 DEF InFlight, Only
<1>3. Homes' /\ Alone' /\ StopsIdle' /\ ServedIsNamed'
  <2>1. Homes'
    BY <1>1, <1>2 DEF Flights, Homes
  <2>2. "overlap" \notin upset' => (\A p \in Query : InFlight(p)' => p = q) /\ stopping.query = NoQuery
    BY <1>1, <1>2 DEF Busy
  <2>3. Alone' /\ StopsIdle'
    BY <1>1, <2>2 DEF Alone, StopsIdle
  <2> QED
    BY <1>1, <2>1, <2>3 DEF Flights, ServedIsNamed
<1>4. StopReachesQuery'
  <2>1. SUFFICES ASSUME upset' = {}, NEW p \in Query, Live(p)', query'[p].kind = "run"
                 PROVE  /\ query'[p].home = active'
                        /\ tab'[active'].executing
                        /\ query'[p].phase = "live" => handle' = p
    BY DEF StopReachesQuery
  <2>2. InFlight(p)'
    BY <2>1, LiveFlies DEF FrontTyped, CallRec, DeadSettled, Live, InFlight
  <2>3. p = q
    BY <1>1, <1>2, <2>1, <2>2 DEF Busy
  <2>4. tab'[active].executing = TRUE
    BY <2>1, <2>3 DEF Begun
  <2> QED
    BY <1>1, <2>3, <2>4
<1> QED
  BY <1>3, <1>4 DEF Flights

\* The button stops the query that is in flight, or nothing says that it is stopped early.
LEMMA StopFlights ==
    ASSUME FrontTyped, DeadSettled, Flights, upset \subseteq upset',
           \/ \E q \in Query : Stopped(q)
           \/ "early stop" \in upset' /\ UNCHANGED <<query, active, handle, store, stopping>>
    PROVE  Flights'
<1>1. CASE "early stop" \in upset' /\ UNCHANGED <<query, active, handle, store, stopping>>
  <2>1. Homes' /\ Alone'
    BY <1>1 DEF Flights, Homes, Alone, InFlight
  <2> QED
    BY <1>1, <2>1 DEF Flights, StopsIdle, ServedIsNamed, StopReachesQuery
<1>2. CASE \E q \in Query : Stopped(q)
  <2>1. PICK q \in Query : Stopped(q)
    BY <1>2
  <2>2. /\ Only(q) /\ OwnFields(q)
        /\ query[q].phase = "live" /\ query'[q].phase = "live" /\ query'[q].outcome # "none"
        /\ query[q].outcome # "none" => "early stop" \in upset'
        /\ stopping'.query = q /\ ~stopping'.served
        /\ UNCHANGED <<tab, active, handle>>
    BY <2>1 DEF Stopped
  <2>3. ~InFlight(q)' /\ ~Live(q)'
    BY <2>2 DEF InFlight, Live
  <2>4. \A p \in Query : InFlight(p)' => p # q /\ InFlight(p) /\ query'[p] = query[p]
    BY <2>2, <2>3 DEF InFlight, Only
  <2>5. Homes' /\ Alone'
    BY <2>2, <2>4 DEF Flights, Homes, Alone
  <2>6. upset' = {} => \A p \in Query : ~InFlight(p)'
    <3>1. SUFFICES ASSUME upset' = {}, NEW p \in Query, InFlight(p)' PROVE FALSE
      OBVIOUS
    <3>2. upset = {} /\ InFlight(q)
      BY <2>2, <3>1 DEF InFlight
    <3> QED
      BY <2>4, <3>1, <3>2 DEF Flights, Alone
  <2>7. StopsIdle' /\ ServedIsNamed'
    BY <2>2, <2>6 DEF StopsIdle, ServedIsNamed
  <2>8. StopReachesQuery'
    <3>1. SUFFICES ASSUME upset' = {}, NEW p \in Query, Live(p)' PROVE FALSE
      BY DEF StopReachesQuery
    <3>2. p # q /\ Live(p)
      BY <2>2, <2>3, <3>1 DEF Live, Only
    <3>3. InFlight(p)
      BY <3>2, LiveFlies
    <3>4. InFlight(p)'
      BY <2>2, <3>2, <3>3 DEF InFlight, Only
    <3> QED
      BY <2>6, <3>1, <3>4
  <2> QED
    BY <2>5, <2>7, <2>8 DEF Flights
<1> QED
  BY <1>1, <1>2

\* The steps that move no call: another tab is an upset only while a call is in flight, and
\* Stop has returned once nothing is.
LEMMA OtherFlights ==
    ASSUME FrontTyped, DeadSettled, Flights, query' = query,
           ServeCancel \/ StopReturns \/ AgentCancels \/ Hydrate \/ (\E t \in Tab : SwitchTab(t))
           \/ UNCHANGED <<tab, active, handle, stopping, upset>>
    PROVE  Flights'
<1>1. \A q \in Query : (InFlight(q)' <=> InFlight(q)) /\ (Live(q)' <=> Live(q))
  BY DEF InFlight, Live
<1>2. \A q \in Query : Live(q) => InFlight(q)
  BY LiveFlies
<1>3. CASE ServeCancel \/ Hydrate \/ UNCHANGED <<tab, active, handle, stopping, upset>>
  <2>1. /\ UNCHANGED <<query, tab, active, handle, upset>> /\ stopping'.query = stopping.query
        /\ stopping'.served => stopping.query # NoQuery
    <3>1. CASE ServeCancel
      BY <3>1 DEF ServeCancel, FrontTyped
    <3>2. CASE Hydrate \/ UNCHANGED <<tab, active, handle, stopping, upset>>
      BY <3>2 DEF Hydrate, Flights, ServedIsNamed
    <3> QED
      BY <1>3, <3>1, <3>2
  <2> QED
    BY <1>1, <2>1 DEF Flights, Homes, Alone, StopsIdle, ServedIsNamed, StopReachesQuery
<1>4. CASE StopReturns
  <2>1. /\ UNCHANGED <<query, active, upset>> /\ stopping'.query = NoQuery /\ ~stopping'.served
        /\ stopping.query # NoQuery
    BY <1>4 DEF StopReturns, NotStopping, Flights, ServedIsNamed
  <2>2. Homes' /\ Alone' /\ StopsIdle' /\ ServedIsNamed'
    BY <1>1, <2>1 DEF Flights, Homes, Alone, StopsIdle, ServedIsNamed
  <2>3. StopReachesQuery'
    BY <1>1, <1>2, <2>1 DEF Flights, StopsIdle, StopReachesQuery
  <2> QED
    BY <2>2, <2>3 DEF Flights
<1>5. CASE AgentCancels
  <2>1. /\ UNCHANGED <<query, active, stopping>> /\ upset \subseteq upset' /\ "early stop" \in upset'
    BY <1>5 DEF AgentCancels, Upset
  <2> QED
    BY <1>1, <2>1 DEF Flights, Homes, Alone, StopsIdle, ServedIsNamed, StopReachesQuery
<1>6. CASE \E t \in Tab : SwitchTab(t)
  <2>1. /\ UNCHANGED <<query, stopping, tab, handle>> /\ upset \subseteq upset'
        /\ Busy => "switch" \in upset'
    BY <1>6 DEF SwitchTab, Upset
  <2>2. "switch" \notin upset' => \A q \in Query : ~InFlight(q)
    BY <2>1 DEF Busy
  <2>3. Homes' /\ Alone' /\ StopsIdle' /\ ServedIsNamed'
    BY <1>1, <2>1, <2>2 DEF Flights, Homes, Alone, StopsIdle, ServedIsNamed
  <2>4. StopReachesQuery'
    BY <1>1, <1>2, <2>1, <2>2 DEF StopReachesQuery
  <2> QED
    BY <2>3, <2>4 DEF Flights
<1> QED
  BY <1>3, <1>4, <1>5, <1>6
-----------------------------------------------------------------------------
(* Batches come in order: what a query has not heard yet waits, one batch  *)
(* after the other, among the events.                                      *)

\* The k-th event is a batch of q.
Of(q, k) == k \in 1 .. Len(events) /\ events[k].query = q

Ordered(q) ==
    LET n == Len(query[q].rows)
    IN  /\ query[q].rows = Upto(n) /\ n <= sent[q]
        /\ \A k : Of(q, k) => q \in listeners /\ events[k].batch \in n + 1 .. sent[q]
        /\ \A k, m : Of(q, k) /\ Of(q, m) /\ k < m => events[k].batch < events[m].batch
        /\ \A b \in n + 1 .. sent[q] : \E k : Of(q, k) /\ events[k].batch = b

Orders == \A q \in Query : query[q].outcome = "none" /\ q \notin missed => Ordered(q)

\* Rows are batch numbers.
LEMMA RowsTyped ==
    ASSUME FrontTyped, NEW q \in Query
    PROVE  query[q].rows \in Seq(Nat) /\ Len(query[q].rows) \in Nat
<1>1. query[q] \in CallRec
  BY DEF FrontTyped
<1>2. query[q].rows \in Seq(Nat)
  BY <1>1 DEF CallRec
<1> QED
  BY <1>2

\* One more row.
LEMMA UptoGrows ==
    ASSUME NEW n \in Nat, NEW rows, rows = Upto(n)
    PROVE  Append(rows, n + 1) = Upto(n + 1)
<1>1. rows \in Seq(Nat) /\ Len(rows) = n /\ \A i \in 1 .. n : rows[i] = i
  BY DEF Upto
<1>2. /\ Append(rows, n + 1) \in Seq(Nat) /\ Len(Append(rows, n + 1)) = n + 1
      /\ \A i \in 1 .. n + 1 : Append(rows, n + 1)[i] = i
  BY <1>1
<1> DEFINE more == Append(rows, n + 1)
<1>3. more \in Seq(Nat) /\ Len(more) = n + 1 /\ \A i \in 1 .. n + 1 : more[i] = i
  BY <1>2
<1>4. Upto(n + 1) \in Seq(Nat) /\ Len(Upto(n + 1)) = n + 1 /\ \A i \in 1 .. n + 1 : Upto(n + 1)[i] = i
  BY DEF Upto
<1> HIDE DEF more
<1>5. more = Upto(n + 1)
  BY <1>3, <1>4
<1> QED
  BY <1>5 DEF more

\* What is neither emitted nor heard keeps the order.
LEMMA HushedOrders == ASSUME Orders, Hushed PROVE Orders'
<1>1. SUFFICES ASSUME NEW q \in Query, query'[q].outcome = "none", q \notin missed'
               PROVE  Ordered(q)'
  BY DEF Orders
<1>2. /\ UNCHANGED <<sent, events, missed>> /\ query'[q].rows = query[q].rows
      /\ query[q].outcome = "none" /\ (q \in listeners => q \in listeners')
  BY <1>1 DEF Hushed
<1>3. Ordered(q)
  BY <1>1, <1>2 DEF Orders
<1> QED
  BY <1>2, <1>3 DEF Ordered, Of

\* An emitted batch follows those that wait.
LEMMA EmitOrders ==
    ASSUME FrontTyped, SInv, Orders, NEW p \in Query, Emits(p)
    PROVE  Orders'
<1>1. PICK kind \in {"rows", "final", "error"} : Emit(p, kind)
  BY DEF Emits
<1>2. query' = query /\ listeners' = listeners /\ sent \in [Query -> Nat]
      /\ sent' = [sent EXCEPT ![p] = @ + 1] /\ events \in Seq(Event)
  BY <1>1 DEF Emits, front, Emit, SInv, LastIsLast
<1> DEFINE e == [query |-> p, kind |-> kind, batch |-> sent[p] + 1]
<1>3. /\ e.query = p /\ e.batch = sent[p] + 1 /\ e \in Event
      /\ events' = IF p \in listeners THEN Append(events, e) ELSE events
      /\ missed' = IF p \in listeners THEN missed ELSE missed \cup {p}
  BY <1>1, <1>2 DEF Emit, Event
<1> HIDE DEF e
<1>4. SUFFICES ASSUME NEW q \in Query, query[q].outcome = "none", q \notin missed'
               PROVE  Ordered(q)'
  BY <1>2 DEF Orders
<1>5. Ordered(q) /\ query'[q] = query[q] /\ sent[q] \in Nat /\ Len(query[q].rows) \in Nat
  BY <1>2, <1>3, <1>4, RowsTyped DEF Orders
<1>6. CASE q # p
  <2>1. \A k : Of(q, k)' <=> Of(q, k)
    BY <1>2, <1>3, <1>6 DEF Of
  <2>2. \A k : Of(q, k) => events'[k] = events[k]
    BY <1>2, <1>3 DEF Of
  <2>3. sent'[q] = sent[q]
    BY <1>2, <1>6
  <2> QED
    BY <1>2, <1>5, <2>1, <2>2, <2>3 DEF Ordered
<1>7. CASE q = p
  <2> DEFINE last == Len(events) + 1
             n == Len(query[q].rows)
  <2>1. p \in listeners
    BY <1>3, <1>4, <1>7
  <2>2. /\ Len(events) \in Nat /\ Len(events') = last /\ events'[last] = e
        /\ \A k \in 1 .. Len(events) : events'[k] = events[k]
    BY <1>2, <1>3, <2>1
  <2>3. \A k : Of(q, k)' <=> Of(q, k) \/ k = last
    BY <1>3, <1>7, <2>2 DEF Of
  <2>4. \A k : Of(q, k) => events'[k] = events[k] /\ k < last
    BY <2>2 DEF Of
  <2>5. sent'[q] = sent[q] + 1
    BY <1>2, <1>7
  <2>6. n \in Nat /\ query'[q].rows = query[q].rows
    BY <1>5
  <2>7. events'[last].batch = sent[q] + 1
    BY <1>3, <1>7, <2>2
  <2> HIDE DEF last, n
  <2>8. query[q].rows = Upto(n) /\ n <= sent[q]
    BY <1>5 DEF Ordered, n
  <2>9. \A k : Of(q, k)' => q \in listeners' /\ events'[k].batch \in n + 1 .. sent'[q]
    <3>1. \A k : Of(q, k) => events[k].batch \in n + 1 .. sent[q]
      BY <1>5 DEF Ordered, n
    <3> QED
      BY <1>2, <1>5, <1>7, <2>1, <2>3, <2>4, <2>5, <2>6, <2>7, <2>8, <3>1
  <2>10. \A k, m : Of(q, k)' /\ Of(q, m)' /\ k < m => events'[k].batch < events'[m].batch
    <3>1. SUFFICES ASSUME NEW k, NEW m, Of(q, k)', Of(q, m)', k < m
                   PROVE  events'[k].batch < events'[m].batch
      OBVIOUS
    <3>2. k \in Nat /\ m \in Nat /\ last \in Nat /\ m <= last
      BY <2>2, <3>1 DEF Of, last
    <3>3. Of(q, k) /\ events'[k] = events[k]
      BY <2>3, <2>4, <3>1, <3>2
    <3>4. CASE Of(q, m)
      BY <1>5, <2>4, <3>1, <3>3, <3>4 DEF Ordered
    <3>5. CASE m = last
      <4>1. events[k].batch \in n + 1 .. sent[q]
        BY <1>5, <3>3 DEF Ordered, n
      <4> QED
        BY <1>5, <2>6, <2>7, <3>3, <3>5, <4>1
    <3> QED
      BY <2>3, <3>1, <3>4, <3>5
  <2>11. \A b \in n + 1 .. sent'[q] : \E k : Of(q, k)' /\ events'[k].batch = b
    <3>1. SUFFICES ASSUME NEW b \in n + 1 .. sent'[q] PROVE \E k : Of(q, k)' /\ events'[k].batch = b
      OBVIOUS
    <3>2. CASE b = sent[q] + 1
      BY <2>3, <2>7, <3>2
    <3>3. CASE b # sent[q] + 1
      <4>1. b \in n + 1 .. sent[q]
        BY <1>5, <2>5, <2>6, <3>1, <3>3
      <4>2. PICK k : Of(q, k) /\ events[k].batch = b
        BY <1>5, <4>1 DEF Ordered, n
      <4> QED
        BY <2>3, <2>4, <4>2
    <3> QED
      BY <3>2, <3>3
  <2>12. n <= sent'[q]
    BY <1>5, <2>5, <2>6, <2>8
  <2> QED
    BY <2>6, <2>8, <2>9, <2>10, <2>11, <2>12 DEF Ordered, n
<1> QED
  BY <1>6, <1>7

\* The oldest event is the next batch of its query, and is taken from those that wait.
LEMMA HeadIsNext ==
    ASSUME FrontTyped, SInv, events # <<>>, NEW q \in Query, q = Head(events).query, Ordered(q)
    PROVE  Head(events).batch = Len(query[q].rows) + 1 /\ q \in listeners
<1> DEFINE n == Len(query[q].rows)
<1>1. events \in Seq(Event) /\ Len(events) \in Nat /\ Len(events) > 0 /\ Head(events) = events[1]
  BY DEF SInv, LastIsLast
<1>2. Of(q, 1)
  BY <1>1 DEF Of
<1>3. n \in Nat /\ sent[q] \in Nat
  BY RowsTyped DEF SInv
<1>4. events[1].batch \in n + 1 .. sent[q] /\ q \in listeners
  BY <1>2 DEF Ordered
<1>5. n + 1 \in n + 1 .. sent[q]
  BY <1>3, <1>4
<1>6. PICK k : Of(q, k) /\ events[k].batch = n + 1
  BY <1>5 DEF Ordered
<1>7. k \in Nat /\ k >= 1
  BY <1>6 DEF Of
<1>8. k = 1
  <2>1. SUFFICES ASSUME k > 1 PROVE FALSE
    BY <1>7
  <2>2. events[1].batch < events[k].batch
    BY <1>2, <1>6, <1>7, <2>1 DEF Ordered
  <2> QED
    BY <1>3, <1>4, <1>6, <2>2
<1> QED
  BY <1>1, <1>4, <1>6, <1>8
\* After the last batch nothing waits.
LEMMA LastIsAll ==
    ASSUME FrontTyped, SInv, events # <<>>, NEW q \in Query, q = Head(events).query, Head(events).kind # "rows"
    PROVE  job[q] \in Past /\ (Ordered(q) => sent[q] = Len(query[q].rows) + 1)
<1> DEFINE n == Len(query[q].rows)
<1>1. events \in Seq(Event) /\ Len(events) \in Nat /\ Len(events) > 0 /\ Head(events) = events[1]
  BY DEF SInv, LastIsLast
<1>2. /\ job[q] \in Past
      /\ \A m \in 1 .. Len(events) : m > 1 => events[m].query # q
  <2>1. 1 \in 1 .. Len(events)
    BY <1>1
  <2> QED
    BY <1>1, <2>1 DEF SInv, LastIsLast
<1>3. ASSUME Ordered(q) PROVE sent[q] = n + 1
  <2>1. Head(events).batch = n + 1 /\ q \in listeners
    BY <1>3, HeadIsNext
  <2>2. n \in Nat /\ sent[q] \in Nat
    BY RowsTyped DEF SInv
  <2>3. Of(q, 1)
    BY <1>1 DEF Of
  <2>4. events[1].batch \in n + 1 .. sent[q]
    BY <1>3, <2>3 DEF Ordered
  <2>5. ASSUME sent[q] > n + 1 PROVE FALSE
    <3>1. n + 2 \in n + 1 .. sent[q]
      BY <2>2, <2>5
    <3>2. PICK k : Of(q, k) /\ events[k].batch = n + 2
      BY <1>3, <3>1 DEF Ordered
    <3>3. k = 1
      BY <1>2, <3>2 DEF Of
    <3> QED
      BY <1>1, <2>1, <2>2, <3>2, <3>3
  <2> QED
    BY <2>2, <2>4, <2>5
<1> QED
  BY <1>2, <1>3

\* The events of a query move up.
LEMMA EventsShift ==
    ASSUME SInv, events # <<>>, events' = Tail(events), NEW q
    PROVE  /\ \A k : Of(q, k)' <=> k \in Nat /\ k >= 1 /\ Of(q, k + 1)
           /\ \A k : Of(q, k)' => events'[k] = events[k + 1]
           /\ \A k : Of(q, k) => k = 1 \/ (k - 1 \in Nat /\ k - 1 >= 1 /\ (k - 1) + 1 = k)
<1>1. /\ events \in Seq(Event) /\ Len(events) \in Nat /\ Len(events) > 0
      /\ Len(events') = Len(events) - 1
      /\ \A k \in 1 .. Len(events') : events'[k] = events[k + 1]
  BY DEF SInv, LastIsLast
<1>2. \A k : Of(q, k)' => k \in Nat /\ k >= 1 /\ Of(q, k + 1) /\ events'[k] = events[k + 1]
  BY <1>1 DEF Of
<1>3. \A k : k \in Nat /\ k >= 1 /\ Of(q, k + 1) => Of(q, k)'
  <2>1. SUFFICES ASSUME NEW k \in Nat, k >= 1, Of(q, k + 1) PROVE Of(q, k)'
    OBVIOUS
  <2>2. k + 1 \in 1 .. Len(events)
    BY <2>1 DEF Of
  <2>3. k \in 1 .. Len(events')
    BY <1>1, <2>1, <2>2
  <2> QED
    BY <1>1, <2>1, <2>3 DEF Of
<1>4. \A k : Of(q, k) => k = 1 \/ (k - 1 \in Nat /\ k - 1 >= 1 /\ (k - 1) + 1 = k)
  BY <1>1 DEF Of
<1> QED
  BY <1>2, <1>3, <1>4

\* What waits for another query goes on waiting; the query of the oldest event has one batch less
\* to wait for.
LEMMA OrderedShift ==
    ASSUME FrontTyped, SInv, events # <<>>, events' = Tail(events), UNCHANGED sent,
           NEW q \in Query, Ordered(q), q \in listeners => q \in listeners',
           \/ q # Head(events).query /\ query'[q].rows = query[q].rows
           \/ q = Head(events).query /\ query'[q].rows = Append(query[q].rows, Head(events).batch)
    PROVE  Ordered(q)'
<1> DEFINE n == Len(query[q].rows)
           m == Len(query'[q].rows)
<1>1. /\ \A k : Of(q, k)' <=> k \in Nat /\ k >= 1 /\ Of(q, k + 1)
      /\ \A k : Of(q, k)' => events'[k] = events[k + 1]
      /\ \A k : Of(q, k) => k = 1 \/ (k - 1 \in Nat /\ k - 1 >= 1 /\ (k - 1) + 1 = k)
  BY EventsShift
<1>2. n \in Nat /\ sent[q] \in Nat /\ query[q].rows \in Seq(Nat)
  BY RowsTyped DEF SInv
<1>3. events \in Seq(Event) /\ Len(events) > 0 /\ Len(events) \in Nat /\ Head(events) = events[1]
  BY DEF SInv, LastIsLast
<1>4. Of(q, 1) <=> q = Head(events).query
  BY <1>3 DEF Of
<1>5. /\ query[q].rows = Upto(n) /\ n <= sent[q]
      /\ \A k : Of(q, k) => q \in listeners /\ events[k].batch \in n + 1 .. sent[q]
      /\ \A k, l : Of(q, k) /\ Of(q, l) /\ k < l => events[k].batch < events[l].batch
      /\ \A b \in n + 1 .. sent[q] : \E k : Of(q, k) /\ events[k].batch = b
  BY DEF Ordered
<1>6. Of(q, 1) => events[1].batch = n + 1
  BY <1>3, <1>4, HeadIsNext
<1>7. /\ query'[q].rows = Upto(m) /\ m \in Nat /\ m <= sent[q]
      /\ ~Of(q, 1) => m = n
      /\ Of(q, 1) => m = n + 1
  <2>1. CASE ~Of(q, 1)
    BY <1>2, <1>4, <1>5, <2>1
  <2>2. CASE Of(q, 1)
    <3>1. query'[q].rows = Append(query[q].rows, n + 1)
      BY <1>3, <1>4, <1>6, <2>2
    <3>2. query'[q].rows = Upto(n + 1)
      BY <1>2, <1>5, <3>1, UptoGrows
    <3>3. m = n + 1
      BY <1>2, <3>1
    <3>4. n + 1 <= sent[q]
      <4>1. events[1].batch \in n + 1 .. sent[q]
        BY <1>5, <2>2
      <4> QED
        BY <1>2, <4>1
    <3> QED
      BY <1>2, <2>2, <3>2, <3>3, <3>4
  <2> QED
    BY <2>1, <2>2
<1> HIDE DEF n, m
<1>8. \A k : Of(q, k)' => q \in listeners' /\ events'[k].batch \in m + 1 .. sent[q]
  <2>1. SUFFICES ASSUME NEW k, Of(q, k)' PROVE q \in listeners' /\ events'[k].batch \in m + 1 .. sent[q]
    OBVIOUS
  <2>2. k \in Nat /\ k >= 1 /\ Of(q, k + 1) /\ events'[k] = events[k + 1]
    BY <1>1, <2>1
  <2>3. q \in listeners /\ events[k + 1].batch \in n + 1 .. sent[q]
    BY <1>5, <2>2
  <2>4. Of(q, 1) => events[1].batch < events[k + 1].batch
    <3>1. PICK i \in Nat : i = k + 1
      BY <2>2
    <3>2. Of(q, i) /\ 1 < i
      BY <2>2, <3>1
    <3> QED
      BY <1>5, <3>1, <3>2
  <2>5. PICK b \in Nat : b = events[k + 1].batch
    BY <1>2, <2>3
  <2>6. b \in n + 1 .. sent[q] /\ (Of(q, 1) => n + 1 < b)
    BY <1>6, <2>3, <2>4, <2>5
  <2>7. b \in m + 1 .. sent[q]
    BY <1>2, <1>7, <2>5, <2>6
  <2> QED
    BY <2>2, <2>3, <2>5, <2>7
<1>9. \A k, l : Of(q, k)' /\ Of(q, l)' /\ k < l => events'[k].batch < events'[l].batch
  <2>1. SUFFICES ASSUME NEW k, NEW l, Of(q, k)', Of(q, l)', k < l
                 PROVE  events'[k].batch < events'[l].batch
    OBVIOUS
  <2>2. /\ k \in Nat /\ Of(q, k + 1) /\ events'[k] = events[k + 1]
        /\ l \in Nat /\ Of(q, l + 1) /\ events'[l] = events[l + 1]
    BY <1>1, <2>1
  <2>3. PICK i \in Nat, j \in Nat : i = k + 1 /\ j = l + 1
    BY <2>2
  <2>4. Of(q, i) /\ Of(q, j) /\ i < j
    BY <2>1, <2>2, <2>3
  <2> QED
    BY <1>5, <2>2, <2>3, <2>4
<1>10. \A b \in m + 1 .. sent[q] : \E k : Of(q, k)' /\ events'[k].batch = b
  <2>1. SUFFICES ASSUME NEW b \in m + 1 .. sent[q] PROVE \E k : Of(q, k)' /\ events'[k].batch = b
    OBVIOUS
  <2>2. b \in n + 1 .. sent[q] /\ (Of(q, 1) => b > n + 1)
    BY <1>2, <1>7, <2>1
  <2>3. PICK k : Of(q, k) /\ events[k].batch = b
    BY <1>5, <2>2
  <2>4. k # 1
    BY <1>2, <1>6, <2>2, <2>3
  <2>5. k - 1 \in Nat /\ k - 1 >= 1 /\ (k - 1) + 1 = k
    BY <1>1, <2>3, <2>4
  <2>6. Of(q, k - 1)' /\ events'[k - 1] = events[k]
    BY <1>1, <2>3, <2>5
  <2> QED
    BY <2>3, <2>6
<1> QED
  BY <1>7, <1>8, <1>9, <1>10 DEF Ordered, m

\* A delivered batch is the next one of its query.
LEMMA DeliverOrders ==
    ASSUME FrontTyped, SInv, Orders, events # <<>>, events' = Tail(events), UNCHANGED <<job, sent>>,
           NEW q \in Query, q = Head(events).query,
           Unheard(q) \/ \E k \in Nat : Adds(q, k) \/ CompletedWith(q, k) \/ FailedWith(q, k)
    PROVE  Orders'
<1>1. SUFFICES ASSUME NEW p \in Query, query'[p].outcome = "none", p \notin missed'
               PROVE  Ordered(p)'
  BY DEF Orders
<1>2. CASE Unheard(q)
  <2>1. /\ UNCHANGED <<query, listeners>>
        /\ missed' = IF q \in listeners THEN missed \cup {q} ELSE missed
    BY <1>2 DEF Unheard
  <2>2. Ordered(p)
    BY <1>1, <2>1 DEF Orders
  <2>3. p # q
    <3>1. q = p => q \in listeners
      BY <2>2, HeadIsNext
    <3> QED
      BY <1>1, <2>1, <3>1
  <2> QED
    BY <2>1, <2>2, <2>3, OrderedShift
<1>3. CASE \E k \in Nat : Adds(q, k)
  <2>1. PICK k \in Nat : Adds(q, k)
    BY <1>3
  <2>2. /\ k = Head(events).batch /\ Only(q) /\ query[q].outcome = "none"
        /\ UNCHANGED <<missed, listeners>>
        /\ query'[q].rows = Append(query[q].rows, k)
    BY <2>1 DEF Adds, Heeds, Fed, Live
  <2>3. Ordered(p)
    BY <1>1, <2>2 DEF Orders, Only
  <2>4. p # q => query'[p].rows = query[p].rows
    BY <2>2 DEF Only
  <2> QED
    BY <2>2, <2>3, <2>4, OrderedShift
<1>4. CASE \E k \in Nat : CompletedWith(q, k) \/ FailedWith(q, k)
  <2>1. /\ Only(q) /\ query'[q].outcome # "none" /\ UNCHANGED missed
        /\ \A r \in Query \ {q} : r \in listeners => r \in listeners'
    BY <1>4 DEF CompletedWith, FailedWith, Heeds
  <2>2. p # q
    BY <1>1, <2>1
  <2>3. Ordered(p) /\ query'[p].rows = query[p].rows
    BY <1>1, <2>1, <2>2 DEF Orders, Only
  <2> QED
    BY <2>1, <2>2, <2>3, OrderedShift
<1> QED
  BY <1>2, <1>3, <1>4
-----------------------------------------------------------------------------
(* Results: of one query, that is settled, all of it and in its tab.       *)

AllShown == \A t \in Tab : Shown(t)

\* Results are of a query that was launched.
LEMMA ShownIsOfAQuery ==
    ASSUME FrontTyped, SInv, NEW t \in Tab, Shown(t), tab[t].results.query # NoQuery
    PROVE  tab[t].results.query \in Query /\ query[tab[t].results.query].phase # "none"
<1> DEFINE q == tab[t].results.query
<1>1. q \in Query
  BY DEF FrontTyped, TabRec
<1>2. query[q].outcome # "none"
  BY DEF Shown
<1>3. CallSettles(q)
  BY <1>1 DEF SInv
<1> QED
  BY <1>1, <1>2, <1>3 DEF CallSettles

\* A step that leaves a tab's results and their query alone.
LEMMA StaysShown ==
    ASSUME FrontTyped, SInv, NEW t \in Tab, Shown(t), tab'[t].results = tab[t].results,
           upset \subseteq upset', missed \subseteq missed',
           \A q \in Query : query[q].outcome # "none" /\ query[q].phase # "none" /\ job[q] \in Past =>
               /\ query'[q].outcome # "none" /\ job'[q] \in Past
               /\ query'[q].rows = query[q].rows /\ sent'[q] = sent[q]
               /\ query'[q].kind = query[q].kind /\ query'[q].home = query[q].home
    PROVE  Shown(t)'
<1>1. CASE tab[t].results.query = NoQuery
  BY <1>1 DEF Shown
<1>2. CASE tab[t].results.query # NoQuery
  <2>1. PICK q \in Query : q = tab[t].results.query /\ query[q].phase # "none"
    BY <1>2, ShownIsOfAQuery
  <2>2. /\ query[q].outcome # "none" /\ job[q] \in Past
        /\ tab[t].results.rows = query[q].rows
        /\ q \notin missed => tab[t].results.rows = Upto(sent[q])
        /\ ("switch" \in upset => query[q].kind = "sort") => query[q].home = t
    BY <1>2, <2>1 DEF Shown
  <2>3. /\ query'[q].outcome # "none" /\ job'[q] \in Past
        /\ query'[q].rows = query[q].rows /\ sent'[q] = sent[q]
        /\ query'[q].kind = query[q].kind /\ query'[q].home = query[q].home
    BY <2>1, <2>2
  <2>4. tab'[t].results.query = q /\ tab'[t].results.rows = tab[t].results.rows
    BY <2>1
  <2>5. q \notin missed' => tab'[t].results.rows = Upto(sent'[q])
    BY <2>2, <2>3, <2>4
  <2>6. ("switch" \in upset' => query'[q].kind = "sort") => query'[q].home = t
    BY <2>2, <2>3
  <2> QED
    BY <1>2, <2>1, <2>2, <2>3, <2>4, <2>5, <2>6 DEF Shown
<1> QED
  BY <1>1, <1>2

\* Results stay while nothing is heard.
LEMMA HushedShows == ASSUME FrontTyped, SInv, AllShown, Hushed PROVE AllShown'
<1>1. /\ \A t \in Tab : tab'[t].results = tab[t].results
      /\ upset \subseteq upset' /\ missed \subseteq missed'
      /\ \A q \in Query : query[q].outcome # "none" /\ query[q].phase # "none" /\ job[q] \in Past =>
               /\ query'[q].outcome # "none" /\ job'[q] \in Past
               /\ query'[q].rows = query[q].rows /\ sent'[q] = sent[q]
               /\ query'[q].kind = query[q].kind /\ query'[q].home = query[q].home
  BY DEF Hushed, OwnFields
<1> QED
  BY <1>1, StaysShown DEF AllShown

\* A query that is shown emits nothing any more.
LEMMA EmitShows == ASSUME FrontTyped, SInv, AllShown, NEW p \in Query, Emits(p) PROVE AllShown'
<1>1. UNCHANGED <<query, tab, upset>> /\ job[p] = "streaming"
      /\ \A q \in Query : job[q] \in Past => job'[q] \in Past
  BY DEF Emits, front
<1>2. missed \subseteq missed' /\ \A q \in Query : q # p => sent'[q] = sent[q]
  BY DEF Emits, Emit, SInv
<1>3. \A q \in Query : job[q] \in Past => q # p
  BY <1>1 DEF Past
<1>4. /\ \A t \in Tab : tab'[t].results = tab[t].results
      /\ upset \subseteq upset' /\ missed \subseteq missed'
      /\ \A q \in Query : query[q].outcome # "none" /\ query[q].phase # "none" /\ job[q] \in Past =>
               /\ query'[q].outcome # "none" /\ job'[q] \in Past
               /\ query'[q].rows = query[q].rows /\ sent'[q] = sent[q]
               /\ query'[q].kind = query[q].kind /\ query'[q].home = query[q].home
  BY <1>1, <1>2, <1>3
<1> QED
  BY <1>4, StaysShown DEF AllShown

\* The last batch puts the results in the tab; an earlier one is of a query that is not shown.
LEMMA DeliverShows ==
    ASSUME FrontTyped, SInv, Orders, Flights, AllShown, events # <<>>, FrontTyped',
           UNCHANGED <<job, sent, active, stopping, upset>>,
           NEW q \in Query, q = Head(events).query,
           Unheard(q) \/ \E k \in Nat : Adds(q, k) \/ CompletedWith(q, k) \/ FailedWith(q, k)
    PROVE  AllShown'
<1>1. /\ missed \subseteq missed'
      /\ \A p \in Query : query[p].outcome # "none" => query'[p] = query[p]
  <2>1. CASE Unheard(q)
    BY <2>1 DEF Unheard
  <2>2. CASE \E k \in Nat : Adds(q, k) \/ CompletedWith(q, k) \/ FailedWith(q, k)
    <3>1. Only(q) /\ query[q].outcome = "none" /\ UNCHANGED missed
      BY <2>2 DEF Adds, CompletedWith, FailedWith, Heeds, Fed, Live
    <3> QED
      BY <3>1 DEF Only
  <2> QED
    BY <2>1, <2>2
<1>2. ASSUME NEW t \in Tab, tab'[t].results = tab[t].results PROVE Shown(t)'
  <2>1. \A p \in Query : query[p].outcome # "none" /\ query[p].phase # "none" /\ job[p] \in Past =>
               /\ query'[p].outcome # "none" /\ job'[p] \in Past
               /\ query'[p].rows = query[p].rows /\ sent'[p] = sent[p]
               /\ query'[p].kind = query[p].kind /\ query'[p].home = query[p].home
    BY <1>1
  <2>2. Shown(t) /\ upset \subseteq upset'
    BY DEF AllShown
  <2> QED
    BY <1>1, <1>2, <2>1, <2>2, StaysShown
<1>3. CASE Unheard(q)
  BY <1>2, <1>3 DEF Unheard, AllShown
<1>4. CASE \E k \in Nat : Adds(q, k) \/ FailedWith(q, k)
  BY <1>2, <1>4 DEF Adds, FailedWith, AllShown
<1>5. CASE \E k \in Nat : CompletedWith(q, k)
  <2>1. PICK k \in Nat : CompletedWith(q, k)
    BY <1>5
  <2>2. /\ k = Head(events).batch /\ InFlight(q) /\ OwnFields(q) /\ query[q].outcome = "none"
        /\ query'[q].rows = Append(query[q].rows, k) /\ query'[q].outcome = "completed"
        /\ Head(events).kind = "final" /\ UNCHANGED missed
    BY <2>1 DEF CompletedWith, Heeds, Fed, Live
  <2>3. job[q] \in Past /\ (Ordered(q) => sent[q] = Len(query[q].rows) + 1)
    BY <2>2, LastIsAll
  <2>4. q \notin missed => query'[q].rows = Upto(sent[q])
    <3>1. SUFFICES ASSUME q \notin missed PROVE query'[q].rows = Upto(sent[q])
      OBVIOUS
    <3>2. Ordered(q)
      BY <2>2, <3>1 DEF Orders
    <3>3. Head(events).batch = Len(query[q].rows) + 1 /\ q \in listeners
      BY <3>2, HeadIsNext
    <3>4. query[q].rows = Upto(Len(query[q].rows)) /\ Len(query[q].rows) \in Nat
      BY <3>2, RowsTyped DEF Ordered
    <3>5. Append(query[q].rows, Len(query[q].rows) + 1) = Upto(Len(query[q].rows) + 1)
      BY <3>4, UptoGrows
    <3> QED
      BY <2>2, <2>3, <3>2, <3>3, <3>5
  <2>5. ASSUME NEW t \in Tab, tab'[t].results = [query |-> q, rows |-> query'[q].rows],
               t = IF query[q].kind = "sort" THEN query[q].home ELSE active
        PROVE  Shown(t)'
    <3>1. ("switch" \in upset => query[q].kind = "sort") => query[q].home = t
      BY <2>2, <2>5 DEF Flights, Homes
    <3>2. q # NoQuery
      BY RuntimeAssumption
    <3>3. tab'[t].results.query = q /\ tab'[t].results.rows = query'[q].rows
      BY <2>5
    <3>4. /\ query'[q].outcome # "none" /\ job'[q] \in Past
          /\ q \notin missed' => query'[q].rows = Upto(sent'[q])
      BY <2>2, <2>3, <2>4
    <3>5. query'[q].kind = query[q].kind /\ query'[q].home = query[q].home /\ upset' = upset
      BY <2>2 DEF OwnFields
    <3> QED
      BY <3>1, <3>2, <3>3, <3>4, <3>5 DEF Shown
  <2>6. \A t \in Tab :
          \/ tab'[t].results = tab[t].results
          \/ /\ tab'[t].results = [query |-> q, rows |-> query'[q].rows]
             /\ t = IF query[q].kind = "sort" THEN query[q].home ELSE active
    BY <2>1 DEF CompletedWith
  <2> QED
    BY <1>2, <2>5, <2>6 DEF AllShown
<1> QED
  BY <1>3, <1>4, <1>5

-----------------------------------------------------------------------------
(* The row store: the last rows of the query that streams.                 *)

\* Rows s are the last of the batches rows of q.
Suffix(s, q, rows) ==
    /\ Len(s) <= Len(rows)
    /\ \A i \in 1 .. Len(s) : s[i] = <<q, rows[Len(rows) - Len(s) + i]>>

Gentle == {"overlap", "early stop"} \cap upset = {}

StoreIsOwn ==
    Gentle => /\ IF store.query = NoQuery THEN store.rows = <<>>
                 ELSE Suffix(store.rows, store.query, query[store.query].rows)
              /\ \A q \in Query : Fed(q) => store.query = q /\ store.streaming

\* The ring buffer keeps the last rows.
LEMMA SuffixGrows ==
    ASSUME NEW s \in Seq(Query \X Nat), NEW q \in Query, NEW rows \in Seq(Nat), NEW k \in Nat,
           Suffix(s, q, rows)
    PROVE  Suffix(LastRows(Append(s, <<q, k>>)), q, Append(rows, k))
<1> DEFINE l == Append(s, <<q, k>>)
           more == Append(rows, k)
<1>1. /\ Len(s) \in Nat /\ Len(rows) \in Nat /\ Len(s) <= Len(rows)
      /\ \A i \in 1 .. Len(s) : s[i] = <<q, rows[Len(rows) - Len(s) + i]>>
  BY DEF Suffix
<1>2. /\ l \in Seq(Query \X Nat) /\ Len(l) = Len(s) + 1 /\ l[Len(s) + 1] = <<q, k>>
      /\ \A i \in 1 .. Len(s) : l[i] = s[i]
  OBVIOUS
<1>3. /\ more \in Seq(Nat) /\ Len(more) = Len(rows) + 1 /\ more[Len(rows) + 1] = k
      /\ \A i \in 1 .. Len(rows) : more[i] = rows[i]
  OBVIOUS
<1> HIDE DEF l, more
<1>4. Suffix(l, q, more)
  <2>1. SUFFICES ASSUME NEW i \in 1 .. Len(l) PROVE l[i] = <<q, more[Len(more) - Len(l) + i]>>
    BY <1>1, <1>2, <1>3 DEF Suffix
  <2>2. Len(more) - Len(l) + i = Len(rows) - Len(s) + i
    BY <1>1, <1>2, <1>3
  <2>3. CASE i = Len(s) + 1
    BY <1>1, <1>2, <1>3, <2>2, <2>3
  <2>4. CASE i \in 1 .. Len(s)
    <3>1. Len(rows) - Len(s) + i \in 1 .. Len(rows)
      BY <1>1, <2>4
    <3> QED
      BY <1>1, <1>2, <1>3, <2>2, <2>4, <3>1
  <2> QED
    BY <1>1, <1>2, <2>1, <2>3, <2>4
<1>5. CASE Len(l) <= StoreLimit
  BY <1>4, <1>5 DEF LastRows, l, more
<1>6. CASE ~(Len(l) <= StoreLimit)
  <2> DEFINE a == Len(l) - StoreLimit + 1
             last == SubSeq(l, a, Len(l))
  <2>1. StoreLimit \in Nat \ {0} /\ Len(l) \in Nat
    BY <1>2, RuntimeAssumption
  <2>2. a \in 1 .. Len(l) + 1 /\ a >= 1
    BY <1>6, <2>1
  <2>3. /\ last \in Seq(Query \X Nat) /\ Len(last) = StoreLimit
        /\ \A i \in 1 .. StoreLimit : last[i] = l[a + i - 1]
    <3>1. SubSeq(l, a, Len(l)) \in Seq(Query \X Nat)
      BY <1>2, <2>1, <2>2, SubSeqProperties
    <3>2. Len(SubSeq(l, a, Len(l))) = IF a <= Len(l) THEN Len(l) - a + 1 ELSE 0
      BY <1>2, <2>1, <2>2, SubSeqProperties
    <3>3. a <= Len(l) /\ Len(l) - a + 1 = StoreLimit
      BY <2>1
    <3>4. \A i \in 1 .. Len(l) - a + 1 : SubSeq(l, a, Len(l))[i] = l[a + i - 1]
      BY <1>2, <2>1, <2>2, SubSeqProperties
    <3> QED
      BY <3>1, <3>2, <3>3, <3>4
  <2>4. LastRows(l) = last
    BY <1>6 DEF LastRows
  <2> HIDE DEF last
  <2>5. Suffix(last, q, more)
    <3>1. Len(more) \in Nat /\ Len(l) <= Len(more) /\ StoreLimit <= Len(l)
      BY <1>1, <1>2, <1>3, <1>6, <2>1
    <3>2. SUFFICES ASSUME NEW i \in 1 .. StoreLimit
                   PROVE  last[i] = <<q, more[Len(more) - StoreLimit + i]>>
      BY <2>1, <2>3, <3>1 DEF Suffix
    <3>3. a + i - 1 \in 1 .. Len(l) /\ Len(more) - Len(l) + (a + i - 1) = Len(more) - StoreLimit + i
      BY <2>1, <2>2, <3>1
    <3>4. l[a + i - 1] = <<q, more[Len(more) - Len(l) + (a + i - 1)]>>
      BY <1>4, <3>3 DEF Suffix
    <3> QED
      BY <2>3, <3>3, <3>4
  <2> QED
    BY <2>4, <2>5 DEF l, more
<1> QED
  BY <1>5, <1>6
\* Who is fed is in flight.
LEMMA FedFlies == ASSUME NEW q \in Query, Fed(q) PROVE InFlight(q) /\ Live(q)
BY DEF Fed, Live, InFlight

\* The store keeps its rows, and so does their query.
LEMMA StoreKept ==
    ASSUME FrontTyped, StoreIsOwn, upset \subseteq upset',
           \A q \in Query : query'[q].rows = query[q].rows,
           store' = store \/ store' = Finalized(store),
           Gentle' => \A q \in Query : Fed(q)' => Fed(q) /\ store' = store
    PROVE  StoreIsOwn'
<1>1. SUFFICES ASSUME Gentle'
               PROVE  /\ IF store'.query = NoQuery THEN store'.rows = <<>>
                         ELSE Suffix(store'.rows, store'.query, query'[store'.query].rows)
                      /\ \A q \in Query : Fed(q)' => store'.query = q /\ store'.streaming
  BY DEF StoreIsOwn
<1>2. Gentle
  BY <1>1 DEF Gentle
<1>3. store'.query = store.query /\ store'.rows = store.rows /\ store.query \in Query \cup {NoQuery}
  BY DEF FrontTyped, StoreRec, Finalized
<1>4. \A q \in Query : Fed(q)' => store'.query = q /\ store'.streaming
  BY <1>1, <1>2 DEF StoreIsOwn
<1>5. CASE store.query = NoQuery
  BY <1>2, <1>3, <1>4, <1>5 DEF StoreIsOwn
<1>6. CASE store.query # NoQuery
  <2>1. query'[store.query].rows = query[store.query].rows
    BY <1>3, <1>6
  <2> QED
    BY <1>2, <1>3, <1>4, <1>6, <2>1 DEF StoreIsOwn
<1> QED
  BY <1>5, <1>6

\* A reset store holds rows of the query that is about to stream.
LEMMA StoreReset ==
    ASSUME FrontTyped, NEW q \in Query, store' = Reset(q), query'[q].rows \in Seq(Nat),
           Gentle' => \A p \in Query : Fed(p)' => p = q
    PROVE  StoreIsOwn'
<1>1. store'.query = q /\ store'.rows = <<>> /\ store'.streaming /\ q # NoQuery
  BY RuntimeAssumption DEF Reset
<1>2. Suffix(store'.rows, q, query'[q].rows)
  BY <1>1 DEF Suffix
<1> QED
  BY <1>1, <1>2 DEF StoreIsOwn

\* A launch leaves the store alone.
LEMMA BeginStore ==
    ASSUME FrontTyped, StoreIsOwn, NEW q \in Query, Begun(q), Hushed
    PROVE  StoreIsOwn'
<1>1. /\ store' = store /\ upset \subseteq upset'
      /\ \A p \in Query : query'[p].rows = query[p].rows
  BY DEF Begun, Hushed
<1>2. ~Fed(q)'
  BY DEF Begun, Fed
<1>3. \A p \in Query : Fed(p)' => Fed(p) /\ store' = store
  BY <1>1, <1>2 DEF Begun, Only, Fed, Live
<1> QED
  BY <1>1, <1>3, StoreKept

\* A call that goes on resets the store for its own query, or leaves it.
LEMMA FeedsStore ==
    ASSUME FrontTyped, FrontTyped', Flights, StoreIsOwn, NEW q \in Query, Flies(q), Feeds(q), Hushed
    PROVE  StoreIsOwn'
<1>1. /\ InFlight(q) /\ Only(q) /\ OwnFields(q) /\ upset \subseteq upset'
      /\ store' \in {store, Finalized(store), Reset(q)}
      /\ Fed(q)' => store' = Reset(q) \/ (store' = store /\ Fed(q))
      /\ \A p \in Query : query'[p].rows = query[p].rows
  BY DEF Flies, Feeds, Hushed
<1>2. Gentle' => \A p \in Query : Fed(p)' => p = q
  <2>1. SUFFICES ASSUME Gentle', NEW p \in Query, Fed(p)', p # q PROVE FALSE
    OBVIOUS
  <2>2. Fed(p)
    BY <1>1, <2>1 DEF Only, Fed, Live
  <2>3. InFlight(p)
    BY <2>2, FedFlies
  <2>4. "overlap" \notin upset
    BY <1>1, <2>1 DEF Gentle
  <2> QED
    BY <1>1, <2>1, <2>3, <2>4 DEF Flights, Alone
<1>3. CASE store' = Reset(q)
  <2>1. query'[q].rows \in Seq(Nat)
    BY <1>1, RowsTyped
  <2> QED
    BY <1>2, <1>3, <2>1, StoreReset
<1>4. CASE store' # Reset(q)
  <2>1. Gentle' => \A p \in Query : Fed(p)' => Fed(p) /\ store' = store
    BY <1>1, <1>2, <1>4
  <2>2. store' = store \/ store' = Finalized(store)
    BY <1>1, <1>4
  <2> QED
    BY <1>1, <2>1, <2>2, StoreKept
<1> QED
  BY <1>3, <1>4

\* Stop finalises the store of the query it stops.
LEMMA StopStore ==
    ASSUME FrontTyped, Flights, StoreIsOwn, Hushed,
           \/ \E q \in Query : Stopped(q)
           \/ "early stop" \in upset' /\ UNCHANGED <<query, active, handle, store, stopping>>
    PROVE  StoreIsOwn'
<1>1. /\ upset \subseteq upset'
      /\ \A p \in Query : query'[p].rows = query[p].rows
  BY DEF Hushed
<1>2. CASE "early stop" \in upset'
  <2>1. ~Gentle'
    BY <1>2 DEF Gentle
  <2> QED
    BY <2>1 DEF StoreIsOwn
<1>3. CASE "early stop" \notin upset'
  <2>1. PICK q \in Query : Stopped(q)
    BY <1>3
  <2>2. /\ Only(q) /\ query[q].phase = "live" /\ query[q].outcome = "none"
        /\ query'[q].outcome # "none" /\ store' = Finalized(store)
    BY <1>3, <2>1 DEF Stopped
  <2>3. Gentle' => \A p \in Query : ~Fed(p)'
    <3>1. SUFFICES ASSUME Gentle', NEW p \in Query, Fed(p)' PROVE FALSE
      OBVIOUS
    <3>2. p # q
      BY <2>2, <3>1 DEF Fed, Live
    <3>3. Fed(p)
      BY <2>2, <3>1, <3>2 DEF Only, Fed, Live
    <3>4. InFlight(p) /\ InFlight(q)
      BY <2>2, <3>3, FedFlies DEF InFlight
    <3>5. "overlap" \notin upset
      BY <1>1, <3>1 DEF Gentle
    <3> QED
      BY <3>2, <3>4, <3>5 DEF Flights, Alone
  <2> QED
    BY <1>1, <2>2, <2>3, StoreKept
<1> QED
  BY <1>2, <1>3

\* The grid of an idle store shows the results of the tab, which are those of their query.
LEMMA OtherStore ==
    ASSUME FrontTyped, AllShown, StoreIsOwn, query' = query, upset \subseteq upset',
           ServeCancel \/ StopReturns \/ AgentCancels \/ Hydrate \/ (\E t \in Tab : SwitchTab(t))
           \/ store' = store
    PROVE  StoreIsOwn'
<1>1. \A q \in Query : Fed(q)' => Fed(q)
  BY DEF Fed, Live
<1>2. CASE store' = store
  BY <1>1, <1>2, StoreKept
<1>3. CASE ServeCancel \/ StopReturns \/ \E t \in Tab : SwitchTab(t)
  <2>1. store' = store
    BY <1>3 DEF ServeCancel, StopReturns, SwitchTab
  <2> QED
    BY <1>1, <2>1, StoreKept
<1>4. CASE AgentCancels
  <2>1. ~Gentle'
    BY <1>4 DEF AgentCancels, Upset, Gentle
  <2> QED
    BY <2>1 DEF StoreIsOwn
<1>5. CASE Hydrate
  <2> DEFINE r == tab[active].results
             shown == [i \in 1 .. Len(r.rows) |-> <<r.query, r.rows[i]>>]
  <2>1. /\ ~store.streaming /\ r.rows # <<>> /\ upset' = upset
        /\ store' = [query |-> r.query, rows |-> shown, streaming |-> FALSE]
    BY <1>5 DEF Hydrate
  <2>2. active \in Tab /\ r.query \in Query \cup {NoQuery} /\ r.rows \in Seq(Nat)
    BY DEF FrontTyped, TabRec
  <2>3. r.query # NoQuery /\ r.rows = query[r.query].rows
    BY <2>1, <2>2 DEF AllShown, Shown
  <2> HIDE DEF r
  <2>4. Len(shown) = Len(r.rows) /\ Len(r.rows) \in Nat
        /\ \A i \in 1 .. Len(r.rows) : shown[i] = <<r.query, r.rows[i]>>
    BY <2>2
  <2> HIDE DEF shown
  <2>5. Suffix(shown, r.query, r.rows)
    BY <2>4 DEF Suffix
  <2>6. Gentle' => \A q \in Query : ~Fed(q)'
    <3>1. Gentle' => Gentle
      BY <2>1 DEF Gentle
    <3> QED
      BY <1>1, <2>1, <3>1 DEF StoreIsOwn
  <2>7. store'.query = r.query /\ store'.rows = shown
    BY <2>1
  <2> QED
    BY <2>3, <2>5, <2>6, <2>7 DEF StoreIsOwn
<1> QED
  BY <1>2, <1>3, <1>4, <1>5

\* A batch that is heard is of the query whose rows the store holds.
LEMMA DeliverStore ==
    ASSUME FrontTyped, Flights, StoreIsOwn, UNCHANGED upset, NEW q \in Query,
           Unheard(q) \/ \E k \in Nat : Adds(q, k) \/ CompletedWith(q, k) \/ FailedWith(q, k)
    PROVE  StoreIsOwn'
<1>1. Gentle' <=> Gentle
  BY DEF Gentle
<1>2. CASE Unheard(q)
  <2>1. UNCHANGED <<query, store>>
    BY <1>2 DEF Unheard
  <2> QED
    BY <1>1, <2>1 DEF StoreIsOwn, Fed, Live
<1>3. CASE \E k \in Nat : Adds(q, k) \/ CompletedWith(q, k) \/ FailedWith(q, k)
  <2>1. PICK k \in Nat : Adds(q, k) \/ CompletedWith(q, k) \/ FailedWith(q, k)
    BY <1>3
  <2>2. InFlight(q) /\ Fed(q) /\ Only(q) /\ q # NoQuery
    BY <2>1, RuntimeAssumption DEF Adds, CompletedWith, FailedWith, Heeds
  <2>3. SUFFICES ASSUME Gentle
                 PROVE  /\ IF store'.query = NoQuery THEN store'.rows = <<>>
                           ELSE Suffix(store'.rows, store'.query, query'[store'.query].rows)
                        /\ \A p \in Query : Fed(p)' => store'.query = p /\ store'.streaming
    BY <1>1 DEF StoreIsOwn
  <2>4. /\ store.query = q /\ store.streaming /\ Suffix(store.rows, q, query[q].rows)
    BY <2>2, <2>3 DEF StoreIsOwn
  <2>5. \A p \in Query : Fed(p)' => p = q
    <3>1. SUFFICES ASSUME NEW p \in Query, Fed(p)', p # q PROVE FALSE
      OBVIOUS
    <3>2. Fed(p)
      BY <2>2, <3>1 DEF Only, Fed, Live
    <3>3. InFlight(p)
      BY <3>2, FedFlies
    <3> QED
      BY <2>2, <2>3, <3>1, <3>3 DEF Gentle, Flights, Alone
  <2>6. /\ Reset(q) \in StoreRec
        /\ Finalized(store) \in StoreRec
        /\ Finalized(store).query = store.query /\ Finalized(store).rows = store.rows
        /\ AppendBatch(q, k) \in StoreRec
        /\ AppendBatch(q, k).query = store.query
        /\ AppendBatch(q, k).streaming = store.streaming
        /\ AppendBatch(q, k).rows = LastRows(Append(store.rows, <<q, k>>))
        /\ Finalized(AppendBatch(q, k)) \in StoreRec
        /\ Finalized(AppendBatch(q, k)).query = store.query
        /\ Finalized(AppendBatch(q, k)).rows = LastRows(Append(store.rows, <<q, k>>))
    BY StoreView
  <2>7. Suffix(LastRows(Append(store.rows, <<q, k>>)), q, Append(query[q].rows, k))
    <3>1. store.rows \in Seq(Query \X Nat) /\ query[q].rows \in Seq(Nat)
      BY RowsTyped DEF FrontTyped, StoreRec
    <3> QED
      BY <2>4, <3>1, SuffixGrows
  <2>8. CASE Adds(q, k)
    <3>1. store' = AppendBatch(q, k) /\ query'[q].rows = Append(query[q].rows, k)
      BY <2>8 DEF Adds
    <3> QED
      BY <2>2, <2>4, <2>5, <2>6, <2>7, <3>1
  <2>9. CASE CompletedWith(q, k)
    <3>1. /\ store' = Finalized(AppendBatch(q, k)) /\ query'[q].rows = Append(query[q].rows, k)
          /\ query'[q].outcome # "none"
      BY <2>9 DEF CompletedWith
    <3>2. \A p \in Query : ~Fed(p)'
      BY <2>5, <3>1 DEF Fed, Live
    <3> QED
      BY <2>2, <2>4, <2>6, <2>7, <3>1, <3>2
  <2>10. CASE FailedWith(q, k)
    <3>1. /\ store' = Finalized(store) /\ query'[q].rows = query[q].rows
          /\ query'[q].outcome # "none"
      BY <2>10 DEF FailedWith
    <3>2. \A p \in Query : ~Fed(p)'
      BY <2>5, <3>1 DEF Fed, Live
    <3> QED
      BY <2>2, <2>4, <2>6, <3>1, <3>2
  <2> QED
    BY <2>1, <2>8, <2>9, <2>10
<1> QED
  BY <1>2, <1>3
-----------------------------------------------------------------------------
(* Together.                                                               *)

RInv == FrontTyped /\ DeadSettled /\ Flights /\ Orders /\ AllShown /\ StoreIsOwn

\* Nothing has been run.
LEMMA InitRuns == Init => RInv
<1> SUFFICES ASSUME Init PROVE RInv
  OBVIOUS
<1> USE DEF Init, NativeInit
<1>1. FrontTyped
  <2>1. query \in [Query -> CallRec] /\ tab \in [Tab -> TabRec]
    BY FirstIsTab DEF CallRec, TabRec, NoResults
  <2>2. store \in StoreRec /\ stopping \in [query : Query \cup {NoQuery}, served : BOOLEAN]
    BY DEF StoreRec, NotStopping
  <2> QED
    BY <2>1, <2>2, FirstIsTab DEF FrontTyped
<1>2. \A q \in Query : query[q].phase = "none" /\ query[q].rows = <<>>
  OBVIOUS
<1>3. DeadSettled /\ Flights
  BY <1>2 DEF DeadSettled, Flights, Homes, Alone, StopsIdle, ServedIsNamed, StopReachesQuery, InFlight,
              Live, NotStopping
<1>4. Orders
  <2>1. SUFFICES ASSUME NEW q \in Query PROVE Ordered(q)
    BY DEF Orders
  <2>2. Len(query[q].rows) = 0 /\ sent[q] = 0 /\ \A k : ~Of(q, k)
    BY <1>2 DEF Of
  <2>3. query[q].rows = Upto(0)
    BY <1>2 DEF Upto
  <2> QED
    BY <2>2, <2>3 DEF Ordered
<1>5. AllShown
  BY DEF AllShown, Shown, NoResults
<1>6. StoreIsOwn
  BY <1>2 DEF StoreIsOwn, Fed, Live
<1> QED
  BY <1>1, <1>3, <1>4, <1>5, <1>6 DEF RInv

\* Every step keeps it.
LEMMA NextRuns == ASSUME RInv, IInv, SInv, [Next]_vars PROVE RInv'
<1> USE DEF RInv
<1>1. CASE \E q \in Query : Begin(q)
  <2>1. PICK q \in Query : Begin(q)
    BY <1>1
  <2>2. FrontTyped' /\ DeadSettled' /\ Hushed /\ Begun(q)
    BY <2>1, BeginView
  <2> QED
    BY <2>2, BeginFlights, HushedOrders, HushedShows, BeginStore
<1>2. CASE \E q \in Query : Native(q)
  <2>1. PICK q \in Query : Native(q)
    BY <1>2
  <2>2. FrontTyped' /\ DeadSettled' /\ UNCHANGED front /\ (Hushed \/ Emits(q))
    BY <2>1, NativeView
  <2>3. UNCHANGED <<query, tab, active, handle, stopping, upset, store>> /\ upset \subseteq upset'
    BY <2>2 DEF front
  <2>4. Flights' /\ StoreIsOwn'
    BY <2>3, OtherFlights, OtherStore
  <2>5. Orders' /\ AllShown'
    BY <2>2, HushedOrders, HushedShows, EmitOrders, EmitShows
  <2> QED
    BY <2>2, <2>4, <2>5
<1>3. CASE \E q \in Query : Continue(q) \/ AgentTimesOut(q)
  <2>1. PICK q \in Query : Continue(q) \/ AgentTimesOut(q)
    BY <1>3
  <2>2. FrontTyped' /\ DeadSettled' /\ Hushed /\ Flies(q) /\ Feeds(q)
    BY <2>1, ContinueView, TimeOutView
  <2>3. query'[q].outcome = "none" => query[q].outcome = "none"
    BY <2>2 DEF Hushed
  <2> QED
    BY <2>2, <2>3, FliesOn, HushedOrders, HushedShows, FeedsStore
<1>4. CASE Deliver
  <2>1. /\ FrontTyped' /\ DeadSettled'
        /\ events # <<>> /\ events' = Tail(events)
        /\ UNCHANGED <<job, sent, active, stopping, upset>>
        /\ \E q \in Query :
              /\ q = Head(events).query
              /\ Unheard(q) \/ \E k \in Nat : Adds(q, k) \/ CompletedWith(q, k) \/ FailedWith(q, k)
    BY <1>4, DeliverView
  <2>2. PICK q \in Query :
              /\ q = Head(events).query
              /\ Unheard(q) \/ \E k \in Nat : Adds(q, k) \/ CompletedWith(q, k) \/ FailedWith(q, k)
    BY <2>1
  <2>3. Orders' /\ AllShown' /\ StoreIsOwn'
    BY <2>1, <2>2, DeliverOrders, DeliverShows, DeliverStore
  <2>4. Flights'
    <3>1. CASE Unheard(q)
      BY <2>1, <3>1, OtherFlights DEF Unheard
    <3>2. CASE \E k \in Nat : Adds(q, k) \/ CompletedWith(q, k) \/ FailedWith(q, k)
      <4>1. /\ InFlight(q) /\ Only(q) /\ OwnFields(q) /\ query'[q].phase = query[q].phase
            /\ query[q].outcome = "none"
            /\ query'[q].outcome # "none" \/ UNCHANGED <<tab, handle>>
        BY <3>2 DEF Adds, CompletedWith, FailedWith, Heeds, Fed, Live
      <4>2. Flies(q)
        BY <2>1, <4>1 DEF Flies, Live
      <4> QED
        BY <2>1, <4>1, <4>2, FliesOn
    <3> QED
      BY <2>2, <3>1, <3>2
  <2> QED
    BY <2>1, <2>3, <2>4
<1>5. CASE Stop
  <2>1. /\ FrontTyped' /\ DeadSettled' /\ Hushed
        /\ \/ \E q \in Query : Stopped(q)
           \/ "early stop" \in upset' /\ UNCHANGED <<query, active, handle, store, stopping>>
    BY <1>5, StopView
  <2>2. upset \subseteq upset'
    BY <2>1 DEF Hushed
  <2> QED
    BY <2>1, <2>2, StopFlights, HushedOrders, HushedShows, StopStore
<1>6. CASE ServeCancel \/ StopReturns \/ AgentCancels \/ Hydrate \/ (\E t \in Tab : SwitchTab(t))
           \/ UNCHANGED vars
  <2>1. FrontTyped' /\ DeadSettled' /\ Hushed /\ query' = query
    BY <1>6, OtherView DEF AllShown
  <2>2. upset \subseteq upset'
    BY <2>1 DEF Hushed
  <2>3. UNCHANGED vars => UNCHANGED <<tab, active, handle, stopping, upset>> /\ store' = store
    BY DEF vars, front
  <2>4. Flights' /\ StoreIsOwn'
    BY <1>6, <2>1, <2>2, <2>3, OtherFlights, OtherStore
  <2> QED
    BY <2>1, <2>4, HushedOrders, HushedShows
<1> QED
  BY <1>1, <1>2, <1>3, <1>4, <1>5, <1>6 DEF Next

\* What is always so.
LEMMA Runs == Spec => [](RInv /\ IInv /\ SInv)
<1>1. Init => RInv /\ IInv /\ SInv
  BY InitRuns, InitIInv, InitSettles
<1>2. (RInv /\ IInv /\ SInv) /\ [Next]_vars => (RInv /\ IInv /\ SInv)'
  BY NextRuns, NextIInv, NextSettles
<1> QED
  BY <1>1, <1>2, PTL DEF Spec

\* Results in a tab are all the batches of one query, in order, unless the query emitted some
\* before it was listened to, for any queries, tabs, drivers and bounds, whatever is stopped,
\* times out or overlaps (runtime.ts 258, registerHandlers.ts 490, QueryManager.ts 169).
THEOREM Complete == Spec => []ResultsAreComplete
<1>1. RInv => ResultsAreComplete
  BY DEF RInv, AllShown, Shown, ResultsAreComplete, Upto
<1> QED
  BY <1>1, Runs, PTL

\* Results are in the tab their query was started from, unless the tab was changed while a
\* query was in flight; those of a sort or filter are always
\* (useAppQueryController.ts 46, QueryManager.ts 191).
THEOREM OwnTab == Spec => []ResultsInOwnTab
<1>1. RInv => ResultsInOwnTab
  BY DEF RInv, AllShown, Shown, ResultsInOwnTab
<1> QED
  BY <1>1, Runs, PTL

\* The rows of the store are the last ones of the query it names, in order, unless queries
\* overlap or a tab is shown idle too early (RowStore.ts 43, VirtualTable.tsx 781).
THEOREM OwnRows == Spec => []StoreRowsAreOwn
<1>1. ASSUME RInv PROVE StoreRowsAreOwn
  <2>1. SUFFICES ASSUME Gentle, NEW i \in 1 .. Len(store.rows)
                 PROVE  store.rows[i] = <<store.query, query[store.query].rows[
                                   Len(query[store.query].rows) - Len(store.rows) + i]>>
    BY DEF StoreRowsAreOwn, Gentle
  <2>2. store.query # NoQuery
    BY <1>1, <2>1 DEF RInv, StoreIsOwn
  <2>3. Suffix(store.rows, store.query, query[store.query].rows)
    BY <1>1, <2>1, <2>2 DEF RInv, StoreIsOwn
  <2> QED
    BY <2>3 DEF Suffix
<1>2. RInv => StoreRowsAreOwn
  BY <1>1
<1> QED
  BY <1>2, Runs, PTL

\* A query that is not settled has a Stop button, and the button stops it, unless tabs are
\* changed, queries started together or Stop pressed too early
\* (useAppQueryController.ts 54, 149).
THEOREM StopReaches == Spec => []StopReachesQuery
<1>1. RInv => StopReachesQuery
  BY DEF RInv, Flights
<1> QED
  BY <1>1, Runs, PTL
=============================================================================
