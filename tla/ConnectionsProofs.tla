-------------------------- MODULE ConnectionsProofs --------------------------
(***************************************************************************)
(* For any connections, configurations, flows and servers: the             *)
(* configuration the read-only policy is read from is the one the pool was *)
(* opened with, and the sidebar lists the connections that are open, as    *)
(* long as no two flows meet on a connection.                              *)
(*                                                                         *)
(* A connection that was not raced has at most one writer, a flow or the   *)
(* monitor.  Sound says how far that writer has come, and a step of anyone *)
(* else leaves the connection aside.                                       *)
(***************************************************************************)
EXTENDS Connections, TLAPS, FiniteSetTheorems

Steps == {"open", "insert", "configure", "remove", "unconfigure", "policy", "get", "run", "done",
          "failed"}
Order == [op : {"none", "connect", "disconnect", "ping", "query"}, id : Id \cup {SomeId},
          config : Config \cup {None}, step : Steps]
Round == [step : {"rest", "ping", "answer", "config", "open", "insert", "configure"},
          todo : SUBSET Id, id : Id \cup {SomeId}, config : Config \cup {None}]
Stages == {"idle", "connecting", "pinging", "closing", "fixing", "cleaning"}
Excuse == {"none", "tested", "refused", "raced"}

Typed ==
    /\ pool \in [Id -> Config \cup {None}]
    /\ conf \in [Id -> Config \cup {None}]
    /\ command \in [Caller -> Order]
    /\ monitor \in Round
    /\ monitor.step # "rest" => monitor.id \in Id
    /\ flow \in [Caller -> Stages]
    /\ \A c \in Caller : flow[c] # "idle" => command[c].id \in Id
    /\ listed \subseteq Id
    /\ restoring \subseteq Id
    /\ excuse \in [Id -> Excuse]

\* What a caller that awaits the stage may have asked for.
Opening == {"open", "insert", "configure", "done", "failed"}
Awaits(c) ==
    LET step == command[c].step
    IN  \/ flow[c] = "idle" /\ step = "done"
        \/ /\ c \in {"restore", "connect", "test"} /\ flow[c] \in {"connecting", "fixing"}
           /\ flow[c] = "fixing" => c = "connect"
           /\ step \in Opening
           /\ step \in {"open", "insert", "configure"} => command[c].config # None
        \/ c = "test" /\ flow[c] = "pinging" /\ step \in {"get", "run", "done", "failed"}
        \/ c = "query" /\ flow[c] = "pinging" /\ step \in {"policy", "get", "run", "done", "failed"}
        \/ c \in {"test", "disconnect"} /\ flow[c] = "closing"
           /\ step \in {"remove", "unconfigure", "done"}
        \/ c = "connect" /\ flow[c] = "cleaning" /\ step \in {"remove", "unconfigure", "done"}

\* The sidebar and the pools agree.
Even(i) == i \in listed <=> pool[i] # None

\* Nobody has begun to open or close i.
AtRest(i) ==
    /\ conf[i] = pool[i]
    /\ excuse[i] = "none" => Even(i)
    /\ excuse[i] = "refused" => pool[i] # None

\* The only writer of i, the caller c, is half-way.
Halfway(c, i) ==
    LET step == command[c].step
    IN  /\ step = "configure" => pool[i] = command[c].config
        /\ step = "unconfigure" => pool[i] = None
        /\ step \notin {"configure", "unconfigure"} => conf[i] = pool[i]
        /\ flow[c] \in {"connecting", "fixing"} /\ step \in {"configure", "done"} => pool[i] # None
        /\ flow[c] \in {"closing", "cleaning"} /\ step \in {"unconfigure", "done"} => pool[i] = None
        /\ excuse[i] = "none" =>
              /\ flow[c] \in {"connecting", "fixing"} /\ step \notin {"configure", "done"} => Even(i)
              /\ flow[c] \in {"closing", "cleaning"} => c = "disconnect"
        /\ excuse[i] = "refused" =>
              /\ flow[c] \notin {"closing", "cleaning"} => pool[i] # None
              /\ flow[c] \in {"closing", "cleaning"} => c = "disconnect"

\* The monitor is about to put back what it found.
Reconnecting(i) ==
    /\ IF monitor.step = "configure" THEN pool[i] = monitor.config ELSE conf[i] = pool[i]
    /\ monitor.config # None /\ pool[i] # None
    /\ excuse[i] = "none" => Even(i)

\* How far w has come with i, when nobody else writes it.
Come(w, i) == IF w \notin Writers(i) THEN AtRest(i)
              ELSE IF w = Monitor THEN Reconnecting(i) ELSE Halfway(w, i)

Actor == (Caller \ {"query"}) \cup {Monitor}

Sound(i) ==
    excuse[i] # "raced" =>
        /\ \A w, v \in Writers(i) : w = v
        /\ Calm(i) => AtRest(i)
        /\ \A w \in Writers(i) : Come(w, i)

CInv == Typed /\ (\A c \in Caller : Awaits(c)) /\ \A i \in Id : Sound(i)
-----------------------------------------------------------------------------
\* Who writes a connection.

\* There are finitely many flows.
LEMMA FewCallers == IsFiniteSet(Caller \cup {Monitor})
  <1> DEFINE Some == ((((({} \cup {"connect"}) \cup {"test"}) \cup {"restore"}) \cup {"disconnect"})
                       \cup {"query"}) \cup {Monitor}
  <1>1. IsFiniteSet(Some)
    BY FS_EmptySet, FS_AddElement
  <1>2. Caller \cup {Monitor} \in SUBSET Some
    BY ConnectionsAssumption
  <1> QED BY <1>1, <1>2, FS_Subset

\* A set with two members has more than one.
LEMMA TwoMembers ==
  ASSUME NEW S, IsFiniteSet(S), NEW w \in S, NEW v \in S, w # v
  PROVE  Cardinality(S) > 1
  <1>1. IsFiniteSet({w}) /\ Cardinality({w}) = 1
    BY FS_Singleton
  <1>2. IsFiniteSet({w} \cup {v}) /\ Cardinality({w} \cup {v}) = Cardinality({w}) + 1
    BY <1>1, FS_AddElement
  <1>3. {w} \cup {v} \in SUBSET S
    OBVIOUS
  <1>4. Cardinality({w} \cup {v}) <= Cardinality(S)
    BY <1>3, FS_Subset
  <1>5. Cardinality(S) \in Nat
    BY FS_CardinalityType
  <1> QED BY <1>1, <1>2, <1>4, <1>5

\* A step that leaves a connection unraced found it unraced, leaves it to one writer and
\* gives the excuse it says.
LEMMA Marks ==
  ASSUME NEW S, NEW e, Excuses(S, e), NEW i \in Id, excuse'[i] # "raced"
  PROVE  /\ excuse[i] # "raced"
         /\ \A w, v \in Writers(i)' : w = v
         /\ excuse'[i] = IF i \in S THEN e ELSE excuse[i]
  <1>1. /\ excuse[i] # "raced" /\ ~ Cardinality(Writers(i)') > 1
        /\ excuse'[i] = IF i \in S THEN e ELSE excuse[i]
    <2> DEFINE W(j) == Writers(j)'
    <2> HIDE DEF W
    <2>1. excuse' = [j \in Id |-> IF excuse[j] = "raced" \/ Cardinality(W(j)) > 1 THEN "raced"
                                  ELSE IF j \in S THEN e ELSE excuse[j]]
      BY DEF Excuses, W
    <2>2. excuse[i] # "raced" /\ ~ Cardinality(W(i)) > 1
          /\ excuse'[i] = IF i \in S THEN e ELSE excuse[i]
      BY <2>1
    <2> QED BY <2>2 DEF W
  <1>2. Writers(i)' \in SUBSET (Caller \cup {Monitor})
    BY DEF Writers
  <1>3. IsFiniteSet(Writers(i)')
    BY <1>2, FewCallers, FS_Subset
  <1>4. ASSUME NEW w \in Writers(i)', NEW v \in Writers(i)', w # v PROVE FALSE
    BY <1>1, <1>3, <1>4, TwoMembers
  <1> QED BY <1>1, <1>4

\* What v is at, when it did nothing.
Kept(v) == IF v = Monitor THEN monitor' = monitor
           ELSE command'[v] = command[v] /\ flow'[v] = flow[v]

\* A step of w that does not touch j.
Aside(w, j) ==
    /\ \A v \in Actor \ {w} : Kept(v)
    /\ pool'[j] = pool[j] /\ conf'[j] = conf[j] /\ (j \in listed' <=> j \in listed)
    /\ w \notin Writers(j) /\ w \notin Writers(j)'

\* Who writes is an actor.
LEMMA WritersAct == \A i : Writers(i) \subseteq Actor /\ Writers(i)' \subseteq Actor
  BY DEF Writers, Actor

\* Who did nothing writes what it wrote.
LEMMA KeptWrites ==
  ASSUME NEW v \in Actor, Kept(v), NEW j
  PROVE  v \in Writers(j)' <=> v \in Writers(j)
  <1>1. CASE v = Monitor
    BY <1>1, ManagerAssumption DEF Kept, Writers
  <1>2. CASE v # Monitor
    BY <1>2 DEF Kept, Writers, Actor
  <1> QED BY <1>1, <1>2

\* A step of w leaves the others' connections as sound as they were.
LEMMA AsideSound ==
  ASSUME NEW w, NEW j \in Id, Aside(w, j), NEW S, NEW e, Excuses(S, e), j \notin S, Sound(j)
  PROVE  Sound(j)'
  <1> SUFFICES ASSUME excuse'[j] # "raced"
               PROVE  /\ \A u, v \in Writers(j)' : u = v
                      /\ Calm(j)' => AtRest(j)'
                      /\ \A u \in Writers(j)' : Come(u, j)'
    BY DEF Sound
  <1>1. excuse[j] # "raced" /\ (\A u, v \in Writers(j)' : u = v) /\ excuse'[j] = excuse[j]
    BY Marks
  <1>2. Writers(j)' = Writers(j)
    <2>1. \A v \in Actor \ {w} : v \in Writers(j)' <=> v \in Writers(j)
      BY KeptWrites DEF Aside
    <2> QED BY <2>1, WritersAct DEF Aside
  <1>3. (AtRest(j)' <=> AtRest(j)) /\ (Even(j)' <=> Even(j))
    BY <1>1 DEF AtRest, Even, Aside
  <1>4. Calm(j)' => AtRest(j)'
    BY <1>1, <1>2, <1>3 DEF Calm, Sound
  <1>5. ASSUME NEW u \in Writers(j)' PROVE Come(u, j)'
    <2>1. u \in Writers(j) /\ u \in Actor \ {w}
      BY <1>2, <1>5, WritersAct DEF Aside
    <2>2. Kept(u) /\ Come(u, j)
      BY <2>1, <1>1 DEF Aside, Sound
    <2>3. CASE u = Monitor
      <3>1. Reconnecting(j) /\ monitor' = monitor
        BY <2>1, <2>2, <2>3 DEF Come, Kept
      <3>2. Reconnecting(j)'
        BY <3>1, <1>1, <1>3 DEF Reconnecting, Aside
      <3> QED BY <3>2, <2>3, <1>5 DEF Come
    <2>4. CASE u # Monitor
      <3>1. Halfway(u, j) /\ command'[u] = command[u] /\ flow'[u] = flow[u]
        BY <2>1, <2>2, <2>4 DEF Come, Kept
      <3>2. Halfway(u, j)'
        BY <3>1, <1>1, <1>3 DEF Halfway, Aside
      <3> QED BY <3>2, <2>4, <1>5 DEF Come
    <2> QED BY <2>3, <2>4
  <1> QED BY <1>1, <1>4, <1>5

\* A step of w at i.
Turn(w, i, S, e) ==
    /\ \A v \in Actor \ {w} : Kept(v)
    /\ \A j \in Id \ {i} : Aside(w, j)
    /\ Excuses(S, e) /\ S \subseteq {i}

\* A step of w at i keeps everything sound, if it brings w as far with i as it should,
\* when nobody else writes i.
LEMMA TurnSound ==
  ASSUME NEW w, NEW i, NEW S, NEW e, Turn(w, i, S, e), \A j \in Id : Sound(j),
         w \in Writers(i) \cup Writers(i)',
         i \in Id /\ Come(w, i) /\ excuse'[i] = (IF i \in S THEN e ELSE excuse[i]) => Come(w, i)'
  PROVE  \A j \in Id : Sound(j)'
  <1>1. ASSUME NEW j \in Id, j # i PROVE Sound(j)'
    <2>1. Aside(w, j) /\ Excuses(S, e) /\ j \notin S
      BY <1>1 DEF Turn
    <2> QED BY <2>1, AsideSound
  <1>2. ASSUME i \in Id PROVE Sound(i)'
    <2> SUFFICES ASSUME excuse'[i] # "raced"
                 PROVE  /\ \A u, v \in Writers(i)' : u = v
                        /\ Calm(i)' => AtRest(i)'
                        /\ \A u \in Writers(i)' : Come(u, i)'
      BY DEF Sound
    <2>1. Excuses(S, e)
      BY DEF Turn
    <2>2. /\ excuse[i] # "raced"
          /\ \A u, v \in Writers(i)' : u = v
          /\ excuse'[i] = IF i \in S THEN e ELSE excuse[i]
      BY <1>2, <2>1, Marks
    <2>3. \A v \in Actor \ {w} : v \in Writers(i)' <=> v \in Writers(i)
      BY KeptWrites DEF Turn
    <2>4. (\A u, v \in Writers(i) : u = v) /\ (Calm(i) => AtRest(i)) /\ \A u \in Writers(i) : Come(u, i)
      BY <1>2, <2>2 DEF Sound
    <2>5. Writers(i) \subseteq {w} /\ Writers(i)' \subseteq {w}
      BY <2>2, <2>3, <2>4, WritersAct
    <2>6. Come(w, i)
      BY <2>4, <2>5 DEF Come, Calm
    <2>7. Come(w, i)'
      BY <1>2, <2>2, <2>6
    <2>8. Calm(i)' => AtRest(i)'
      BY <2>7 DEF Come, Calm
    <2> QED BY <2>2, <2>5, <2>7, <2>8
  <1> QED BY <1>1, <1>2
-----------------------------------------------------------------------------
\* What the operators that set a command or a stage do.

\* The command of c is now this, everyone else's what it was.
Ordered(c, id, config, step) ==
    /\ command' \in [Caller -> Order]
    /\ \A d \in Caller \ {c} : command'[d] = command[d]
    /\ command'[c].id = id /\ command'[c].config = config /\ command'[c].step = step

Staged(c, stage) ==
    /\ flow' \in [Caller -> Stages]
    /\ \A d \in Caller \ {c} : flow'[d] = flow[d]
    /\ flow'[c] = stage

\* Goto sets the step.
LEMMA GotoOrders ==
  ASSUME Typed, NEW c \in Caller, NEW step \in Steps, Goto(c, step)
  PROVE  Ordered(c, command[c].id, command[c].config, step)
  <1>1. command \in [Caller -> Order] /\ command[c] \in Order
    BY DEF Typed
  <1>2. [command[c] EXCEPT !.step = step] \in Order
    BY <1>1 DEF Order
  <1>3. command' = [command EXCEPT ![c] = [command[c] EXCEPT !.step = step]]
    BY <1>1 DEF Goto
  <1>4. command' \in [Caller -> Order] /\ command'[c] = [command[c] EXCEPT !.step = step]
        /\ \A d \in Caller \ {c} : command'[d] = command[d]
    BY <1>1, <1>2, <1>3
  <1> QED BY <1>1, <1>4 DEF Ordered, Order

\* Answer sets the step and forgets the configuration.
LEMMA AnswerOrders ==
  ASSUME Typed, NEW c \in Caller, NEW step \in Steps, Answer(c, step)
  PROVE  Ordered(c, command[c].id, None, step)
  <1>1. command \in [Caller -> Order] /\ command[c] \in Order
    BY DEF Typed
  <1>2. [command[c] EXCEPT !.step = step, !.config = None] \in Order
    BY <1>1 DEF Order
  <1>3. command' = [command EXCEPT ![c] = [command[c] EXCEPT !.step = step, !.config = None]]
    BY <1>1 DEF Answer
  <1>4. command' \in [Caller -> Order]
        /\ command'[c] = [command[c] EXCEPT !.step = step, !.config = None]
        /\ \A d \in Caller \ {c} : command'[d] = command[d]
    BY <1>1, <1>2, <1>3
  <1> QED BY <1>1, <1>4 DEF Ordered, Order

\* A new command.
LEMMA IssueOrders ==
  ASSUME Typed, NEW c \in Caller, NEW op \in {"connect", "disconnect", "ping", "query"},
         NEW id \in Id \cup {SomeId}, NEW config \in Config \cup {None}, NEW step \in Steps,
         Issue(c, op, id, config, step)
  PROVE  Ordered(c, id, config, step)
  <1> DEFINE new == [op |-> op, id |-> id, config |-> config, step |-> step]
  <1>1. new \in Order /\ command \in [Caller -> Order] /\ command' = [command EXCEPT ![c] = new]
    BY DEF Order, Typed, Issue
  <1>2. new.id = id /\ new.config = config /\ new.step = step
    OBVIOUS
  <1> HIDE DEF new
  <1>3. command' \in [Caller -> Order] /\ command'[c] = new
        /\ \A d \in Caller \ {c} : command'[d] = command[d]
    BY <1>1
  <1> QED BY <1>2, <1>3 DEF Ordered

\* The end of a flow.
LEMMA EndsBoth ==
  ASSUME Typed, NEW c \in Caller, Ends(c)
  PROVE  Ordered(c, SomeId, None, "done") /\ Staged(c, "idle")
  <1>1. NoCommand \in Order /\ NoCommand.id = SomeId /\ NoCommand.config = None
        /\ NoCommand.step = "done"
    BY DEF Order, NoCommand, Steps
  <1>2. command \in [Caller -> Order] /\ command' = [command EXCEPT ![c] = NoCommand]
    BY DEF Typed, Ends
  <1>3. command' \in [Caller -> Order] /\ command'[c] = NoCommand
        /\ \A d \in Caller \ {c} : command'[d] = command[d]
    BY <1>1, <1>2
  <1>4. Staged(c, "idle")
    BY DEF Typed, Ends, Staged, Stages
  <1> QED BY <1>1, <1>3, <1>4 DEF Ordered

\* Await sets the stage.
LEMMA AwaitStages ==
  ASSUME Typed, NEW c \in Caller, NEW stage \in Stages, Await(c, stage)
  PROVE  Staged(c, stage)
  BY DEF Typed, Await, Staged

\* The ghost is typed after a step.
LEMMA ExcuseTyped ==
  ASSUME Typed, NEW S, NEW e \in {"none", "tested", "refused"}, Excuses(S, e)
  PROVE  excuse' \in [Id -> Excuse]
  <1> DEFINE W(j) == Writers(j)'
  <1> HIDE DEF W
  <1>1. excuse' = [j \in Id |-> IF excuse[j] = "raced" \/ Cardinality(W(j)) > 1 THEN "raced"
                                ELSE IF j \in S THEN e ELSE excuse[j]]
    BY DEF Excuses, W
  <1> QED BY <1>1 DEF Typed, Excuse

\* Who awaits nothing else, awaits what he did.
LEMMA AwaitsKept ==
  ASSUME NEW d, Awaits(d), command'[d] = command[d], flow'[d] = flow[d]
  PROVE  Awaits(d)'
  BY DEF Awaits
-----------------------------------------------------------------------------
\* The commands.

\* What CInv says of a step, whoever takes it.
CStep == Typed' /\ (\A c \in Caller : Awaits(c)') /\ \A i \in Id : Sound(i)'

\* A step of c is typed and awaited when c's part is.
LEMMA CallerAwaits ==
  ASSUME NEW c \in Caller, \A d \in Caller : Awaits(d),
         \A d \in Caller \ {c} : command'[d] = command[d],
         \A d \in Caller \ {c} : flow'[d] = flow[d],
         Awaits(c)'
  PROVE  \A d \in Caller : Awaits(d)'
  <1>1. ASSUME NEW d \in Caller, d # c PROVE Awaits(d)'
    BY <1>1, AwaitsKept
  <1> QED BY <1>1

\* A step of the query, or one of a caller that changes no pool and no configuration,
\* for a caller that writes nothing before and after.
LEMMA NoWriter ==
  ASSUME NEW w, \A j \in Id : Aside(w, j), Excused, \A j \in Id : Sound(j)
  PROVE  \A j \in Id : Sound(j)'
  <1>1. ASSUME NEW j \in Id PROVE Sound(j)'
    <2>1. Aside(w, j) /\ Excuses({}, "none") /\ j \notin {}
      BY DEF Excused
    <2> QED BY <2>1, AsideSound
  <1> QED BY <1>1

\* The query writes nothing.
LEMMA QueryAside ==
  ASSUME "query" \in Caller,
         \A d \in Caller \ {"query"} : command'[d] = command[d] /\ flow'[d] = flow[d],
         monitor' = monitor, pool' = pool, conf' = conf, listed' = listed,
         NEW j
  PROVE  Aside("query", j)
  <1>1. \A v \in Actor \ {"query"} : Kept(v)
    BY DEF Actor, Kept
  <1>2. "query" \notin Writers(j) /\ "query" \notin Writers(j)'
    BY ManagerAssumption DEF Writers
  <1> QED BY <1>1, <1>2 DEF Aside

\* A command that goes on from one step to another and changes no more than its
\* connection.
LEMMA CommandTurn ==
  ASSUME Typed, NEW c \in Caller, c # "query", flow[c] # "idle", flow' = flow, listed' = listed,
         monitor' = monitor,
         NEW i, i = command[c].id, NEW config, NEW step, Ordered(c, i, config, step),
         \A j \in Id \ {i} : pool'[j] = pool[j] /\ conf'[j] = conf[j]
  PROVE  /\ \A S, e : Excuses(S, e) /\ S \subseteq {i} => Turn(c, i, S, e)
         /\ c \in Writers(i) /\ c \in Writers(i)'
         /\ c # Monitor
  <1>1. c # Monitor
    BY ManagerAssumption
  <1>2. \A v \in Actor \ {c} : Kept(v)
    BY DEF Actor, Kept, Ordered
  <1>3. c \in Writers(i) /\ c \in Writers(i)'
    BY DEF Writers, Ordered
  <1>4. \A j \in Id \ {i} : c \notin Writers(j) /\ c \notin Writers(j)'
    BY <1>1 DEF Writers, Ordered
  <1>5. \A j \in Id \ {i} : Aside(c, j)
    BY <1>2, <1>4 DEF Aside
  <1> QED BY <1>1, <1>2, <1>3, <1>5 DEF Turn

\* A step after which no db_connect has failed gives no excuse.
LEMMA NoneRefused ==
  ASSUME Excuses(Refused, "refused"), Refused = {}
  PROVE  Excused
  <1> DEFINE W(j) == Writers(j)'
  <1> HIDE DEF W
  <1>1. excuse' = [j \in Id |-> IF excuse[j] = "raced" \/ Cardinality(W(j)) > 1 THEN "raced"
                                ELSE IF j \in Refused THEN "refused" ELSE excuse[j]]
    BY DEF Excuses, W
  <1>2. excuse' = [j \in Id |-> IF excuse[j] = "raced" \/ Cardinality(W(j)) > 1 THEN "raced"
                                ELSE IF j \in {} THEN "none" ELSE excuse[j]]
    BY <1>1
  <1> QED BY <1>2 DEF Excused, Excuses, W

\* The last step of db_connect keeps everything typed, awaited and sound: if the keychain does
\* not take the secret, the connection is open all the same.
LEMMA ConfigureSteps ==
  ASSUME CInv, NEW c \in Caller, Configures(c), UNCHANGED front, Excuses(Refused, "refused")
  PROVE  CStep
  <1>0. PICK i : i = command[c].id
    OBVIOUS
  <1>1. Typed /\ Awaits(c) /\ (\A d \in Caller : Awaits(d)) /\ (\A j \in Id : Sound(j))
    BY DEF CInv
  <1>2. flow' = flow /\ listed' = listed /\ restoring' = restoring /\ monitor' = monitor
    BY DEF front, Configures
  <1>3. /\ conf' = [conf EXCEPT ![i] = command[c].config] /\ pool' = pool
        /\ command[c].step = "configure" /\ command[c].config # None /\ c # "query"
        /\ flow[c] \in {"connecting", "fixing"}
    BY <1>0, <1>1 DEF Configures, Awaits
  <1>4. PICK step \in {"done", "failed"} : Ordered(c, i, None, step)
    BY <1>0, <1>1, AnswerOrders DEF Configures, Steps
  <1>5. Refused = IF step = "failed" THEN {i} ELSE {}
    BY <1>0, <1>3, <1>4 DEF Refused, Ordered
  <1>6. excuse' \in [Id -> Excuse]
    BY <1>1, ExcuseTyped
  <1>7. pool \in [Id -> Config \cup {None}] /\ conf \in [Id -> Config \cup {None}]
        /\ command[c].config \in Config \cup {None} /\ i \in Id
    BY <1>0, <1>1, <1>3 DEF Typed, Order
  <1>8. conf' \in [Id -> Config \cup {None}] /\ conf'[i] = command[c].config
        /\ \A j \in Id \ {i} : conf'[j] = conf[j] /\ pool'[j] = pool[j]
    BY <1>3, <1>7
  <1>9. Awaits(c)'
    BY <1>1, <1>2, <1>3, <1>4 DEF Awaits, Ordered, Opening
  <1>10. Typed'
    <2>1. \A d \in Caller : flow'[d] # "idle" => command'[d].id \in Id
      BY <1>0, <1>1, <1>2, <1>4 DEF Typed, Ordered
    <2> QED BY <1>1, <1>2, <1>3, <1>4, <1>6, <1>8, <2>1 DEF Typed, Ordered
  <1>11. \A d \in Caller : Awaits(d)'
    BY <1>1, <1>2, <1>4, <1>9, CallerAwaits DEF Ordered
  <1>12. /\ Turn(c, i, Refused, "refused")
         /\ c \in Writers(i) /\ c \in Writers(i)'
         /\ c # Monitor
    <2>1. Refused \subseteq {i} /\ flow[c] # "idle"
      BY <1>3, <1>5
    <2>2. /\ \A S, e : Excuses(S, e) /\ S \subseteq {i} => Turn(c, i, S, e)
          /\ c \in Writers(i) /\ c \in Writers(i)'
          /\ c # Monitor
      BY <1>0, <1>1, <1>2, <1>3, <1>4, <1>8, <2>1, CommandTurn
    <2> QED BY <2>1, <2>2
  <1>13. Halfway(c, i) /\ excuse'[i] = (IF i \in Refused THEN "refused" ELSE excuse[i])
         => Halfway(c, i)'
    BY <1>2, <1>3, <1>4, <1>5, <1>8 DEF Halfway, Ordered
  <1>14. \A j \in Id : Sound(j)'
    BY <1>1, <1>12, <1>13, TurnSound DEF Come
  <1> QED BY <1>10, <1>11, <1>14 DEF CStep

\* The other steps of a command keep everything typed, awaited and sound.
LEMMA CommandSteps ==
  ASSUME CInv, NEW c \in Caller, CommandStep(c), ~Configures(c), UNCHANGED front, Excused
  PROVE  CStep
  <1>0. PICK i : i = command[c].id
    OBVIOUS
  <1>1. Typed /\ Awaits(c) /\ (\A d \in Caller : Awaits(d)) /\ (\A j \in Id : Sound(j))
    BY DEF CInv
  <1>2. flow' = flow /\ listed' = listed /\ restoring' = restoring /\ monitor' = monitor
    BY DEF front, CommandStep, Opens, Inserts, Configures, Removes, Unconfigures, ReadsPolicy, Gets,
           Runs
  <1>3. excuse' \in [Id -> Excuse]
    BY <1>1, ExcuseTyped DEF Excused
  <1>4. i \in Id \cup {SomeId} /\ command[c].config \in Config \cup {None}
    BY <1>0, <1>1 DEF Typed, Order
  <1>5. flow[c] # "idle"
    BY <1>1 DEF Awaits, CommandStep, Opens, Inserts, Configures, Removes, Unconfigures, ReadsPolicy,
                Gets, Runs
  <1>6. ASSUME NEW config, NEW step, Ordered(c, i, config, step),
               pool' \in [Id -> Config \cup {None}], conf' \in [Id -> Config \cup {None}],
               Awaits(c)'
        PROVE  Typed' /\ \A d \in Caller : Awaits(d)'
    <2>1. \A d \in Caller : flow'[d] # "idle" => command'[d].id \in Id
      BY <1>0, <1>1, <1>2, <1>6 DEF Typed, Ordered
    <2>2. Typed'
      BY <1>1, <1>2, <1>3, <1>6, <2>1 DEF Typed, Ordered
    <2>3. \A d \in Caller : Awaits(d)'
      BY <1>1, <1>2, <1>6, CallerAwaits DEF Ordered
    <2> QED BY <2>2, <2>3
  <1>7. ASSUME NEW config, NEW step, Ordered(c, i, config, step),
               \A j \in Id \ {i} : pool'[j] = pool[j] /\ conf'[j] = conf[j], c # "query",
               i \in Id /\ Halfway(c, i) /\ excuse'[i] = excuse[i] => Halfway(c, i)'
        PROVE  \A j \in Id : Sound(j)'
    <2>1. /\ Turn(c, i, {}, "none")
          /\ c \in Writers(i) /\ c \in Writers(i)'
          /\ c # Monitor
      <3>1. Excuses({}, "none") /\ {} \subseteq {i}
        BY DEF Excused
      <3>2. /\ \A S, e : Excuses(S, e) /\ S \subseteq {i} => Turn(c, i, S, e)
            /\ c \in Writers(i) /\ c \in Writers(i)'
            /\ c # Monitor
        BY <1>0, <1>1, <1>2, <1>5, <1>7, CommandTurn
      <3> QED BY <3>1, <3>2
    <2>2. (Come(c, i) <=> Halfway(c, i)) /\ (Come(c, i)' <=> Halfway(c, i)')
      BY <2>1 DEF Come
    <2>3. i \in Id /\ Come(c, i) /\ excuse'[i] = (IF i \in {} THEN "none" ELSE excuse[i]) => Come(c, i)'
      BY <1>7, <2>2
    <2> QED BY <1>1, <2>1, <2>3, TurnSound
  <1>8. ASSUME NEW config, NEW step, Ordered(c, i, config, step), pool' = pool, conf' = conf,
               c = "query"
        PROVE  \A j \in Id : Sound(j)'
    <2>1. \A j \in Id : Aside("query", j)
      BY <1>2, <1>8, QueryAside DEF Ordered
    <2> QED BY <1>1, <2>1, NoWriter
  <1>9. pool \in [Id -> Config \cup {None}] /\ conf \in [Id -> Config \cup {None}]
    BY <1>1 DEF Typed
  <1>10. CASE Opens(c)
    <2>1. pool' = pool /\ conf' = conf /\ c # "query"
      BY <1>1, <1>10 DEF Opens, Awaits
    <2>2. PICK config, step : /\ Ordered(c, i, config, step)
                              /\ \/ step = "insert" /\ config = command[c].config
                                 \/ step = "failed"
      BY <1>0, <1>1, <1>10, GotoOrders, AnswerOrders DEF Opens, Steps
    <2>3. Awaits(c)'
      BY <1>1, <1>2, <1>10, <2>2 DEF Opens, Awaits, Ordered, Opening
    <2>4. i \in Id /\ Halfway(c, i) /\ excuse'[i] = excuse[i] => Halfway(c, i)'
      BY <1>2, <1>10, <2>1, <2>2 DEF Opens, Halfway, Even, Ordered
    <2>5. Typed' /\ \A d \in Caller : Awaits(d)'
      BY <1>6, <1>9, <2>1, <2>2, <2>3
    <2>6. \A j \in Id : Sound(j)'
      BY <1>7, <2>1, <2>2, <2>4
    <2> QED BY <2>5, <2>6 DEF CStep
  <1>11. CASE Inserts(c)
    <2>1. /\ pool' = [pool EXCEPT ![i] = command[c].config] /\ conf' = conf
          /\ command[c].step = "insert" /\ command[c].config # None /\ c # "query"
          /\ flow[c] \in {"connecting", "fixing"}
      BY <1>0, <1>1, <1>11 DEF Inserts, Awaits
    <2>2. Ordered(c, i, command[c].config, "configure")
      BY <1>0, <1>1, <1>11, GotoOrders DEF Inserts, Steps
    <2>3. Awaits(c)'
      BY <1>1, <1>2, <2>1, <2>2 DEF Awaits, Ordered, Opening
    <2>4. i \in Id => pool'[i] = command[c].config
      BY <1>9, <2>1
    <2>5. Halfway(c, i) /\ i \in Id /\ excuse'[i] = excuse[i] => Halfway(c, i)'
      BY <1>2, <2>1, <2>2, <2>4 DEF Halfway, Ordered
    <2>6. pool' \in [Id -> Config \cup {None}] /\ \A j \in Id \ {i} : pool'[j] = pool[j]
      BY <1>4, <1>9, <2>1
    <2>7. Typed' /\ \A d \in Caller : Awaits(d)'
      BY <1>6, <1>9, <2>1, <2>2, <2>3, <2>6
    <2>8. \A j \in Id : Sound(j)'
      BY <1>7, <2>1, <2>2, <2>5, <2>6
    <2> QED BY <2>7, <2>8 DEF CStep
  <1>13. CASE Removes(c)
    <2>1. /\ pool' = [pool EXCEPT ![i] = None] /\ conf' = conf
          /\ command[c].step = "remove" /\ c # "query" /\ flow[c] \in {"closing", "cleaning"}
      BY <1>0, <1>1, <1>13 DEF Removes, Awaits, Opening
    <2>2. Ordered(c, i, command[c].config, "unconfigure")
      BY <1>0, <1>1, <1>13, GotoOrders DEF Removes, Steps
    <2>3. Awaits(c)'
      BY <1>1, <1>2, <2>1, <2>2 DEF Awaits, Ordered, Opening
    <2>4. i \in Id => pool'[i] = None
      BY <1>9, <2>1
    <2>5. Halfway(c, i) /\ i \in Id /\ excuse'[i] = excuse[i] => Halfway(c, i)'
      BY <1>2, <2>1, <2>2, <2>4 DEF Halfway, Ordered
    <2>6. pool' \in [Id -> Config \cup {None}] /\ \A j \in Id \ {i} : pool'[j] = pool[j]
      BY <1>4, <1>9, <2>1
    <2>7. Typed' /\ \A d \in Caller : Awaits(d)'
      BY <1>6, <1>9, <2>1, <2>2, <2>3, <2>6
    <2>8. \A j \in Id : Sound(j)'
      BY <1>7, <2>1, <2>2, <2>5, <2>6
    <2> QED BY <2>7, <2>8 DEF CStep
  <1>14. CASE Unconfigures(c)
    <2>1. /\ conf' = [conf EXCEPT ![i] = None] /\ pool' = pool
          /\ command[c].step = "unconfigure" /\ c # "query" /\ flow[c] \in {"closing", "cleaning"}
      BY <1>0, <1>1, <1>14 DEF Unconfigures, Awaits, Opening
    <2>2. Ordered(c, i, None, "done")
      BY <1>0, <1>1, <1>14, AnswerOrders DEF Unconfigures, Steps
    <2>3. Awaits(c)'
      BY <1>1, <1>2, <2>1, <2>2 DEF Awaits, Ordered, Opening
    <2>4. i \in Id => conf'[i] = None
      BY <1>9, <2>1
    <2>5. Halfway(c, i) /\ i \in Id /\ excuse'[i] = excuse[i] => Halfway(c, i)'
      BY <1>2, <2>1, <2>2, <2>4 DEF Halfway, Ordered
    <2>6. conf' \in [Id -> Config \cup {None}] /\ \A j \in Id \ {i} : conf'[j] = conf[j]
      BY <1>4, <1>9, <2>1
    <2>7. Typed' /\ \A d \in Caller : Awaits(d)'
      BY <1>6, <1>9, <2>1, <2>2, <2>3, <2>6
    <2>8. \A j \in Id : Sound(j)'
      BY <1>7, <2>1, <2>2, <2>5, <2>6
    <2> QED BY <2>7, <2>8 DEF CStep
  <1>15. CASE ReadsPolicy(c) \/ Gets(c) \/ Runs(c)
    <2>1. /\ pool' = pool /\ conf' = conf /\ flow[c] = "pinging"
          /\ c = "query" \/ (c = "test" /\ command[c].step # "policy")
      BY <1>1, <1>15 DEF ReadsPolicy, Gets, Runs, Awaits, Opening
    <2>2. PICK config, step : /\ Ordered(c, i, config, step)
                              /\ step \in {"get", "run", "done", "failed"}
                              /\ step = "get" => c = "query"
      <3>1. CASE ReadsPolicy(c)
        BY <1>0, <1>1, <2>1, <3>1, GotoOrders, AnswerOrders DEF ReadsPolicy, Steps
      <3>2. CASE Gets(c)
        BY <1>0, <1>1, <3>2, GotoOrders, AnswerOrders DEF Gets, Steps
      <3>3. CASE Runs(c)
        BY <1>0, <1>1, <3>3, AnswerOrders DEF Runs, Steps
      <3> QED BY <1>15, <3>1, <3>2, <3>3
    <2>3. Awaits(c)'
      BY <1>2, <2>1, <2>2 DEF Awaits, Ordered
    <2>4. command[c].step \in {"policy", "get", "run"}
      BY <1>15 DEF ReadsPolicy, Gets, Runs
    <2>5. Halfway(c, i) /\ excuse'[i] = excuse[i] => Halfway(c, i)'
      BY <1>2, <2>1, <2>2, <2>4 DEF Halfway, Ordered
    <2>6. Typed' /\ \A d \in Caller : Awaits(d)'
      BY <1>6, <1>9, <2>1, <2>2, <2>3
    <2>7. \A j \in Id : Sound(j)'
      BY <1>7, <1>8, <2>1, <2>2, <2>5
    <2> QED BY <2>6, <2>7 DEF CStep
  <1> QED BY <1>10, <1>11, <1>13, <1>14, <1>15 DEF CommandStep
-----------------------------------------------------------------------------
\* The flows.

\* A step of the flow of c at the connection i, between two of its awaits.
Flow(c, i, id, config, step, stage, S, e) ==
    /\ OnlyCommands
    /\ listed' \in SUBSET Id /\ \A j \in Id \ {i} : j \in listed' <=> j \in listed
    /\ restoring' \in SUBSET Id
    /\ Ordered(c, id, config, step) /\ Staged(c, stage)
    /\ flow[c] # "idle" \/ stage # "idle"
    /\ flow[c] # "idle" => command[c].id = i
    /\ stage # "idle" => id = i
    /\ Excuses(S, e) /\ S \subseteq {i}

\* It touches no other connection.
LEMMA FlowTurn ==
  ASSUME NEW c \in Caller, c # "query", NEW i, NEW id, NEW config, NEW step, NEW stage,
         NEW S, NEW e, Flow(c, i, id, config, step, stage, S, e)
  PROVE  /\ Turn(c, i, S, e)
         /\ c \in Writers(i) <=> flow[c] # "idle"
         /\ c \in Writers(i)' <=> stage # "idle"
         /\ c # Monitor
  <1>1. c # Monitor
    BY ManagerAssumption
  <1>2. \A v \in Actor \ {c} : Kept(v)
    BY DEF Actor, Kept, Ordered, Staged, Flow, OnlyCommands
  <1>3. (c \in Writers(i) <=> flow[c] # "idle") /\ (c \in Writers(i)' <=> stage # "idle")
    BY <1>1 DEF Writers, Ordered, Staged, Flow
  <1>4. \A j \in Id \ {i} : c \notin Writers(j) /\ c \notin Writers(j)'
    BY <1>1 DEF Writers, Ordered, Staged, Flow
  <1>5. \A j \in Id \ {i} : Aside(c, j)
    BY <1>2, <1>4 DEF Aside, Flow, OnlyCommands
  <1> QED BY <1>1, <1>2, <1>3, <1>5 DEF Turn, Flow

\* It keeps everything typed and awaited.
LEMMA FlowTyped ==
  ASSUME CInv, NEW c \in Caller, NEW i \in Id, NEW id \in Id \cup {SomeId},
         NEW config, NEW step, NEW stage,
         NEW S, NEW e \in {"none", "tested"}, Flow(c, i, id, config, step, stage, S, e),
         Awaits(c)'
  PROVE  Typed' /\ \A d \in Caller : Awaits(d)'
  <1>1. Typed /\ (\A d \in Caller : Awaits(d))
    BY DEF CInv
  <1>2. pool' = pool /\ conf' = conf /\ monitor' = monitor
    BY DEF Flow, OnlyCommands
  <1>3. excuse' \in [Id -> Excuse]
    <2>1. Excuses(S, e)
      BY DEF Flow
    <2> QED BY <1>1, <2>1, ExcuseTyped
  <1>4. \A d \in Caller : flow'[d] # "idle" => command'[d].id \in Id
    BY <1>1 DEF Typed, Flow, Ordered, Staged
  <1>5. Typed'
    BY <1>1, <1>2, <1>3, <1>4 DEF Typed, Flow, Ordered, Staged
  <1>6. \A d \in Caller : Awaits(d)'
    BY <1>1, CallerAwaits DEF Flow, Ordered, Staged
  <1> QED BY <1>5, <1>6

\* A step of the query keeps everything sound.
LEMMA QuerySteps ==
  ASSUME CInv, "query" \in Caller, NEW i \in Id, NEW id \in Id \cup {SomeId},
         NEW config, NEW step, NEW stage, Flow("query", i, id, config, step, stage, {}, "none"),
         listed' = listed, Awaits("query")'
  PROVE  CStep
  <1>1. Typed' /\ \A d \in Caller : Awaits(d)'
    BY FlowTyped
  <1>2. \A j \in Id : Aside("query", j)
    BY QueryAside DEF Flow, OnlyCommands, Ordered, Staged
  <1>3. Excused /\ \A j \in Id : Sound(j)
    BY DEF Flow, Excused, CInv
  <1>4. \A j \in Id : Sound(j)'
    BY <1>2, <1>3, NoWriter
  <1> QED BY <1>1, <1>4 DEF CStep

\* A step of another flow keeps everything sound when it brings c as far with i as it
\* should.
LEMMA FlowSteps ==
  ASSUME CInv, NEW c \in Caller, c # "query", NEW i \in Id, NEW id \in Id \cup {SomeId},
         NEW config, NEW step, NEW stage,
         NEW S, NEW e \in {"none", "tested"}, Flow(c, i, id, config, step, stage, S, e),
         Awaits(c)',
         /\ excuse'[i] = IF i \in S THEN e ELSE excuse[i]
         /\ IF flow[c] = "idle" THEN AtRest(i) ELSE Halfway(c, i)
         => IF stage = "idle" THEN AtRest(i)' ELSE Halfway(c, i)'
  PROVE  CStep
  <1>1. \A j \in Id : Sound(j)
    BY DEF CInv
  <1>5. Typed' /\ \A d \in Caller : Awaits(d)'
    BY FlowTyped
  <1>7. /\ Turn(c, i, S, e)
        /\ c \in Writers(i) <=> flow[c] # "idle"
        /\ c \in Writers(i)' <=> stage # "idle"
        /\ c # Monitor
    BY FlowTurn
  <1>8. c \in Writers(i) \cup Writers(i)'
    BY <1>7 DEF Flow
  <1>9. /\ Come(c, i) <=> IF flow[c] = "idle" THEN AtRest(i) ELSE Halfway(c, i)
        /\ Come(c, i)' <=> IF stage = "idle" THEN AtRest(i)' ELSE Halfway(c, i)'
    BY <1>7 DEF Come
  <1>10. i \in Id /\ Come(c, i) /\ excuse'[i] = (IF i \in S THEN e ELSE excuse[i]) => Come(c, i)'
    BY <1>9
  <1>11. \A j \in Id : Sound(j)'
    BY <1>1, <1>7, <1>8, <1>10, TurnSound
  <1> QED BY <1>5, <1>11 DEF CStep

\* A flow that begins with the command it issues.
LEMMA Started ==
  ASSUME Typed, NEW c \in Caller, NEW i \in Id, flow[c] = "idle", OnlyCommands,
         NEW config \in Config \cup {None}, NEW op \in {"connect", "disconnect", "ping", "query"},
         NEW step \in Steps, NEW stage \in Stages, stage # "idle",
         Issue(c, op, i, config, step), Await(c, stage), Excused, listed' = listed,
         restoring' \in SUBSET restoring
  PROVE  Flow(c, i, i, config, step, stage, {}, "none")
  <1>1. Ordered(c, i, config, step)
    BY IssueOrders
  <1>2. Staged(c, stage)
    BY AwaitStages
  <1>3. Excuses({}, "none")
    BY DEF Excused
  <1> QED BY <1>1, <1>2, <1>3 DEF Flow, Typed

\* What the operator starts keeps everything typed, awaited and sound: a flow that begins
\* is the only one at a connection that is not raced.
LEMMA StartSteps ==
  ASSUME CInv, Operator
  PROVE  CStep
  <1>1. Typed
    BY DEF CInv
  <1>2. ASSUME NEW i \in Id, NEW c \in Caller, c \in {"restore", "connect", "test"}, Free(c),
               NEW config \in Config, Await(c, "connecting"), Connect(c, i, config), OnlyCommands,
               Excused, listed' = listed, restoring' \in SUBSET restoring
        PROVE  CStep
    <2>1. Issue(c, "connect", i, config, "open") /\ flow[c] = "idle" /\ config # None
      BY <1>2, ManagerAssumption DEF Connect, Free
    <2>2. Flow(c, i, i, config, "open", "connecting", {}, "none")
      <3>1. config \in Config \cup {None} /\ "open" \in Steps /\ "connecting" \in Stages
        BY DEF Steps, Stages
      <3> QED BY <1>1, <1>2, <2>1, <3>1, Started
    <2>3. Awaits(c)'
      BY <1>2, <2>1, <2>2 DEF Flow, Awaits, Ordered, Staged, Opening
    <2>4. AtRest(i) /\ excuse'[i] = excuse[i] => Halfway(c, i)'
      BY <1>2, <2>2 DEF AtRest, Halfway, Even, Flow, Ordered, Staged, OnlyCommands
    <2> QED BY <1>2, <2>1, <2>2, <2>3, <2>4, FlowSteps
  <1>3. ASSUME NEW i \in Id, DisconnectStarts(i) PROVE CStep
    <2> DEFINE c == "disconnect"
    <2>1. /\ c \in Caller /\ flow[c] = "idle" /\ Issue(c, "disconnect", i, None, "remove")
          /\ Await(c, "closing") /\ OnlyCommands /\ Excused /\ listed' = listed
          /\ restoring' \in SUBSET restoring
      BY <1>3 DEF DisconnectStarts, Disconnect, Free
    <2>2. Flow(c, i, i, None, "remove", "closing", {}, "none")
      <3>1. None \in Config \cup {None} /\ "remove" \in Steps /\ "closing" \in Stages
        BY DEF Steps, Stages
      <3> QED BY <1>1, <1>3, <2>1, <3>1, Started
    <2>3. Awaits(c)'
      BY <2>1, <2>2 DEF Flow, Awaits, Ordered, Staged
    <2>4. AtRest(i) /\ excuse'[i] = excuse[i] => Halfway(c, i)'
      BY <2>1, <2>2 DEF AtRest, Halfway, Flow, Ordered, Staged, OnlyCommands
    <2> QED BY <1>3, <2>1, <2>2, <2>3, <2>4, FlowSteps
  <1>4. ASSUME NEW i \in Id, QueryStarts(i) PROVE CStep
    <2> DEFINE c == "query"
    <2>1. /\ c \in Caller /\ flow[c] = "idle" /\ Issue(c, "query", i, None, "policy")
          /\ Await(c, "pinging") /\ OnlyCommands /\ Excused /\ listed' = listed
          /\ restoring' = restoring
      BY <1>4 DEF QueryStarts, Query, Free
    <2>2. Flow(c, i, i, None, "policy", "pinging", {}, "none")
      <3>1. None \in Config \cup {None} /\ "policy" \in Steps /\ "pinging" \in Stages
            /\ restoring' \in SUBSET restoring
        BY <2>1 DEF Steps, Stages
      <3> QED BY <1>1, <1>4, <2>1, <3>1, Started
    <2>3. Awaits(c)'
      BY <2>1, <2>2 DEF Flow, Awaits, Ordered, Staged
    <2> QED BY <1>4, <2>1, <2>2, <2>3, QuerySteps
  <1>5. ASSUME NEW i \in Id, NEW config \in Config, RestoreStarts(i, config) PROVE CStep
    <2>1. restoring' \in SUBSET restoring /\ "restore" \in Caller
      BY <1>5 DEF RestoreStarts, Free
    <2> QED BY <1>2, <1>5, <2>1 DEF RestoreStarts
  <1>6. ASSUME NEW i \in Id, NEW config \in Config, ConnectStarts(i, config) PROVE CStep
    <2>1. restoring' \in SUBSET restoring /\ "connect" \in Caller
      BY <1>6 DEF ConnectStarts, Free
    <2> QED BY <1>2, <1>6, <2>1 DEF ConnectStarts
  <1>7. ASSUME NEW i \in Id, NEW config \in Config, TestStarts(i, config) PROVE CStep
    <2>1. restoring' \in SUBSET restoring /\ "test" \in Caller
      BY <1>7 DEF TestStarts, Free
    <2> QED BY <1>2, <1>7, <2>1 DEF TestStarts
  <1> QED BY <1>3, <1>4, <1>5, <1>6, <1>7 DEF Operator
\* A flow that ends.
LEMMA Ended ==
  ASSUME Typed, NEW c \in Caller, NEW i \in Id, flow[c] # "idle", command[c].id = i,
         OnlyCommands, Ends(c), listed' \in SUBSET Id, \A j \in Id \ {i} : j \in listed' <=> j \in listed,
         restoring' = restoring, NEW S \in SUBSET {i}, NEW e, Excuses(S, e)
  PROVE  Flow(c, i, SomeId, None, "done", "idle", S, e) /\ Awaits(c)'
  <1>1. Ordered(c, SomeId, None, "done") /\ Staged(c, "idle")
    BY EndsBoth
  <1>2. Flow(c, i, SomeId, None, "done", "idle", S, e)
    BY <1>1 DEF Flow, Typed
  <1>3. Awaits(c)'
    BY <1>1 DEF Awaits, Ordered, Staged
  <1> QED BY <1>2, <1>3

\* A flow that goes on with another command at the same connection.
LEMMA GoesOn ==
  ASSUME Typed, NEW c \in Caller, NEW i \in Id, flow[c] # "idle", command[c].id = i,
         OnlyCommands, listed' = listed, restoring' = restoring,
         NEW config \in Config \cup {None}, NEW op \in {"connect", "disconnect", "ping", "query"},
         NEW step \in Steps, NEW stage \in Stages, Issue(c, op, i, config, step), Await(c, stage),
         NEW S \in SUBSET {i}, NEW e, Excuses(S, e)
  PROVE  Flow(c, i, i, config, step, stage, S, e)
  <1>1. Ordered(c, i, config, step)
    BY IssueOrders
  <1>2. Staged(c, stage)
    BY AwaitStages
  <1> QED BY <1>1, <1>2 DEF Flow, Typed

\* The end of a flow keeps everything sound when it leaves its connection at rest.
LEMMA EndSteps ==
  ASSUME CInv, NEW c \in Caller, c # "query", NEW i \in Id, flow[c] # "idle", command[c].id = i,
         OnlyCommands, Ends(c), listed' \in SUBSET Id, \A j \in Id \ {i} : j \in listed' <=> j \in listed,
         restoring' = restoring,
         NEW S \in SUBSET {i}, NEW e \in {"none", "tested"}, Excuses(S, e),
         Halfway(c, i) /\ excuse'[i] = (IF i \in S THEN e ELSE excuse[i]) => AtRest(i)'
  PROVE  CStep
  <1>1. Typed
    BY DEF CInv
  <1>2. Flow(c, i, SomeId, None, "done", "idle", S, e) /\ Awaits(c)'
    BY <1>1, Ended
  <1>3. SomeId \in Id \cup {SomeId}
    OBVIOUS
  <1>4. /\ excuse'[i] = IF i \in S THEN e ELSE excuse[i]
        /\ IF flow[c] = "idle" THEN AtRest(i) ELSE Halfway(c, i)
        => IF "idle" = "idle" THEN AtRest(i)' ELSE Halfway(c, i)'
    OBVIOUS
  <1>5. ASSUME NEW stage, stage = "idle" PROVE CStep
    <2>1. Flow(c, i, SomeId, None, "done", stage, S, e)
      BY <1>2, <1>5
    <2>2. /\ excuse'[i] = IF i \in S THEN e ELSE excuse[i]
          /\ IF flow[c] = "idle" THEN AtRest(i) ELSE Halfway(c, i)
          => IF stage = "idle" THEN AtRest(i)' ELSE Halfway(c, i)'
      BY <1>4, <1>5
    <2> QED BY <1>2, <1>3, <2>1, <2>2, FlowSteps
  <1> QED BY <1>5

\* The restore.
LEMMA RestoreReturnSteps ==
  ASSUME CInv, RestoreReturns
  PROVE  CStep
  <1> DEFINE c == "restore"
  <1>1. Typed /\ Awaits(c) /\ c \in Caller /\ flow[c] = "connecting"
        /\ command[c].step \in {"done", "failed"}
    BY DEF CInv, RestoreReturns, Answered
  <1>2. PICK i : i = command[c].id
    OBVIOUS
  <1>3. i \in Id
    BY <1>1, <1>2 DEF Typed
  <1>4. PICK S : /\ S = IF command[c].step = "done" THEN {i} ELSE {}
                 /\ listed' = listed \cup S /\ Excuses(S, "none")
    BY <1>2 DEF RestoreReturns
  <1>5. listed' \in SUBSET Id /\ \A j \in Id \ {i} : j \in listed' <=> j \in listed
    BY <1>1, <1>3, <1>4 DEF Typed
  <1>6. OnlyCommands /\ Ends(c) /\ restoring' = restoring
    BY DEF RestoreReturns
  <1>7. Halfway(c, i) /\ excuse'[i] = (IF i \in S THEN "none" ELSE excuse[i]) => AtRest(i)'
    BY <1>1, <1>3, <1>4, <1>6 DEF Halfway, AtRest, Even, OnlyCommands
  <1>8. S \in SUBSET {i}
    BY <1>4
  <1> QED BY <1>1, <1>2, <1>3, <1>4, <1>5, <1>6, <1>7, <1>8, EndSteps

\* The disconnect.
LEMMA DisconnectReturnSteps ==
  ASSUME CInv, DisconnectReturns
  PROVE  CStep
  <1> DEFINE c == "disconnect"
  <1>1. Typed /\ Awaits(c) /\ c \in Caller /\ flow[c] = "closing" /\ command[c].step = "done"
    BY DEF CInv, DisconnectReturns, Answered, Awaits
  <1>2. PICK i : i = command[c].id
    OBVIOUS
  <1>3. i \in Id
    BY <1>1, <1>2 DEF Typed
  <1>4. listed' = listed \ {i} /\ Excuses({i}, "none")
    BY <1>2 DEF DisconnectReturns
  <1>5. listed' \in SUBSET Id /\ \A j \in Id \ {i} : j \in listed' <=> j \in listed
    BY <1>1, <1>3, <1>4 DEF Typed
  <1>6. OnlyCommands /\ Ends(c) /\ restoring' = restoring
    BY DEF DisconnectReturns
  <1>7. Halfway(c, i) /\ excuse'[i] = (IF i \in {i} THEN "none" ELSE excuse[i]) => AtRest(i)'
    BY <1>1, <1>3, <1>4, <1>6 DEF Halfway, AtRest, Even, OnlyCommands
  <1> QED BY <1>1, <1>2, <1>3, <1>4, <1>5, <1>6, <1>7, EndSteps

\* The query.
LEMMA QueryReturnSteps ==
  ASSUME CInv, QueryReturns
  PROVE  CStep
  <1>1. Typed /\ "query" \in Caller /\ flow["query"] = "pinging"
    BY DEF CInv, QueryReturns
  <1>2. PICK i : i = command["query"].id
    OBVIOUS
  <1>3. i \in Id
    BY <1>1, <1>2 DEF Typed
  <1>4. OnlyCommands /\ Ends("query") /\ restoring' = restoring /\ listed' = listed
        /\ Excuses({}, "none")
    BY DEF QueryReturns, Excused
  <1>5. listed' \in SUBSET Id /\ \A j \in Id \ {i} : j \in listed' <=> j \in listed
    BY <1>1, <1>4 DEF Typed
  <1>6. Flow("query", i, SomeId, None, "done", "idle", {}, "none") /\ Awaits("query")'
    BY <1>1, <1>2, <1>3, <1>4, <1>5, Ended
  <1> QED BY <1>1, <1>3, <1>4, <1>6, QuerySteps
\* A flow that goes on keeps everything sound when it is as far with its connection as
\* the new command says.
LEMMA GoSteps ==
  ASSUME CInv, NEW c \in Caller, c # "query", NEW i \in Id, flow[c] # "idle", command[c].id = i,
         OnlyCommands, listed' = listed, restoring' = restoring,
         NEW config \in Config \cup {None}, NEW op \in {"connect", "disconnect", "ping", "query"},
         NEW step \in Steps, NEW stage \in Stages, stage # "idle",
         Issue(c, op, i, config, step), Await(c, stage),
         NEW S \in SUBSET {i}, NEW e \in {"none", "tested"}, Excuses(S, e),
         Flow(c, i, i, config, step, stage, S, e) => Awaits(c)',
         Flow(c, i, i, config, step, stage, S, e) /\ Halfway(c, i)
           /\ excuse'[i] = (IF i \in S THEN e ELSE excuse[i]) => Halfway(c, i)'
  PROVE  CStep
  <1>1. Typed
    BY DEF CInv
  <1>2. Flow(c, i, i, config, step, stage, S, e)
    BY <1>1, GoesOn
  <1>3. /\ excuse'[i] = IF i \in S THEN e ELSE excuse[i]
        /\ IF flow[c] = "idle" THEN AtRest(i) ELSE Halfway(c, i)
        => IF stage = "idle" THEN AtRest(i)' ELSE Halfway(c, i)'
    BY <1>2
  <1>4. i \in Id \cup {SomeId}
    OBVIOUS
  <1> QED BY <1>2, <1>3, <1>4, FlowSteps

\* The dialog that connects and repairs.
LEMMA ConnectReturnSteps ==
  ASSUME CInv, ConnectReturns
  PROVE  CStep
  <1> DEFINE c == "connect"
             opened == command[c].step = "done"
  <1>1. Typed /\ Awaits(c) /\ c \in Caller /\ flow[c] \in {"connecting", "fixing", "cleaning"}
        /\ command[c].step \in {"done", "failed"} /\ c # "query"
    BY DEF CInv, ConnectReturns, Answered, Awaits
  <1>2. PICK i : i = command[c].id
    OBVIOUS
  <1>3. i \in Id /\ flow[c] # "idle" /\ command[c].id = i
    BY <1>1, <1>2 DEF Typed
  <1>4. OnlyCommands /\ restoring' = restoring
    BY DEF ConnectReturns
  <1>5. ASSUME flow[c] \in {"connecting", "fixing"}, opened, Connected(i) PROVE CStep
    <2>1. Ends(c) /\ listed' = listed \cup {i} /\ Excuses({i}, "none")
      BY <1>5 DEF Connected
    <2>2. listed' \in SUBSET Id /\ \A j \in Id \ {i} : j \in listed' <=> j \in listed
      BY <1>1, <1>3, <2>1 DEF Typed
    <2>3. Halfway(c, i) /\ excuse'[i] = (IF i \in {i} THEN "none" ELSE excuse[i]) => AtRest(i)'
      BY <1>3, <1>4, <1>5, <2>1 DEF Halfway, AtRest, Even, OnlyCommands
    <2> QED BY <1>1, <1>3, <1>4, <2>1, <2>2, <2>3, EndSteps
  <1>6. ASSUME \/ flow[c] = "connecting" /\ ~opened
               \/ flow[c] = "cleaning",
               Ends(c), Excused, listed' = listed
        PROVE  CStep
    <2>1. Excuses({}, "none")
      BY <1>6 DEF Excused
    <2>2. listed' \in SUBSET Id /\ \A j \in Id \ {i} : j \in listed' <=> j \in listed
      BY <1>1, <1>6 DEF Typed
    <2>3. Halfway(c, i) /\ excuse'[i] = (IF i \in {} THEN "none" ELSE excuse[i]) => AtRest(i)'
      BY <1>1, <1>4, <1>6 DEF Halfway, AtRest, Even, OnlyCommands, Awaits
    <2> QED BY <1>1, <1>3, <1>4, <1>6, <2>1, <2>2, <2>3, EndSteps
  <1>7. ASSUME \/ flow[c] = "connecting" /\ ~opened
               \/ flow[c] = "cleaning",
               NEW config \in Config, Connect(c, i, config), Await(c, "fixing"), Excused,
               listed' = listed
        PROVE  CStep
    <2>1. /\ Excuses({}, "none") /\ Issue(c, "connect", i, config, "open") /\ "open" \in Steps
          /\ "fixing" \in Stages /\ config \in Config \cup {None} /\ config # None
      BY <1>7, ManagerAssumption DEF Excused, Connect, Steps, Stages
    <2>2. Flow(c, i, i, config, "open", "fixing", {}, "none") => Awaits(c)'
      BY <2>1 DEF Flow, Ordered, Staged, Awaits, Opening
    <2>3. Flow(c, i, i, config, "open", "fixing", {}, "none") /\ Halfway(c, i)
          /\ excuse'[i] = (IF i \in {} THEN "none" ELSE excuse[i]) => Halfway(c, i)'
      BY <1>1, <1>4, <1>7 DEF Flow, Ordered, Staged, Halfway, Even, OnlyCommands, Awaits
    <2> QED BY <1>1, <1>3, <1>4, <1>7, <2>1, <2>2, <2>3, GoSteps
  <1>8. ASSUME flow[c] = "fixing", ~opened, Disconnect(c, i), Await(c, "cleaning"),
               Excuses({i}, "tested"), listed' = listed
        PROVE  CStep
    <2>1. /\ Issue(c, "disconnect", i, None, "remove") /\ "remove" \in Steps
          /\ "cleaning" \in Stages /\ None \in Config \cup {None}
      BY <1>8 DEF Disconnect, Steps, Stages
    <2>2. Flow(c, i, i, None, "remove", "cleaning", {i}, "tested") => Awaits(c)'
      BY DEF Flow, Ordered, Staged, Awaits, Opening
    <2>3. Flow(c, i, i, None, "remove", "cleaning", {i}, "tested") /\ Halfway(c, i)
          /\ excuse'[i] = (IF i \in {i} THEN "tested" ELSE excuse[i]) => Halfway(c, i)'
      BY <1>1, <1>4, <1>8 DEF Flow, Ordered, Staged, Halfway, OnlyCommands, Awaits, Opening
    <2> QED BY <1>1, <1>3, <1>4, <1>8, <2>1, <2>2, <2>3, GoSteps
  <1> QED BY <1>2, <1>5, <1>6, <1>7, <1>8 DEF ConnectReturns

\* The test of a connection.
LEMMA TestReturnSteps ==
  ASSUME CInv, TestReturns
  PROVE  CStep
  <1> DEFINE c == "test"
             done == command[c].step = "done"
  <1>1. Typed /\ Awaits(c) /\ c \in Caller /\ flow[c] \in {"connecting", "pinging", "closing"}
        /\ command[c].step \in {"done", "failed"} /\ c # "query"
    BY DEF CInv, TestReturns, Answered, Awaits
  <1>2. PICK i : i = command[c].id
    OBVIOUS
  <1>3. i \in Id /\ flow[c] # "idle" /\ command[c].id = i
    BY <1>1, <1>2 DEF Typed
  <1>4. OnlyCommands /\ restoring' = restoring /\ listed' = listed
    BY DEF TestReturns
  <1>5. listed' \in SUBSET Id /\ \A j \in Id \ {i} : j \in listed' <=> j \in listed
    BY <1>1, <1>4 DEF Typed
  <1>6. ASSUME flow[c] = "connecting", done, Ping(c, i), Await(c, "pinging"), Excused
        PROVE  CStep
    <2>1. /\ Excuses({}, "none") /\ Issue(c, "ping", i, None, "get") /\ "get" \in Steps
          /\ "pinging" \in Stages /\ None \in Config \cup {None}
      BY <1>6 DEF Excused, Ping, Steps, Stages
    <2>2. Flow(c, i, i, None, "get", "pinging", {}, "none") => Awaits(c)'
      BY DEF Flow, Ordered, Staged, Awaits
    <2>3. Flow(c, i, i, None, "get", "pinging", {}, "none") /\ Halfway(c, i)
          /\ excuse'[i] = (IF i \in {} THEN "none" ELSE excuse[i]) => Halfway(c, i)'
      BY <1>1, <1>4, <1>6 DEF Flow, Ordered, Staged, Halfway, OnlyCommands
    <2> QED BY <1>1, <1>3, <1>4, <1>6, <2>1, <2>2, <2>3, GoSteps
  <1>7. ASSUME flow[c] = "pinging", done, Disconnect(c, i), Await(c, "closing"),
               Excuses({i}, "tested")
        PROVE  CStep
    <2>1. /\ Issue(c, "disconnect", i, None, "remove") /\ "remove" \in Steps
          /\ "closing" \in Stages /\ None \in Config \cup {None}
      BY <1>7 DEF Disconnect, Steps, Stages
    <2>2. Flow(c, i, i, None, "remove", "closing", {i}, "tested") => Awaits(c)'
      BY DEF Flow, Ordered, Staged, Awaits
    <2>3. Flow(c, i, i, None, "remove", "closing", {i}, "tested") /\ Halfway(c, i)
          /\ excuse'[i] = (IF i \in {i} THEN "tested" ELSE excuse[i]) => Halfway(c, i)'
      BY <1>1, <1>4, <1>7 DEF Flow, Ordered, Staged, Halfway, OnlyCommands
    <2> QED BY <1>1, <1>3, <1>4, <1>7, <2>1, <2>2, <2>3, GoSteps
  <1>8. ASSUME \/ flow[c] = "connecting" /\ ~done
               \/ flow[c] = "closing",
               Ends(c), Excused
        PROVE  CStep
    <2>1. Excuses({}, "none")
      BY <1>8 DEF Excused
    <2>2. Halfway(c, i) /\ excuse'[i] = (IF i \in {} THEN "none" ELSE excuse[i]) => AtRest(i)'
      BY <1>1, <1>4, <1>8 DEF Halfway, AtRest, Even, OnlyCommands, Awaits
    <2> QED BY <1>1, <1>3, <1>4, <1>5, <1>8, <2>1, <2>2, EndSteps
  <1>9. ASSUME flow[c] = "pinging", ~done, Ends(c), Excuses({i}, "tested")
        PROVE  CStep
    <2>1. Halfway(c, i) /\ excuse'[i] = (IF i \in {i} THEN "tested" ELSE excuse[i]) => AtRest(i)'
      BY <1>1, <1>4, <1>9 DEF Halfway, AtRest, OnlyCommands
    <2> QED BY <1>1, <1>3, <1>4, <1>5, <1>9, <2>1, EndSteps
  <1> QED BY <1>2, <1>6, <1>7, <1>8, <1>9 DEF TestReturns

\* What returns to a flow keeps everything typed, awaited and sound.
LEMMA ReturnSteps ==
  ASSUME CInv, Returns
  PROVE  CStep
  BY RestoreReturnSteps, ConnectReturnSteps, TestReturnSteps, DisconnectReturnSteps, QueryReturnSteps
     DEF Returns
-----------------------------------------------------------------------------
\* The monitor.

Writing == {"open", "insert", "configure"}

\* The monitor is at a step of its round.
AtRound(at) ==
    /\ monitor' \in Round
    /\ monitor'.step # "rest" => monitor'.id \in Id
    /\ monitor'.step \in at

\* The next connection of the round is one that was to be pinged.
LEMMA NextRound ==
  ASSUME NEW todo \in SUBSET Id, NextConnection(todo)
  PROVE  AtRound({"rest", "ping"})
  <1>1. CASE todo = {} /\ monitor' = Resting
    BY <1>1 DEF Resting, AtRound, Round
  <1>2. ASSUME NEW i \in todo,
               monitor' = [step |-> "ping", id |-> i, config |-> None, todo |-> todo \ {i}]
        PROVE  AtRound({"rest", "ping"})
    BY <1>2 DEF AtRound, Round
  <1> QED BY <1>1, <1>2 DEF NextConnection

\* Another step at the same connection.
LEMMA SameRound ==
  ASSUME Typed, monitor.step # "rest", NEW step \in {"answer", "config", "open", "insert", "configure"},
         MonitorAt(step)
  PROVE  AtRound({step}) /\ monitor'.id = monitor.id /\ monitor'.config = monitor.config
  BY DEF Typed, MonitorAt, AtRound, Round

\* A step of the monitor that writes nothing.
LEMMA MonitorLooks ==
  ASSUME CInv, UNCHANGED <<pool, conf, command>>, UNCHANGED front, Excused,
         monitor.step \notin Writing, AtRound({"rest", "ping", "answer", "config"})
  PROVE  CStep
  <1>1. Typed /\ (\A c \in Caller : Awaits(c)) /\ \A j \in Id : Sound(j)
    BY DEF CInv
  <1>2. excuse' \in [Id -> Excuse]
    BY <1>1, ExcuseTyped DEF Excused
  <1>3. Typed'
    BY <1>1, <1>2 DEF Typed, AtRound, front
  <1>4. \A c \in Caller : Awaits(c)'
    BY <1>1 DEF Awaits, front
  <1>5. \A v \in Actor \ {Monitor} : Kept(v)
    BY DEF Kept, front
  <1>6. ASSUME NEW j \in Id PROVE Aside(Monitor, j)
    <2>1. Monitor \notin Writers(j) /\ Monitor \notin Writers(j)'
      BY ManagerAssumption DEF Writers, Writing, AtRound
    <2> QED BY <1>5, <2>1 DEF Aside, front
  <1>7. \A j \in Id : Sound(j)'
    BY <1>1, <1>6, NoWriter
  <1> QED BY <1>3, <1>4, <1>7 DEF CStep

\* A step of the monitor at the connection it reconnects keeps everything sound when it
\* brings the monitor as far with it as it should.
LEMMA MonitorWrites ==
  ASSUME CInv, command' = command, UNCHANGED front, Excused, NEW i \in Id, i = monitor.id,
         pool' \in [Id -> Config \cup {None}], conf' \in [Id -> Config \cup {None}],
         \A j \in Id \ {i} : pool'[j] = pool[j] /\ conf'[j] = conf[j],
         NEW at, AtRound(at), monitor'.step \in Writing => monitor'.id = i,
         monitor.step \in Writing \/ monitor'.step \in Writing,
         /\ excuse'[i] = excuse[i]
         /\ IF monitor.step \in Writing THEN Reconnecting(i) ELSE AtRest(i)
         => IF monitor'.step \in Writing THEN Reconnecting(i)' ELSE AtRest(i)'
  PROVE  CStep
  <1>1. Typed /\ (\A c \in Caller : Awaits(c)) /\ \A j \in Id : Sound(j)
    BY DEF CInv
  <1>2. excuse' \in [Id -> Excuse]
    BY <1>1, ExcuseTyped DEF Excused
  <1>3. Typed'
    BY <1>1, <1>2 DEF Typed, AtRound, front
  <1>4. \A c \in Caller : Awaits(c)'
    BY <1>1 DEF Awaits, front
  <1>5. \A v \in Actor \ {Monitor} : Kept(v)
    BY DEF Kept, front
  <1>6. /\ Monitor \in Writers(i) <=> monitor.step \in Writing
        /\ Monitor \in Writers(i)' <=> monitor'.step \in Writing
    BY ManagerAssumption DEF Writers, Writing
  <1>7. ASSUME NEW j \in Id, j # i PROVE Aside(Monitor, j)
    <2>1. Monitor \notin Writers(j) /\ Monitor \notin Writers(j)'
      BY <1>7, ManagerAssumption DEF Writers, Writing
    <2> QED BY <1>5, <1>7, <2>1 DEF Aside, front
  <1>8. Turn(Monitor, i, {}, "none")
    BY <1>5, <1>7 DEF Turn, Excused
  <1>9. /\ Come(Monitor, i) <=> IF monitor.step \in Writing THEN Reconnecting(i) ELSE AtRest(i)
        /\ Come(Monitor, i)' <=> IF monitor'.step \in Writing THEN Reconnecting(i)' ELSE AtRest(i)'
    BY <1>6 DEF Come
  <1>10. i \in Id /\ Come(Monitor, i) /\ excuse'[i] = (IF i \in {} THEN "none" ELSE excuse[i])
         => Come(Monitor, i)'
    BY <1>9
  <1>11. Monitor \in Writers(i) \cup Writers(i)'
    BY <1>6
  <1>12. \A j \in Id : Sound(j)'
    BY <1>1, <1>8, <1>10, <1>11, TurnSound
  <1> QED BY <1>3, <1>4, <1>12 DEF CStep

\* A step of the monitor keeps everything typed, awaited and sound: what it puts back was
\* the configuration when nobody else was at the connection.
LEMMA MonitorSteps ==
  ASSUME CInv, MonitorStep, UNCHANGED front, Excused
  PROVE  CStep
  <1>1. Typed
    BY DEF CInv
  <1>2. PICK i : i = monitor.id
    OBVIOUS
  <1>3. monitor.todo \in SUBSET Id /\ (monitor.step # "rest" => i \in Id)
    BY <1>1, <1>2 DEF Typed, Round
  <1>4. pool \in [Id -> Config \cup {None}] /\ conf \in [Id -> Config \cup {None}]
        /\ monitor.config \in Config \cup {None}
    BY <1>1 DEF Typed, Round
  <1>5. listed' = listed
    BY DEF front
  <1>6. ASSUME AtRound({"rest", "ping"}) \/ AtRound({"answer"}) \/ AtRound({"config"}),
               monitor.step \in {"rest", "ping", "answer", "config"},
               UNCHANGED <<pool, conf, command>>
        PROVE  CStep
    <2>1. AtRound({"rest", "ping", "answer", "config"})
      BY <1>6 DEF AtRound
    <2> QED BY <1>6, <2>1, MonitorLooks DEF Writing
  <1>7. ASSUME Dead, monitor.step \in {"ping", "answer"}
        PROVE  AtRound({"rest", "ping"}) \/ AtRound({"config"})
    BY <1>1, <1>3, <1>7, NextRound, SameRound DEF Dead
  <1>8. CASE Tick
    <2>1. {j \in Id : pool[j] # None} \in SUBSET Id
      OBVIOUS
    <2>2. AtRound({"rest", "ping"})
      BY <1>8, <2>1, NextRound DEF Tick
    <2> QED BY <1>6, <1>8, <2>2 DEF Tick
  <1>9. CASE PingLooks
    <2>1. AtRound({"rest", "ping"}) \/ AtRound({"answer"}) \/ AtRound({"config"})
      BY <1>1, <1>7, <1>9, SameRound DEF PingLooks
    <2> QED BY <1>6, <1>9, <2>1 DEF PingLooks
  <1>10. CASE PingAnswers
    <2>1. AtRound({"rest", "ping"})
      BY <1>3, <1>10, NextRound DEF PingAnswers, Alive
    <2> QED BY <1>6, <1>10, <2>1 DEF PingAnswers
  <1>11. CASE PingFails
    BY <1>6, <1>7, <1>11 DEF PingFails
  <1>12. CASE ReadsConfig
    <2>1. monitor.step = "config" /\ UNCHANGED <<pool, conf, command>> /\ i \in Id
      BY <1>3, <1>12 DEF ReadsConfig
    <2>2. CASE conf[i] = None
      <3>1. AtRound({"rest", "ping"})
        BY <1>2, <1>3, <1>12, <2>2, NextRound DEF ReadsConfig
      <3> QED BY <1>6, <2>1, <3>1
    <2>3. CASE conf[i] # None
      <3>1. monitor' = [monitor EXCEPT !.step = "open", !.config = conf[i]] /\ conf[i] \in Config
        BY <1>2, <1>4, <1>12, <2>1, <2>3 DEF ReadsConfig
      <3>2. /\ monitor' \in Round /\ monitor'.id = i /\ monitor'.step = "open"
            /\ monitor'.config = conf[i]
        BY <1>1, <1>2, <3>1 DEF Typed, Round
      <3>3. AtRound({"open"})
        BY <2>1, <3>2 DEF AtRound
      <3>4. excuse'[i] = excuse[i] /\ AtRest(i) => Reconnecting(i)'
        BY <1>5, <2>1, <2>3, <3>2 DEF AtRest, Reconnecting, Even
      <3>5. monitor.step \notin Writing /\ monitor'.step \in Writing
        BY <2>1, <3>2 DEF Writing
      <3> QED BY <1>2, <1>4, <2>1, <3>2, <3>3, <3>4, <3>5, MonitorWrites
    <2> QED BY <2>2, <2>3
  <1>13. CASE Reopens
    <2>1. monitor.step = "open" /\ UNCHANGED <<pool, conf, command>> /\ i \in Id
          /\ monitor.step \in Writing
      BY <1>3, <1>13 DEF Reopens, Writing
    <2>2. CASE MonitorAt("insert")
      <3>1. AtRound({"insert"}) /\ monitor'.id = i /\ monitor'.config = monitor.config
        BY <1>1, <1>2, <2>1, <2>2, SameRound
      <3>2. monitor'.step = "insert" /\ monitor'.step \in Writing
        BY <3>1 DEF AtRound, Writing
      <3>3. excuse'[i] = excuse[i] /\ Reconnecting(i) => Reconnecting(i)'
        BY <1>5, <2>1, <3>1, <3>2 DEF Reconnecting, Even
      <3> QED BY <1>2, <1>4, <2>1, <3>1, <3>2, <3>3, MonitorWrites
    <2>3. CASE NextConnection(monitor.todo)
      <3>1. AtRound({"rest", "ping"})
        BY <1>3, <2>3, NextRound
      <3>2. monitor'.step \notin Writing
        BY <3>1 DEF AtRound, Writing
      <3>3. excuse'[i] = excuse[i] /\ Reconnecting(i) => AtRest(i)'
        BY <1>5, <2>1 DEF Reconnecting, AtRest, Even
      <3> QED BY <1>2, <1>4, <2>1, <3>1, <3>2, <3>3, MonitorWrites
    <2> QED BY <1>13, <2>2, <2>3 DEF Reopens
  <1>14. CASE Reinserts
    <2>1. monitor.step = "insert" /\ UNCHANGED <<conf, command>> /\ i \in Id
          /\ monitor.step \in Writing /\ pool' = [pool EXCEPT ![i] = monitor.config]
      BY <1>2, <1>3, <1>14 DEF Reinserts, Writing
    <2>2. AtRound({"configure"}) /\ monitor'.id = i /\ monitor'.config = monitor.config
      BY <1>1, <1>2, <1>14, <2>1, SameRound DEF Reinserts
    <2>3. monitor'.step = "configure" /\ monitor'.step \in Writing
      BY <2>2 DEF AtRound, Writing
    <2>4. /\ pool' \in [Id -> Config \cup {None}] /\ pool'[i] = monitor.config
          /\ \A j \in Id \ {i} : pool'[j] = pool[j] /\ conf'[j] = conf[j]
      BY <1>4, <2>1
    <2>5. conf' \in [Id -> Config \cup {None}]
      BY <1>4, <2>1
    <2>6. excuse'[i] = excuse[i] /\ Reconnecting(i) => Reconnecting(i)'
      BY <1>5, <2>1, <2>2, <2>3, <2>4 DEF Reconnecting, Even
    <2> QED BY <1>2, <2>1, <2>2, <2>3, <2>4, <2>5, <2>6, MonitorWrites
  <1>15. CASE Reconfigures
    <2>1. monitor.step = "configure" /\ UNCHANGED <<pool, command>> /\ i \in Id
          /\ monitor.step \in Writing /\ conf' = [conf EXCEPT ![i] = monitor.config]
      BY <1>2, <1>3, <1>15 DEF Reconfigures, Writing
    <2>2. AtRound({"rest", "ping"})
      BY <1>3, <1>15, NextRound DEF Reconfigures
    <2>3. monitor'.step \notin Writing
      BY <2>2 DEF AtRound, Writing
    <2>4. /\ conf' \in [Id -> Config \cup {None}] /\ conf'[i] = monitor.config
          /\ \A j \in Id \ {i} : pool'[j] = pool[j] /\ conf'[j] = conf[j]
      BY <1>4, <2>1
    <2>5. pool' \in [Id -> Config \cup {None}]
      BY <1>4, <2>1
    <2>6. excuse'[i] = excuse[i] /\ Reconnecting(i) => AtRest(i)'
      BY <1>5, <2>1, <2>4 DEF Reconnecting, AtRest, Even
    <2> QED BY <1>2, <2>1, <2>2, <2>3, <2>4, <2>5, <2>6, MonitorWrites
  <1> QED BY <1>8, <1>9, <1>10, <1>11, <1>12, <1>13, <1>14, <1>15 DEF MonitorStep

-----------------------------------------------------------------------------
\* Nothing is open, listed or under way at the start.
LEMMA CInit == Init => CInv
  <1> SUFFICES ASSUME Init PROVE CInv
    OBVIOUS
  <1>1. Typed
    <2>1. NoCommand \in Order
      BY DEF Order, NoCommand, Steps
    <2>2. Resting \in Round /\ Resting.step = "rest"
      BY DEF Round, Resting
    <2> QED BY <2>1, <2>2 DEF Typed, Init, ManagerInit, Stages, Excuse
  <1>2. \A c \in Caller : Awaits(c)
    BY DEF Awaits, Init, ManagerInit, NoCommand
  <1>3. ASSUME NEW i \in Id PROVE Sound(i)
    <2>1. Writers(i) = {}
      BY DEF Writers, Init, ManagerInit, Resting
    <2> QED BY <1>3, <2>1 DEF Sound, AtRest, Even, Init, ManagerInit
  <1> QED BY <1>1, <1>2, <1>3 DEF CInv

\* A server that changes touches no connection.
LEMMA ServerSteps ==
  ASSUME CInv, ServerChanges, UNCHANGED front, Excused
  PROVE  CStep
  <1>1. Typed /\ (\A c \in Caller : Awaits(c)) /\ \A j \in Id : Sound(j)
    BY DEF CInv
  <1>2. excuse' \in [Id -> Excuse]
    BY <1>1, ExcuseTyped DEF Excused
  <1>3. Typed'
    BY <1>1, <1>2 DEF Typed, ServerChanges, front
  <1>4. \A c \in Caller : Awaits(c)'
    BY <1>1 DEF Awaits, ServerChanges, front
  <1>5. \A v \in Actor : Kept(v)
    BY DEF Kept, front, ServerChanges
  <1>6. PICK w \in {"nobody", "nothing"} : w \notin Actor
    BY ConnectionsAssumption DEF Actor
  <1>7. \A j \in Id : Aside(w, j)
    BY <1>5, <1>6, WritersAct DEF Aside, front, ServerChanges
  <1>8. \A j \in Id : Sound(j)'
    BY <1>1, <1>7, NoWriter
  <1> QED BY <1>3, <1>4, <1>8 DEF CStep

\* Every step keeps the invariant.
LEMMA CNext == CInv /\ [Next]_vars => CInv'
  <1> SUFFICES ASSUME CInv, [Next]_vars PROVE CStep
    BY DEF CStep, CInv
  <1>1. CASE Operator
    BY <1>1, StartSteps
  <1>2. CASE Returns
    BY <1>2, ReturnSteps
  <1>3. CASE NativeSide
    <2>1. UNCHANGED front /\ Excuses(Refused, "refused")
      BY <1>3 DEF NativeSide
    <2>2. ASSUME NEW c \in Caller, CommandStep(c) PROVE CStep
      <3>1. CASE Configures(c)
        BY <2>1, <3>1, ConfigureSteps
      <3>2. CASE ~Configures(c)
        <4>1. Refused = {}
          <5>1. \A d \in Caller : command[d].step = "configure" => command'[d] = command[d]
            BY <2>2, <3>2 DEF CommandStep, Opens, Inserts, Removes, Unconfigures, ReadsPolicy, Gets,
                              Runs, Goto, Answer, CInv, Typed
          <5> QED BY <5>1 DEF Refused
        <4> QED BY <2>1, <2>2, <3>2, <4>1, NoneRefused, CommandSteps
      <3> QED BY <3>1, <3>2
    <2>3. CASE MonitorStep
      <3>1. Refused = {}
        BY <2>3 DEF Refused, MonitorStep, Tick, PingLooks, PingAnswers, PingFails, ReadsConfig,
                    Reopens, Reinserts, Reconfigures
      <3> QED BY <2>1, <2>3, <3>1, NoneRefused, MonitorSteps
    <2>4. CASE ServerChanges
      <3>1. Refused = {}
        BY <2>4 DEF Refused, ServerChanges
      <3> QED BY <2>1, <2>4, <3>1, NoneRefused, ServerSteps
    <2> QED BY <1>3, <2>2, <2>3, <2>4 DEF NativeSide
  <1>4. CASE UNCHANGED vars
    BY <1>4 DEF CInv, CStep, Typed, Awaits, Sound, Come, Calm, Writers, AtRest, Halfway, Reconnecting,
                Even, vars, manager, front
  <1> QED BY <1>1, <1>2, <1>3, <1>4 DEF Next

\* The invariant holds in every state.
LEMMA CAlways == Spec => []CInv
  BY CInit, CNext, PTL DEF Spec

\* Whatever the operator does and whatever the servers answer, a connection that no two
\* flows, and no flow and the monitor, met on has the configuration its pool was opened
\* with, whenever nobody is about to open or close it: the read-only policy of a query
\* is the one of the pool it runs on (connection_manager.rs 251-265).
THEOREM PolicyOfPool == Spec => []ConfigMatchesPool
  <1>1. CInv => ConfigMatchesPool
    BY DEF CInv, Sound, AtRest, ConfigMatchesPool
  <1> QED BY <1>1, CAlways, PTL

\* The sidebar lists the connections that are open, whenever nobody is about to open or
\* close them, except for those a test or a repair closed or left open, those whose
\* db_connect failed at the keychain, which are open, and those that were raced (App.tsx
\* 391, 845, 881; ConnectionDialog.tsx 385; ConnectionDoctor.ts 322; connection.rs 21).
THEOREM SidebarTrue == Spec => []SidebarShowsOpen
  <1>1. CInv => SidebarShowsOpen
    BY DEF CInv, Sound, AtRest, Even, SidebarShowsOpen
  <1> QED BY <1>1, CAlways, PTL
=============================================================================
