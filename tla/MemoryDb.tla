------------------------------- MODULE MemoryDb -------------------------------
(***************************************************************************)
(* The memory database of the native side (commands/memory.rs): episodes   *)
(* with the outcome each leaves open, the calibration profile that learns  *)
(* from outcomes, and the telemetry graph.  Its commands are asynchronous  *)
(* and share a pool of connections, so the statements of different calls   *)
(* interleave; a transaction is one step.  A call under way is a record of *)
(* what it does and what it has read.                                      *)
(***************************************************************************)
EXTENDS Naturals, Sequences, FiniteSets

CONSTANTS
    Episode,      \* ids of episodes
    Edge,         \* edges of the telemetry graph, as their two nodes and type
    MaxUpdates,   \* bound: outcomes that are updated
    KeepHistory,  \* entries the calibration's history keeps (20 in the code)
    MaxFaults,    \* bound: statements that fail
    None

ASSUME MemoryDbAssumption ==
    /\ {MaxUpdates, MaxFaults} \subseteq Nat /\ KeepHistory \in Nat \ {0}
    /\ None \notin {"pending", "resolved"}

VARIABLES
    episodes,   \* memory_episodes
    outcomes,   \* outcome_tracking: the status of an episode's outcome
    history,    \* user_calibration.correction_history, as numbers of updates
    edges,      \* analysis_telemetry_graph: the weights of the rows of each edge
    calls,      \* commands under way
    faults,
    applied,    \* ghost: updates that reached the calibration, in order
    recorded,   \* ghost: edge records that ended
    excused,    \* ghost: episodes that may lack their outcome or the reverse: an insert crossed
                \* a clear, a clear stopped half way, or the panel revived a cleared outcome
    overlapped  \* ghost: two updates read the calibration before either wrote it

tables == <<episodes, outcomes, history, edges>>
notes == <<applied, recorded, excused, overlapped>>
memory == <<tables, calls, faults, notes>>

MemoryInit ==
    /\ episodes = {} /\ outcomes = [e \in Episode |-> None]
    /\ history = <<>> /\ edges = [g \in Edge |-> <<>>]
    /\ calls = {} /\ faults = 0
    /\ applied = <<>> /\ recorded = [g \in Edge |-> 0]
    /\ excused = {} /\ overlapped = FALSE

Goes(c, d) == calls' = (calls \ {c}) \cup {d}
Ends(c) == calls' = calls \ {c}
Sum(s) == LET sum[i \in 0..Len(s)] == IF i = 0 THEN 0 ELSE sum[i - 1] + s[i] IN sum[Len(s)]

-----------------------------------------------------------------------------
\* The calls, as they are made.
InsertCall(e) == [do |-> "insert", episode |-> e]
ClearCall(n) == [do |-> "clear", n |-> n, step |-> 1]
OutcomeCall(e, status, n) == [do |-> "outcome", episode |-> e, status |-> status, n |-> n,
                              step |-> 1, read |-> <<>>]
EdgeCall(key, g) == [do |-> "edge", key |-> key, edge |-> g, step |-> 1, row |-> 0]

\* Mutant: the outcome is left to a statement of its own, which never comes.
InsertBare(c) ==
    /\ episodes' = episodes \cup {c.episode}
    /\ UNCHANGED outcomes

\* The two inserts of memory_insert_episode, in one transaction.
InsertRows(c) ==
    /\ episodes' = episodes \cup {c.episode}
    /\ outcomes' = [outcomes EXCEPT ![c.episode] = IF @ = None THEN "pending" ELSE @]

InsertEpisode(c) ==
    /\ c.do = "insert"
    /\ InsertRows(c)
    /\ Ends(c)
    /\ excused' = excused \cup {e \in {c.episode} : \E d \in calls : d.do = "clear" /\ d.step = 2}
    /\ UNCHANGED <<history, edges, faults, applied, recorded, overlapped>>

\* memory_clear_episodes: two statements, each its own transaction.
ClearsEpisodes(c) ==
    /\ c.do = "clear" /\ c.step = 1
    /\ episodes' = {}
    /\ Goes(c, [c EXCEPT !.step = 2])
    /\ excused' = excused \cup {e \in Episode : outcomes[e] # None}
    /\ UNCHANGED <<outcomes, history, edges, faults, applied, recorded, overlapped>>

ClearsOutcomes(c) ==
    /\ c.do = "clear" /\ c.step = 2
    /\ outcomes' = [e \in Episode |-> None]
    /\ Ends(c)
    /\ excused' = excused \cap episodes
    /\ UNCHANGED <<episodes, history, edges, faults, applied, recorded, overlapped>>

\* memory_upsert_outcome: the row is replaced, or put back.
ReplacesOutcome(c) ==
    /\ c.do = "outcome" /\ c.step = 1
    /\ outcomes' = [outcomes EXCEPT ![c.episode] = c.status]
    /\ Goes(c, [c EXCEPT !.step = 2])
    /\ excused' = excused \cup ({c.episode} \ episodes)
    /\ UNCHANGED <<episodes, history, edges, faults, applied, recorded, overlapped>>

\* apply_calibration_from_outcome: the profile is read ...
ReadsProfile(c) ==
    /\ c.do = "outcome" /\ c.step = 2
    /\ Goes(c, [c EXCEPT !.step = 3, !.read = history])
    /\ overlapped' = (overlapped \/ \E d \in calls : d.do = "outcome" /\ d.step = 3)
    /\ UNCHANGED <<tables, faults, applied, recorded, excused>>

\* Mutant: the history drops the newest entries and not the oldest.
AppendedFull(entries, n) == IF Len(entries) < KeepHistory THEN Append(entries, n) ELSE entries

\* The update is appended, and the oldest entries are drained.
Appended(entries, n) ==
    LET longer == Append(entries, n) IN
    SubSeq(longer, IF Len(longer) > KeepHistory THEN Len(longer) - KeepHistory + 1 ELSE 1, Len(longer))

\* ... and written back from what was read.
WritesProfile(c) ==
    /\ c.do = "outcome" /\ c.step = 3
    /\ history' = Appended(c.read, c.n)
    /\ applied' = Append(applied, c.n)
    /\ Ends(c)
    /\ UNCHANGED <<episodes, outcomes, edges, faults, recorded, excused, overlapped>>

\* harness_record_telemetry_edge: a row of the edge is looked up ...
FindsEdge(c) ==
    /\ c.do = "edge" /\ c.step = 1
    /\ IF edges[c.edge] = <<>> THEN Goes(c, [c EXCEPT !.step = 2])
       ELSE \E i \in DOMAIN edges[c.edge] : Goes(c, [c EXCEPT !.step = 2, !.row = i])
    /\ UNCHANGED <<tables, faults, notes>>

Heavier(rows, i) == [rows EXCEPT ![i] = @ + 1]

\* Mutant: a row that was found by another call meanwhile is inserted over.
WeighOnce(c) ==
    edges' = [edges EXCEPT ![c.edge] = IF c.row = 0 THEN <<1>> ELSE Heavier(@, c.row)]

\* ... and made heavier, or inserted.
Weigh(c) ==
    edges' = [edges EXCEPT ![c.edge] = IF c.row = 0 THEN Append(@, 1) ELSE Heavier(@, c.row)]

RecordsEdge(c) ==
    /\ c.do = "edge" /\ c.step = 2
    /\ Weigh(c)
    /\ recorded' = [recorded EXCEPT ![c.edge] = @ + 1]
    /\ Ends(c)
    /\ UNCHANGED <<episodes, outcomes, history, faults, applied, excused, overlapped>>

\* A statement fails (the database is locked or full): its call ends there.
StatementFails(c) ==
    /\ faults < MaxFaults
    /\ faults' = faults + 1
    /\ Ends(c)
    /\ UNCHANGED <<tables, notes>>

\* What the native side does with a call.
Runs(c) ==
    \/ InsertEpisode(c)
    \/ ClearsEpisodes(c) \/ ClearsOutcomes(c)
    \/ ReplacesOutcome(c) \/ ReadsProfile(c) \/ WritesProfile(c)
    \/ FindsEdge(c) \/ RecordsEdge(c)
    \/ StatementFails(c)

-----------------------------------------------------------------------------
(* Properties.                                                             *)

\* An episode and its outcome come and go together (one transaction inserts both, two
\* statements clear both), unless an insert or an update met a clear, or a clear failed.
EpisodesHaveOutcomes ==
    \A e \in Episode : (e \in episodes) = (outcomes[e] # None) \/ e \in excused

\* The history holds the last updates in their order, unless two updates read it before
\* either wrote it (apply_calibration_from_outcome).
HistoryIsLatest ==
    overlapped \/ history = SubSeq(applied, IF Len(applied) > KeepHistory
                                            THEN Len(applied) - KeepHistory + 1 ELSE 1, Len(applied))

\* Calls that record one edge at a time may leave several rows of it, and the weights of the
\* rows still add up to what was recorded (harness_record_telemetry_edge).
WeightsAddUp == \A g \in Edge : Sum(edges[g]) = recorded[g]

\* The three tables of the memory are each what the calls that ended made them, whatever calls
\* met (memory_insert_episode, memory_upsert_outcome, harness_record_telemetry_edge).
MemoryAgrees == EpisodesHaveOutcomes /\ HistoryIsLatest /\ WeightsAddUp
=============================================================================
