---------------------------- MODULE ArtifactStore ----------------------------
(***************************************************************************)
(* Analysis artifacts of the workspace store: charts, query snapshots and  *)
(* reports, each with a draft, a history of revisions and a head that says *)
(* whether the draft differs from the last revision                        *)
(* (src/lib/stores/WorkspaceStore.ts).                                     *)
(*                                                                         *)
(* Every write of a draft stamps it with the time, so a draft equals the   *)
(* last revision only where the code copies it.                            *)
(***************************************************************************)
EXTENDS Naturals, Sequences

CONSTANTS
    Source,         \* ids of charts and query snapshots
    Report,         \* ids of reports
    None,           \* no artifact
    HistoryLimit    \* revisions kept of an artifact: 25

ASSUME ArtifactAssumption ==
    /\ Source \cap Report = {}
    /\ None \notin Source \cup Report
    /\ HistoryLimit \in Nat \ {0}

VARIABLES
    artifacts,  \* the drafts
    revisions,  \* artifactRevisions: numbered, oldest first
    heads       \* artifactHeads: number of the last revision (0: null), draft changed

store == <<artifacts, revisions, heads>>

Id == Source \cup Report

\* A report is written from the answers of the chat or rebuilt from its sources.
Content == [body : {"snapshot", "written", "rebuilt"}, sources : SUBSET Source]

ASSUME ContentAssumption == None \notin Content

Revision == [number : Nat \ {0}, artifact : Content]
HeadState == [revision : Nat, changed : BOOLEAN]
NoHead == [revision |-> 0, changed |-> FALSE]

NoArtifacts ==
    [artifacts |-> [i \in Id |-> None],
     revisions |-> [i \in Id |-> << >>],
     heads |-> [i \in Id |-> NoHead]]

-----------------------------------------------------------------------------
Latest(history) == history[Len(history)]
LatestNumber(history) == IF history = << >> THEN 0 ELSE Latest(history).number

\* slice(-HistoryLimit) of a history with one more revision.
Recorded(history, number, content) ==
    LET longer == Append(history, [number |-> number, artifact |-> content])
    IN  IF Len(longer) > HistoryLimit THEN Tail(longer) ELSE longer

UpdateArtifactDraft(i, content) ==
    /\ artifacts' = [artifacts EXCEPT ![i] = content]
    /\ heads' = [heads EXCEPT ![i] = [revision |-> LatestNumber(revisions[i]),
                                      changed |-> revisions[i] # << >>]]
    /\ UNCHANGED revisions

CommitArtifactRevision(i, content) ==
    LET number == LatestNumber(revisions[i]) + 1
    IN  /\ artifacts' = [artifacts EXCEPT ![i] = content]
        /\ revisions' = [revisions EXCEPT ![i] = Recorded(@, number, content)]
        /\ heads' = [heads EXCEPT ![i] = [revision |-> number, changed |-> FALSE]]

SaveCurrentArtifactDraft(i) == CommitArtifactRevision(i, artifacts[i])

DiscardArtifactDraft(i) ==
    LET head == Latest(revisions[i])
    IN  /\ artifacts' = [artifacts EXCEPT ![i] = head.artifact]
        /\ heads' = [heads EXCEPT ![i] = [revision |-> head.number, changed |-> FALSE]]
        /\ UNCHANGED revisions

\* Mutant: a restored revision counts as unchanged.
RestoreQuietly(i, revision) ==
    /\ artifacts' = [artifacts EXCEPT ![i] = revision.artifact]
    /\ heads' = [heads EXCEPT ![i].changed = FALSE]
    /\ UNCHANGED revisions

RestoreArtifactRevision(i, revision) ==
    LET head == Latest(revisions[i])
    IN  /\ artifacts' = [artifacts EXCEPT ![i] = revision.artifact]
        /\ heads' = [heads EXCEPT ![i] = [revision |-> head.number,
                                          changed |-> head.number # revision.number]]
        /\ UNCHANGED revisions

\* duplicateArtifactFromRevision: new is the id of the copy.
DuplicateArtifact(revision, new) ==
    /\ artifacts' = [artifacts EXCEPT ![new] = revision.artifact]
    /\ revisions' = [revisions EXCEPT
                        ![new] = <<[number |-> 1, artifact |-> revision.artifact]>>]
    /\ heads' = [heads EXCEPT ![new] = [revision |-> 1, changed |-> FALSE]]

RemoveArtifact(i) ==
    /\ artifacts' = [artifacts EXCEPT ![i] = None]
    /\ revisions' = [revisions EXCEPT ![i] = << >>]
    /\ heads' = [heads EXCEPT ![i] = NoHead]
=============================================================================
