--------------------------- MODULE WorkspaceProofs ---------------------------
(***************************************************************************)
(* Drafts, histories and heads agree, in the window and in the session     *)
(* file, saved work is kept and the session opens again, for any           *)
(* artifacts, tabs, history length and number of restarts.                 *)
(***************************************************************************)
EXTENDS Workspace, TLAPS, FiniteSetTheorems

\* What is kept of artifacts, wherever it is kept.
Typed(drafts, histories, headOf) ==
    /\ drafts \in [Id -> Content \cup {None}]
    /\ histories \in [Id -> Seq(Revision)]
    /\ headOf \in [Id -> HeadState]

\* No other revision of a history has the number of the last, or one after it.
LastIsNewest(history) ==
    \A k \in 1 .. Len(history) :
        history[k].number < Latest(history).number \/ history[k] = Latest(history)

\* One artifact: made without a history only by the graph builder.
ArtifactAgrees(draft, history, head, made) ==
    /\ LastIsNewest(history)
    /\ draft # None /\ ~made => history # << >>
    /\ history = << >> => ~head.changed
    /\ history # << >> =>
          /\ head.revision = Latest(history).number
          /\ ~head.changed => draft = Latest(history).artifact

Agree(drafts, histories, headOf) ==
    \A i \in Id : ArtifactAgrees(drafts[i], histories[i], headOf[i], i \in revived)

WindowAgrees ==
    /\ Typed(artifacts, revisions, heads)
    /\ Agree(artifacts, revisions, heads)
    /\ request \in Id \cup {None}

FileAgrees ==
    file \notin {None, Torn} =>
        /\ Typed(file.artifacts, file.revisions, file.heads)
        /\ Agree(file.artifacts, file.revisions, file.heads)
        /\ file.request \in Id \cup {None}

IInv == WindowAgrees /\ FileAgrees

-----------------------------------------------------------------------------
\* Histories.

\* The last of the revisions is one of them.
LEMMA LatestType ==
    ASSUME NEW history \in Seq(Revision), history # << >>
    PROVE  /\ Latest(history) \in Revision
           /\ LatestNumber(history) = Latest(history).number
  BY DEF Latest, LatestNumber

\* The number of an empty history is 0.
LEMMA NumberType ==
    ASSUME NEW history \in Seq(Revision)
    PROVE  LatestNumber(history) \in Nat
  <1>1. CASE history = << >>
    BY <1>1 DEF LatestNumber
  <1>2. CASE history # << >>
    BY <1>2, LatestType DEF Revision
  <1>3. QED
    BY <1>1, <1>2

\* A revision that is recorded is the last, and its number is that of no other.
LEMMA RecordedIsLast ==
    ASSUME NEW history \in Seq(Revision), LastIsNewest(history), NEW content \in Content
    PROVE  LET number == LatestNumber(history) + 1
               longer == Recorded(history, number, content)
           IN  /\ longer \in Seq(Revision) /\ longer # << >>
               /\ Latest(longer) = [number |-> number, artifact |-> content]
               /\ LastIsNewest(longer)
  <1> DEFINE number == LatestNumber(history) + 1
             last == [number |-> number, artifact |-> content]
             longer == Append(history, last)
  <1>1. number \in Nat \ {0}
    BY NumberType
  <1>2. last \in Revision
    BY <1>1 DEF Revision
  <1>3. \A k \in 1 .. Len(history) : history[k].number < number
    <2>1. SUFFICES ASSUME NEW k \in 1 .. Len(history) PROVE history[k].number < number
      OBVIOUS
    <2>2. history # << >> /\ history[k] \in Revision
      OBVIOUS
    <2>3. history[k].number \in Nat /\ Latest(history).number \in Nat
      BY <2>2, LatestType DEF Revision
    <2>4. QED
      BY <2>2, <2>3, LatestType DEF LastIsNewest
  <1> HIDE DEF number, last
  <1>4. /\ longer \in Seq(Revision) /\ Len(longer) = Len(history) + 1
        /\ longer[Len(longer)] = last
        /\ \A k \in 1 .. Len(history) : longer[k] = history[k]
    BY <1>2
  <1>5. last.number = number
    BY DEF last
  <1>6. \A k \in 1 .. Len(longer) : longer[k].number < number \/ longer[k] = last
    BY <1>3, <1>4
  <1>7. Latest(longer) = last /\ LastIsNewest(longer) /\ longer # << >>
    BY <1>4, <1>5, <1>6 DEF Latest, LastIsNewest
  <1>8. CASE Len(longer) > HistoryLimit
    <2> DEFINE kept == Tail(longer)
    <2>1. Len(longer) > 1
      BY <1>8, ArtifactAssumption, <1>4
    <2>2. /\ kept \in Seq(Revision) /\ Len(kept) = Len(longer) - 1 /\ kept # << >>
          /\ \A k \in 1 .. Len(kept) : kept[k] = longer[k + 1]
      BY <1>4, <2>1
    <2>3. Latest(kept) = last
      BY <1>4, <2>1, <2>2 DEF Latest
    <2>4. LastIsNewest(kept)
      BY <1>4, <1>5, <1>6, <2>2, <2>3 DEF LastIsNewest
    <2>5. QED
      BY <1>8, <2>2, <2>3, <2>4 DEF Recorded, last, number
  <1>9. CASE ~(Len(longer) > HistoryLimit)
    BY <1>4, <1>7, <1>9 DEF Recorded, last, number
  <1>10. QED
    BY <1>8, <1>9

-----------------------------------------------------------------------------
\* One artifact changes.
LEMMA OneArtifact ==
    ASSUME WindowAgrees, NEW i \in Id,
           NEW draft \in Content \cup {None}, NEW history \in Seq(Revision), NEW head \in HeadState,
           artifacts' = [artifacts EXCEPT ![i] = draft],
           revisions' = [revisions EXCEPT ![i] = history],
           heads' = [heads EXCEPT ![i] = head],
           revived \subseteq revived',
           ArtifactAgrees(draft, history, head, i \in revived'),
           request' \in Id \cup {None}
    PROVE  WindowAgrees'
  <1>1. Typed(artifacts, revisions, heads)'
    BY DEF WindowAgrees, Typed
  <1>2. /\ artifacts'[i] = draft /\ revisions'[i] = history /\ heads'[i] = head
        /\ \A j \in Id \ {i} : /\ artifacts'[j] = artifacts[j]
                               /\ revisions'[j] = revisions[j] /\ heads'[j] = heads[j]
    BY DEF WindowAgrees, Typed
  <1>3. Agree(artifacts, revisions, heads)'
    BY <1>2 DEF WindowAgrees, Agree, ArtifactAgrees
  <1>4. QED
    BY <1>1, <1>3 DEF WindowAgrees

\* No artifact changes.
LEMMA NoArtifact ==
    ASSUME WindowAgrees, UNCHANGED <<store, revived>>, request' \in Id \cup {None}
    PROVE  WindowAgrees'
  BY DEF WindowAgrees, Typed, Agree, ArtifactAgrees, store

\* The file is not written: it stays right when the graph builder makes an artifact.
LEMMA SameFile ==
    ASSUME FileAgrees, file' = file, revived \subseteq revived'
    PROVE  FileAgrees'
  BY DEF FileAgrees, Agree, ArtifactAgrees

\* A revision that is made is named by the head and equals the draft.
LEMMA CommitAgrees ==
    ASSUME WindowAgrees, NEW i \in Id, NEW content \in Content,
           CommitArtifactRevision(i, content), UNCHANGED revived, request' \in Id \cup {None}
    PROVE  WindowAgrees'
  <1> DEFINE number == LatestNumber(revisions[i]) + 1
             history == Recorded(revisions[i], number, content)
             head == [revision |-> number, changed |-> FALSE]
  <1>1. revisions[i] \in Seq(Revision) /\ LastIsNewest(revisions[i])
    BY DEF WindowAgrees, Typed, Agree, ArtifactAgrees
  <1>2. /\ history \in Seq(Revision) /\ history # << >> /\ LastIsNewest(history)
        /\ Latest(history) = [number |-> number, artifact |-> content]
    BY <1>1, RecordedIsLast
  <1>3. number \in Nat
    BY <1>1, NumberType
  <1>4. /\ artifacts' = [artifacts EXCEPT ![i] = content]
        /\ revisions' = [revisions EXCEPT ![i] = history]
        /\ heads' = [heads EXCEPT ![i] = head]
    BY DEF CommitArtifactRevision
  <1>5. head \in HeadState
    BY <1>3 DEF HeadState
  <1> HIDE DEF history, number
  <1>6. ArtifactAgrees(content, history, head, i \in revived')
    BY <1>2 DEF ArtifactAgrees
  <1>7. QED
    BY <1>2, <1>4, <1>5, <1>6, OneArtifact

\* A draft is written without a revision.
LEMMA DraftAgrees ==
    ASSUME WindowAgrees, NEW i \in Id, NEW content \in Content,
           UpdateArtifactDraft(i, content), revived \subseteq revived',
           artifacts[i] # None \/ i \in revived', request' \in Id \cup {None}
    PROVE  WindowAgrees'
  <1> DEFINE history == revisions[i]
             head == [revision |-> LatestNumber(history), changed |-> history # << >>]
  <1>1. /\ history \in Seq(Revision) /\ LastIsNewest(history)
        /\ artifacts[i] # None /\ i \notin revived => history # << >>
    BY DEF WindowAgrees, Typed, Agree, ArtifactAgrees
  <1>2. head \in HeadState /\ (history # << >> => head.revision = Latest(history).number)
    BY <1>1, LatestType, NumberType DEF HeadState
  <1>3. /\ artifacts' = [artifacts EXCEPT ![i] = content]
        /\ revisions' = [revisions EXCEPT ![i] = history]
        /\ heads' = [heads EXCEPT ![i] = head]
    BY DEF UpdateArtifactDraft, WindowAgrees, Typed
  <1>4. ArtifactAgrees(content, history, head, i \in revived')
    BY <1>1, <1>2 DEF ArtifactAgrees
  <1>5. QED
    BY <1>1, <1>2, <1>3, <1>4, OneArtifact

\* The draft becomes the last revision.
LEMMA DiscardAgrees ==
    ASSUME WindowAgrees, NEW i \in Id, revisions[i] # << >>,
           DiscardArtifactDraft(i), UNCHANGED <<revived, request>>
    PROVE  WindowAgrees'
  <1> DEFINE history == revisions[i]
             last == Latest(history)
             head == [revision |-> last.number, changed |-> FALSE]
  <1>1. history \in Seq(Revision) /\ LastIsNewest(history) /\ last \in Revision
    BY LatestType DEF WindowAgrees, Typed, Agree, ArtifactAgrees
  <1>2. last.artifact \in Content /\ head \in HeadState
    BY <1>1 DEF Revision, HeadState
  <1>3. /\ artifacts' = [artifacts EXCEPT ![i] = last.artifact]
        /\ revisions' = [revisions EXCEPT ![i] = history]
        /\ heads' = [heads EXCEPT ![i] = head]
    BY DEF DiscardArtifactDraft, WindowAgrees, Typed
  <1>4. ArtifactAgrees(last.artifact, history, head, i \in revived')
    BY <1>1 DEF ArtifactAgrees
  <1>5. request' \in Id \cup {None} /\ revived \subseteq revived'
    BY DEF WindowAgrees
  <1>6. QED
    BY <1>1, <1>2, <1>3, <1>4, <1>5, OneArtifact

\* The draft becomes a revision, and counts as unchanged only if that is the last.
LEMMA RestoreAgrees ==
    ASSUME WindowAgrees, NEW i \in Id, NEW k \in 1 .. Len(revisions[i]),
           RestoreArtifactRevision(i, revisions[i][k]), UNCHANGED <<revived, request>>
    PROVE  WindowAgrees'
  <1> DEFINE history == revisions[i]
             revision == history[k]
             last == Latest(history)
             head == [revision |-> last.number, changed |-> last.number # revision.number]
  <1>1. /\ history \in Seq(Revision) /\ LastIsNewest(history) /\ history # << >>
        /\ revision \in Revision
    BY DEF WindowAgrees, Typed, Agree, ArtifactAgrees
  <1>2. last \in Revision
    BY <1>1, LatestType
  <1>3. revision.artifact \in Content /\ head \in HeadState
        /\ last.number \in Nat /\ revision.number \in Nat
    BY <1>1, <1>2 DEF Revision, HeadState
  <1>4. /\ artifacts' = [artifacts EXCEPT ![i] = revision.artifact]
        /\ revisions' = [revisions EXCEPT ![i] = history]
        /\ heads' = [heads EXCEPT ![i] = head]
    BY DEF RestoreArtifactRevision, WindowAgrees, Typed
  <1>5. last.number = revision.number => revision = last
    BY <1>1, <1>3 DEF LastIsNewest
  <1>6. ArtifactAgrees(revision.artifact, history, head, i \in revived')
    BY <1>1, <1>5 DEF ArtifactAgrees
  <1>7. request' \in Id \cup {None} /\ revived \subseteq revived'
    BY DEF WindowAgrees
  <1>8. QED
    BY <1>1, <1>3, <1>4, <1>6, <1>7, OneArtifact

\* A copy has one revision.
LEMMA DuplicateAgrees ==
    ASSUME WindowAgrees, NEW new \in Id, NEW revision \in Revision,
           DuplicateArtifact(revision, new), UNCHANGED <<revived, request>>
    PROVE  WindowAgrees'
  <1> DEFINE only == [number |-> 1, artifact |-> revision.artifact]
             history == <<only>>
             head == [revision |-> 1, changed |-> FALSE]
  <1>1. revision.artifact \in Content /\ only \in Revision /\ head \in HeadState
    BY DEF Revision, HeadState
  <1>2. /\ history \in Seq(Revision) /\ history # << >> /\ Latest(history) = only
        /\ LastIsNewest(history)
    BY <1>1 DEF Latest, LastIsNewest
  <1>3. ArtifactAgrees(revision.artifact, history, head, new \in revived')
    BY <1>2 DEF ArtifactAgrees
  <1>4. request' \in Id \cup {None} /\ revived \subseteq revived'
    BY DEF WindowAgrees
  <1>5. QED
    BY <1>1, <1>2, <1>3, <1>4, OneArtifact DEF DuplicateArtifact

\* An artifact that is removed takes its history and head along.
LEMMA RemoveAgrees ==
    ASSUME WindowAgrees, NEW i \in Id, RemoveArtifact(i), UNCHANGED <<revived, request>>
    PROVE  WindowAgrees'
  <1>1. << >> \in Seq(Revision) /\ NoHead \in HeadState
    BY DEF NoHead, HeadState
  <1>2. ArtifactAgrees(None, << >>, NoHead, i \in revived')
    BY DEF ArtifactAgrees, LastIsNewest, NoHead
  <1>3. request' \in Id \cup {None} /\ revived \subseteq revived'
    BY DEF WindowAgrees
  <1>4. QED
    BY <1>1, <1>2, <1>3, OneArtifact DEF RemoveArtifact

\* Nothing is made yet, or the window is new.
LEMMA NothingAgrees ==
    ASSUME NEW made
    PROVE  /\ Typed(NoArtifacts.artifacts, NoArtifacts.revisions, NoArtifacts.heads)
           /\ \A i \in Id : ArtifactAgrees(NoArtifacts.artifacts[i], NoArtifacts.revisions[i],
                                           NoArtifacts.heads[i], i \in made)
  BY DEF NoArtifacts, NoHead, Typed, HeadState, ArtifactAgrees, LastIsNewest

-----------------------------------------------------------------------------
\* The steps.

\* At the start there is no artifact and no session.
LEMMA InitIInv == Init => IInv
  <1> SUFFICES ASSUME Init PROVE IInv
    OBVIOUS
  <1>1. WindowAgrees
    BY NothingAgrees DEF Init, WindowAgrees, Agree
  <1>2. FileAgrees
    BY DEF Init, FileAgrees
  <1>3. QED
    BY <1>1, <1>2 DEF IInv

\* Tabs touch no artifact.
LEMMA TabStepIInv == IInv /\ TabStep => IInv'
  <1> SUFFICES ASSUME IInv, TabStep PROVE IInv'
    OBVIOUS
  <1>1. UNCHANGED <<store, request, file, revived>>
    BY DEF TabStep, NewTab, QueryFills, SetActiveTab, Closes, KeepsStore, ghosts
  <1>2. QED
    BY <1>1, NoArtifact, SameFile DEF IInv, WindowAgrees

\* An artifact is made, by the operator, the agent or the conversation.
LEMMA MakeIInv ==
    ASSUME IInv, NEW i \in Id,
           \/ SnapshotQuery(i) \/ CreateChart(i) \/ CreateAnalysisChart(i)
           \/ MakeReport(i)
    PROVE  IInv'
  <1>1. PICK content \in Content : CommitArtifactRevision(i, content)
    <2>1. CASE SnapshotQuery(i) \/ CreateChart(i) \/ CreateAnalysisChart(i)
      <3>1. [body |-> "snapshot", sources |-> {}] \in Content
        BY DEF Content
      <3>2. QED
        BY <2>1, <3>1 DEF SnapshotQuery, CreateChart, CreateAnalysisChart, MakeSource
    <2>2. CASE MakeReport(i)
      <3>1. [body |-> "written", sources |-> {t \in Source : artifacts[t] # None}] \in Content
        BY DEF Content
      <3>2. QED
        BY <2>2, <3>1 DEF MakeReport
    <2>3. QED
      BY <2>1, <2>2
  <1>2. UNCHANGED <<file, revived>> /\ request' \in Id \cup {None}
    BY DEF SnapshotQuery, CreateChart, CreateAnalysisChart, MakeSource, MakeReport, front,
       IInv, WindowAgrees
  <1>3. QED
    BY <1>1, <1>2, CommitAgrees, SameFile DEF IInv

\* An artifact the graph builder makes of a request is revived.
LEMMA GraphBuilderIInv ==
    ASSUME IInv, GraphBuilderTakes
    PROVE  IInv'
  <1>1. request \in Id /\ request' = None /\ UNCHANGED file
    BY DEF GraphBuilderTakes, IInv, WindowAgrees
  <1>2. CASE KeepsStore /\ UNCHANGED revived
    BY <1>1, <1>2, NoArtifact, SameFile DEF IInv, KeepsStore
  <1>3. CASE /\ UpdateArtifactDraft(request, [body |-> "snapshot", sources |-> {}])
             /\ revived' = revived \cup {request}
    <2>1. [body |-> "snapshot", sources |-> {}] \in Content
      BY DEF Content
    <2>2. WindowAgrees'
      BY <1>1, <1>3, <2>1, DraftAgrees DEF IInv
    <2>3. QED
      BY <1>1, <1>3, <2>2, SameFile DEF IInv
  <1>4. QED
    BY <1>2, <1>3 DEF GraphBuilderTakes

\* What the viewer of an artifact does.
LEMMA ViewerIInv ==
    ASSUME IInv, NEW i \in Id,
           SaveDraft(i) \/ DiscardDraft(i) \/ RestoreRevision(i) \/ ConfirmRefresh(i)
    PROVE  IInv'
  <1>1. UNCHANGED <<request, file, revived>> /\ Viewing(i)
    BY DEF SaveDraft, DiscardDraft, RestoreRevision, ConfirmRefresh, front, ghosts
  <1>2. artifacts[i] \in Content /\ artifacts[i] # None /\ request' \in Id \cup {None}
    BY <1>1 DEF Viewing, IInv, WindowAgrees, Typed
  <1>3. CASE SaveDraft(i)
    <2>1. CommitArtifactRevision(i, artifacts[i])
      BY <1>3 DEF SaveDraft, SaveCurrentArtifactDraft
    <2>2. QED
      BY <1>1, <1>2, <2>1, CommitAgrees, SameFile DEF IInv
  <1>4. CASE DiscardDraft(i)
    <2>1. DiscardArtifactDraft(i) /\ heads[i].changed
      BY <1>4 DEF DiscardDraft, Changed
    <2>2. revisions[i] # << >>
      BY <2>1 DEF IInv, WindowAgrees, Agree, ArtifactAgrees
    <2>3. QED
      BY <1>1, <2>1, <2>2, DiscardAgrees, SameFile DEF IInv
  <1>5. CASE RestoreRevision(i)
    <2>1. PICK k \in 1 .. Len(revisions[i]) : RestoreArtifactRevision(i, revisions[i][k])
      BY <1>5 DEF RestoreRevision, Listed
    <2>2. QED
      BY <1>1, <2>1, RestoreAgrees, SameFile DEF IInv
  <1>6. CASE ConfirmRefresh(i)
    <2> DEFINE content == [body |-> "rebuilt", sources |-> Present(artifacts[i].sources)]
    <2>1. content \in Content
      BY <1>2 DEF Content, Present
    <2>2. UpdateArtifactDraft(i, content)
      BY <1>6 DEF ConfirmRefresh
    <2>3. QED
      BY <1>1, <1>2, <2>1, <2>2, DraftAgrees, SameFile DEF IInv
  <1>7. QED
    BY <1>3, <1>4, <1>5, <1>6

\* A copy starts a history of its own.
LEMMA DuplicateIInv ==
    ASSUME IInv, NEW i \in Id, NEW new \in Id, DuplicateRevision(i, new)
    PROVE  IInv'
  <1>1. PICK k \in 1 .. Len(revisions[i]) : DuplicateArtifact(revisions[i][k], new)
    BY DEF DuplicateRevision, Listed
  <1>2. revisions[i][k] \in Revision
    BY DEF IInv, WindowAgrees, Typed
  <1>3. UNCHANGED <<request, file, revived>>
    BY DEF DuplicateRevision
  <1>4. QED
    BY <1>1, <1>2, <1>3, DuplicateAgrees, SameFile DEF IInv

\* The steps of the viewers keep the invariant.
LEMMA ArtifactStepIInv == IInv /\ ArtifactStep => IInv'
  <1> SUFFICES ASSUME IInv, ArtifactStep PROVE IInv'
    OBVIOUS
  <1>1. CASE GraphBuilderTakes
    BY <1>1, GraphBuilderIInv
  <1>2. CASE CancelReview
    <2>1. UNCHANGED <<store, request, file, revived>>
      BY <1>2 DEF CancelReview, KeepsStore, session, ghosts
    <2>2. QED
      BY <2>1, NoArtifact, SameFile DEF IInv, WindowAgrees
  <1>3. ASSUME NEW i \in Id, OpenArtifact(i) \/ StartReview(i) PROVE IInv'
    <2>1. UNCHANGED <<store, request, file, revived>>
      BY <1>3 DEF OpenArtifact, StartReview, KeepsStore, session, ghosts
    <2>2. QED
      BY <2>1, NoArtifact, SameFile DEF IInv, WindowAgrees
  <1>4. ASSUME NEW i \in Id, Remove(i) PROVE IInv'
    <2>1. RemoveArtifact(i) /\ UNCHANGED <<request, file, revived>>
      BY <1>4 DEF Remove, front
    <2>2. QED
      BY <2>1, RemoveAgrees, SameFile DEF IInv
  <1>5. QED
    BY <1>1, <1>2, <1>3, <1>4, MakeIInv, ViewerIInv, DuplicateIInv DEF ArtifactStep

\* What is saved agreed in the window, what is loaded agreed in the file.
LEMMA SessionStepIInv == IInv /\ SessionStep => IInv'
  <1> SUFFICES ASSUME IInv, SessionStep PROVE IInv'
    OBVIOUS
  <1>1. CASE AutoSave
    <2>1. UNCHANGED <<store, request, revived>> /\ file' = Snapshot
      BY <1>1 DEF AutoSave, Saves, KeepsStore, front
    <2>2. WindowAgrees'
      BY <2>1, NoArtifact DEF IInv, WindowAgrees
    <2>3. /\ file'.artifacts = artifacts /\ file'.revisions = revisions
          /\ file'.heads = heads /\ file'.request = request
      BY <2>1 DEF Snapshot
    <2>4. FileAgrees'
      BY <2>1, <2>3 DEF IInv, WindowAgrees, FileAgrees, Typed, Agree, ArtifactAgrees
    <2>5. QED
      BY <2>2, <2>4 DEF IInv
  <1>2. CASE LoadSucceeds
    <2>1. /\ file \notin {None, Torn} /\ UNCHANGED <<file, revived>>
          /\ artifacts' = file.artifacts /\ revisions' = file.revisions
          /\ heads' = file.heads /\ request' = file.request
      BY <1>2 DEF LoadSucceeds, Hydrate, ghosts
    <2>2. WindowAgrees'
      BY <2>1 DEF IInv, FileAgrees, WindowAgrees, Typed, Agree, ArtifactAgrees
    <2>3. QED
      BY <2>1, <2>2, SameFile DEF IInv
  <1>3. CASE LoadFails
    <2>1. UNCHANGED <<store, request, file, revived>>
      BY <1>3 DEF LoadFails, KeepsStore, front
    <2>2. QED
      BY <2>1, NoArtifact, SameFile DEF IInv, WindowAgrees
  <1>4. CASE Restart
    <2>1. /\ file' \in {file, Torn} /\ UNCHANGED revived /\ request' = None
          /\ artifacts' = NoArtifacts.artifacts /\ revisions' = NoArtifacts.revisions
          /\ heads' = NoArtifacts.heads
      BY <1>4 DEF Restart
    <2>2. WindowAgrees'
      BY <2>1, NothingAgrees DEF WindowAgrees, Agree
    <2>3. FileAgrees'
      BY <2>1, SameFile DEF IInv, FileAgrees
    <2>4. QED
      BY <2>2, <2>3 DEF IInv
  <1>5. QED
    BY <1>1, <1>2, <1>3, <1>4 DEF SessionStep

\* Every step keeps the invariant.
LEMMA NextIInv == IInv /\ [Next]_vars => IInv'
  <1> SUFFICES ASSUME IInv, [Next]_vars PROVE IInv'
    OBVIOUS
  <1>1. CASE UNCHANGED vars
    <2>1. UNCHANGED <<store, request, file, revived>>
      BY <1>1 DEF vars, front, session, ghosts
    <2>2. QED
      BY <2>1, NoArtifact, SameFile DEF IInv, WindowAgrees
  <1>2. QED
    BY <1>1, TabStepIInv, ArtifactStepIInv, SessionStepIInv DEF Next

\* Where a head says that nothing changed, the draft is the last revision, and every
\* artifact has one unless the graph builder made it, through refreshes, saves,
\* discards, restores, copies, removals, crashes and reloads (WorkspaceStore.ts 900-1059).
THEOREM DraftsMatch == Spec => []DraftMatchesHead
  <1>1. IInv => DraftMatchesHead
    BY DEF IInv, WindowAgrees, Agree, ArtifactAgrees, DraftMatchesHead
  <1>2. QED
    BY InitIInv, NextIInv, <1>1, PTL DEF Spec

-----------------------------------------------------------------------------
\* The refresh of a report that is reviewed.

ReadFile == file \notin {None, Torn}

\* Ids are given out once, so that what was made before the session is read is not in it.
IdsAreUsed ==
    /\ \A i \in Id : artifacts[i] # None => i \in used
    /\ ReadFile => \A i \in Id : file.artifacts[i] # None => i \in used
    /\ window = "loading" /\ ReadFile =>
          \A i \in Report : artifacts[i] # None \/ review = i => file.artifacts[i] = None

\* The graph builder is asked for charts that were made.
RequestsAreCharts ==
    /\ request \in (Source \cap used) \cup {None}
    /\ ReadFile => file.request \in (Source \cap used) \cup {None}

\* While it is reviewed a report stays as it was, with its sources, until a session
\* that does not have it replaces the workspace.
ReviewHolds ==
    /\ review \in Report \cup {None}
    /\ review # None /\ artifacts[review] # None =>
          /\ ~heads[review].changed
          /\ \A t \in artifacts[review].sources : artifacts[t] # None

RInv == IdsAreUsed /\ RequestsAreCharts /\ ReviewHolds

\* No artifact changes and no review begins.
LEMMA QuietRInv ==
    ASSUME RInv, UNCHANGED store, file' = file, used' = used,
           request' \in {request, None}, review' \in {review, None},
           window' = "loading" => window = "loading"
    PROVE  RInv'
  BY ArtifactAssumption DEF RInv, IdsAreUsed, RequestsAreCharts, ReviewHolds, ReadFile, store

\* An artifact gets an id of its own; a report only when none is reviewed.
LEMMA MadeRInv ==
    ASSUME IInv, RInv, NEW i \in Id, i \notin used, used' = used \cup {i},
           NEW content \in Content, artifacts' = [artifacts EXCEPT ![i] = content],
           NEW head, heads' = [heads EXCEPT ![i] = head],
           file' = file, window' = "loading" => window = "loading",
           review' \in {review, None}, i \in Report => review = None,
           request' \in (Source \cap used') \cup {None}
    PROVE  RInv'
  <1>1. /\ artifacts'[i] = content /\ artifacts[i] = None
        /\ \A j \in Id \ {i} : artifacts'[j] = artifacts[j] /\ heads'[j] = heads[j]
    BY ArtifactAssumption DEF IInv, WindowAgrees, Typed, RInv, IdsAreUsed, Content
  <1>2. IdsAreUsed'
    BY <1>1, ArtifactAssumption DEF RInv, IdsAreUsed, ReviewHolds, ReadFile, Id
  <1>3. RequestsAreCharts'
    BY DEF RInv, RequestsAreCharts, ReadFile
  <1>4. ReviewHolds'
    <2>1. CASE review' = None
      BY <2>1 DEF ReviewHolds
    <2>2. CASE review' = review /\ review # None
      <3>1. review \in Report /\ review # i
        BY <2>2 DEF RInv, ReviewHolds
      <3>2. artifacts'[review] = artifacts[review] /\ heads'[review] = heads[review]
        BY <1>1, <3>1 DEF Id
      <3>3. artifacts[review] # None => artifacts[review].sources \subseteq Id
        BY <3>1 DEF IInv, WindowAgrees, Typed, Content, Id
      <3>4. QED
        BY <1>1, <2>2, <3>1, <3>2, <3>3 DEF RInv, ReviewHolds
    <2>3. QED
      BY <2>1, <2>2
  <1>5. QED
    BY <1>2, <1>3, <1>4 DEF RInv

\* An artifact is rewritten or removed, with no review open afterwards.
LEMMA WrittenRInv ==
    ASSUME IInv, RInv, NEW i \in Id, artifacts[i] # None,
           NEW draft, artifacts' = [artifacts EXCEPT ![i] = draft],
           file' = file, used' = used, window' = "loading" => window = "loading",
           review' = None, request' = request
    PROVE  RInv'
  <1>1. \A j \in Id : artifacts'[j] # None => artifacts[j] # None
    BY DEF IInv, WindowAgrees, Typed
  <1>2. IdsAreUsed'
    BY <1>1, ArtifactAssumption DEF RInv, IdsAreUsed, ReadFile, Id
  <1>3. QED
    BY <1>2 DEF RInv, RequestsAreCharts, ReviewHolds, ReadFile

\* The steps of the tabs.
LEMMA TabStepRInv == ASSUME RInv, TabStep PROVE RInv'
  <1>1. UNCHANGED <<store, file, request, used>> /\ review' \in {review, None} /\ Rendered
    BY DEF TabStep, NewTab, QueryFills, SetActiveTab, Closes, KeepsStore, ReviewStays, ghosts
  <1>2. QED
    BY <1>1, QuietRInv DEF Rendered

\* The steps that make an artifact.
LEMMA MakeRInv ==
    ASSUME IInv, RInv, NEW i \in Id,
           \/ SnapshotQuery(i) \/ CreateChart(i) \/ CreateAnalysisChart(i)
           \/ MakeReport(i) \/ \E new \in Id : DuplicateRevision(new, i)
    PROVE  RInv'
  <1>1. CASE SnapshotQuery(i) \/ CreateChart(i) \/ CreateAnalysisChart(i)
    <2>1. /\ MakeSource(i) /\ request' \in {request, i}
      BY <1>1 DEF SnapshotQuery, CreateChart, CreateAnalysisChart
    <2>2. i \in Source /\ i \notin Report
      BY <2>1, ArtifactAssumption DEF MakeSource
    <2>3. [body |-> "snapshot", sources |-> {}] \in Content
      BY DEF Content
    <2>4. request' \in (Source \cap used') \cup {None}
      BY <2>1, <2>2 DEF RInv, RequestsAreCharts, MakeSource, Uses
    <2> DEFINE content == [body |-> "snapshot", sources |-> {}]
               head == [revision |-> LatestNumber(revisions[i]) + 1, changed |-> FALSE]
    <2>5. /\ artifacts' = [artifacts EXCEPT ![i] = content]
          /\ heads' = [heads EXCEPT ![i] = head]
      BY <2>1 DEF MakeSource, CommitArtifactRevision
    <2>6. /\ i \notin used /\ used' = used \cup {i} /\ UNCHANGED <<file, review>>
          /\ window' = "loading" => window = "loading"
      BY <2>1 DEF MakeSource, Uses, Rendered
    <2> HIDE DEF content, head
    <2>7. content \in Content
      BY <2>3 DEF content
    <2>8. QED
      BY <2>2, <2>4, <2>5, <2>6, <2>7, MadeRInv
  <1>2. CASE MakeReport(i)
    <2>1. [body |-> "written", sources |-> {t \in Source : artifacts[t] # None}] \in Content
      BY DEF Content
    <2>2. review' = review /\ request' \in (Source \cap used') \cup {None}
      BY <1>2 DEF MakeReport, front, RInv, RequestsAreCharts, Uses
    <2>3. QED
      BY <1>2, <2>1, <2>2, MadeRInv DEF MakeReport, Uses, Rendered, CommitArtifactRevision, Free
  <1>3. ASSUME NEW j \in Id, DuplicateRevision(j, i) PROVE RInv'
    <2>1. PICK k \in 1 .. Len(revisions[j]) : DuplicateArtifact(revisions[j][k], i)
      BY <1>3 DEF DuplicateRevision, Listed
    <2>2. revisions[j][k].artifact \in Content
      <3>1. revisions[j] \in Seq(Revision)
        BY DEF IInv, WindowAgrees, Typed
      <3>2. revisions[j][k] \in Revision
        BY <3>1
      <3>3. QED
        BY <3>2 DEF Revision
    <2>3. review' \in {review, None} /\ request' \in (Source \cap used') \cup {None}
      BY <1>3 DEF DuplicateRevision, ReviewStays, RInv, RequestsAreCharts, Uses
    <2>4. QED
      BY <1>3, <2>1, <2>2, <2>3, MadeRInv
      DEF DuplicateRevision, Uses, Rendered, DuplicateArtifact, Free
  <1>4. QED
    BY <1>1, <1>2, <1>3

\* The graph builder makes a chart of a request, and never a report.
LEMMA GraphBuilderRInv == ASSUME IInv, RInv, GraphBuilderTakes PROVE RInv'
  <1>1. /\ request \in Source \cap used /\ request \in Id /\ request \notin Report
        /\ request' = None /\ UNCHANGED <<file, used, review>>
        /\ window' = "loading" => window = "loading"
    BY ArtifactAssumption DEF GraphBuilderTakes, RInv, RequestsAreCharts, Id, Rendered
  <1>2. CASE KeepsStore
    BY <1>1, <1>2, QuietRInv DEF KeepsStore
  <1>3. CASE /\ artifacts[request] = None
             /\ UpdateArtifactDraft(request, [body |-> "snapshot", sources |-> {}])
    <2> DEFINE made == [body |-> "snapshot", sources |-> {}]
    <2>1. /\ artifacts'[request] = made /\ heads' = [heads EXCEPT ![request] = heads'[request]]
          /\ \A j \in Id \ {request} : artifacts'[j] = artifacts[j] /\ heads'[j] = heads[j]
      BY <1>1, <1>3 DEF UpdateArtifactDraft, IInv, WindowAgrees, Typed
    <2>2. IdsAreUsed' /\ RequestsAreCharts'
      BY <1>1, <2>1, ArtifactAssumption DEF RInv, IdsAreUsed, RequestsAreCharts, ReadFile, Id
    <2>3. ReviewHolds'
      <3>1. CASE review = None
        BY <1>1, <3>1 DEF ReviewHolds
      <3>2. CASE review # None
        <4>1. review \in Report /\ review # request
          BY <1>1, <3>2 DEF RInv, ReviewHolds
        <4>2. artifacts[review] # None => artifacts[review].sources \subseteq Id
          BY <4>1 DEF IInv, WindowAgrees, Typed, Content, Id
        <4>3. QED
          <5>1. /\ review' = review /\ artifacts'[review] = artifacts[review]
                /\ heads'[review] = heads[review]
            BY <1>1, <2>1, <4>1 DEF Id
          <5>2. \A t \in Id : artifacts[t] # None => artifacts'[t] # None
            BY <1>3, <2>1
          <5>3. QED
            BY <4>1, <4>2, <5>1, <5>2 DEF RInv, ReviewHolds
      <3>3. QED
        BY <3>1, <3>2
    <2>4. QED
      BY <2>2, <2>3 DEF RInv
  <1>4. QED
    BY <1>2, <1>3 DEF GraphBuilderTakes

\* What a viewer or the list of artifacts does to one that is there.
LEMMA WriteRInv ==
    ASSUME IInv, RInv, NEW i \in Id,
           \/ SaveDraft(i) \/ DiscardDraft(i) \/ RestoreRevision(i) \/ ConfirmRefresh(i)
           \/ Remove(i)
    PROVE  RInv'
  <1>1. /\ artifacts[i] # None /\ UNCHANGED <<file, used, request>> /\ review' = None
        /\ window' = "loading" => window = "loading"
    BY DEF SaveDraft, DiscardDraft, RestoreRevision, ConfirmRefresh, Remove, Viewing, Free,
       Rendered, front, ghosts
  <1>2. PICK draft : artifacts' = [artifacts EXCEPT ![i] = draft]
    BY DEF SaveDraft, SaveCurrentArtifactDraft, CommitArtifactRevision, DiscardDraft,
       DiscardArtifactDraft, RestoreRevision, RestoreArtifactRevision, ConfirmRefresh,
       UpdateArtifactDraft, Remove, RemoveArtifact
  <1>3. QED
    BY <1>1, <1>2, WrittenRInv

\* A review begins with a draft that is saved and sources that are there.
LEMMA ReviewRInv ==
    ASSUME RInv, NEW i \in Id, StartReview(i)
    PROVE  RInv'
  <1>1. /\ UNCHANGED <<store, request, window, file, used>> /\ review' = i /\ i \in Report
        /\ ~heads[i].changed /\ artifacts[i] # None
        /\ \A t \in artifacts[i].sources : artifacts[t] # None
    BY DEF StartReview, KeepsStore, session, ghosts, Viewing, Present
  <1>2. QED
    BY <1>1 DEF RInv, IdsAreUsed, RequestsAreCharts, ReviewHolds, ReadFile, store

\* The steps of the artifacts.
LEMMA ArtifactStepRInv == ASSUME IInv, RInv, ArtifactStep PROVE RInv'
  <1>1. CASE GraphBuilderTakes
    BY <1>1, GraphBuilderRInv
  <1>2. CASE CancelReview
    BY <1>2, QuietRInv DEF CancelReview, KeepsStore, session, ghosts
  <1>3. ASSUME NEW i \in Id, OpenArtifact(i) PROVE RInv'
    BY <1>3, QuietRInv DEF OpenArtifact, KeepsStore, ghosts, ReviewStays, Rendered
  <1>4. QED
    BY <1>1, <1>2, <1>3, MakeRInv, WriteRInv, ReviewRInv DEF ArtifactStep

\* A session that is read has no report that was reviewed before.
LEMMA SessionStepRInv == ASSUME IInv, RInv, SessionStep PROVE RInv'
  <1>1. CASE AutoSave
    <2>1. /\ UNCHANGED <<store, request, review, window, used>> /\ window = "ready"
          /\ file' = Snapshot
      BY <1>1 DEF AutoSave, Saves, Timer, KeepsStore, front
    <2>2. file'.artifacts = artifacts /\ file'.request = request
      BY <2>1 DEF Snapshot
    <2>3. QED
      BY <2>1, <2>2 DEF RInv, IdsAreUsed, RequestsAreCharts, ReviewHolds, store
  <1>2. CASE LoadSucceeds
    <2>1. /\ window = "loading" /\ ReadFile /\ UNCHANGED <<file, used>>
          /\ artifacts' = file.artifacts /\ request' = file.request
          /\ review' \in {review, None} /\ window' # "loading"
      BY <1>2 DEF LoadSucceeds, Hydrate, ghosts, ReviewStays, Opened, ReadFile
    <2>2. review' # None => artifacts'[review'] = None
      BY <2>1 DEF RInv, IdsAreUsed, ReviewHolds
    <2>3. QED
      BY <2>1, <2>2 DEF RInv, IdsAreUsed, RequestsAreCharts, ReviewHolds, ReadFile
  <1>3. CASE LoadFails
    <2>1. UNCHANGED <<store, request, review, file, used>> /\ window' # "loading"
      BY <1>3 DEF LoadFails, KeepsStore, front, Opened
    <2>2. QED
      BY <2>1, QuietRInv
  <1>4. CASE Restart
    <2>1. /\ file' \in {file, Torn} /\ UNCHANGED used /\ request' = None /\ review' = None
          /\ \A i \in Id : artifacts'[i] = None
      BY <1>4 DEF Restart, NoArtifacts
    <2>2. \A i \in Report : i # None
      BY ArtifactAssumption
    <2>3. QED
      BY <2>1, <2>2 DEF RInv, IdsAreUsed, RequestsAreCharts, ReviewHolds, ReadFile, Id
  <1>5. QED
    BY <1>1, <1>2, <1>3, <1>4 DEF SessionStep

\* Every step keeps the invariant.
LEMMA NextRInv == IInv /\ RInv /\ [Next]_vars => RInv'
  <1> SUFFICES ASSUME IInv, RInv, [Next]_vars PROVE RInv'
    OBVIOUS
  <1>1. CASE UNCHANGED vars
    BY <1>1, QuietRInv DEF vars, front, session, ghosts
  <1>2. QED
    BY <1>1, TabStepRInv, ArtifactStepRInv, SessionStepRInv DEF Next

\* Until it is confirmed or given up, the review of a report rests on what it showed:
\* whatever tabs, agents, crashes and sessions do meanwhile, no draft that was not saved
\* and no source is lost by the refresh (ArtifactReportViewer.tsx 121-165).
THEOREM RefreshKeepsWork == Spec => RefreshLosesNothing
  <1>1. Init => RInv
    BY ArtifactAssumption
    DEF Init, RInv, IdsAreUsed, RequestsAreCharts, ReviewHolds, ReadFile, NoArtifacts, Id
  <1>2. ASSUME IInv, RInv, NEW i \in Id, ConfirmRefresh(i), review = i
        PROVE  ~heads[i].changed /\ artifacts'[i].sources = artifacts[i].sources
    <2>1. review # None /\ artifacts[i] # None /\ artifacts[i] \in Content
      BY <1>2 DEF ConfirmRefresh, Viewing, Free, IInv, WindowAgrees, Typed
    <2>2. ~heads[i].changed /\ Present(artifacts[i].sources) = artifacts[i].sources
      BY <1>2, <2>1 DEF RInv, ReviewHolds, Present
    <2>3. artifacts'[i] = [body |-> "rebuilt", sources |-> Present(artifacts[i].sources)]
      BY <1>2 DEF ConfirmRefresh, UpdateArtifactDraft, IInv, WindowAgrees, Typed
    <2>4. QED
      BY <2>2, <2>3
  <1>3. IInv /\ RInv => [\A i \in Id : ConfirmRefresh(i) /\ review = i =>
            ~heads[i].changed /\ artifacts'[i].sources = artifacts[i].sources]_vars
    BY <1>2
  <1>4. QED
    BY InitIInv, NextIInv, NextRInv, <1>1, <1>3, PTL DEF Spec, RefreshLosesNothing

-----------------------------------------------------------------------------
\* The session in the file can be shown.


\* A window that is ready shows no artifact without a history, nor does the file.
Shows ==
    /\ window = "ready" => Settles(revisions, tabs, active)
    /\ file \notin {None, Torn} => Settles(file.revisions, file.tabs, file.active)

\* The active tab is one of the tabs, as long as there are any.
ActiveIsOpen ==
    /\ tabs \in Seq(TabState) /\ active \in TabId
    /\ tabs # << >> => active \in OpenTabs(tabs)
    /\ file \notin {None, Torn} => file.tabs \in Seq(TabState)

\* There is a new id for one tab more.
LEMMA NewTabIdIsNew ==
    ASSUME ActiveIsOpen, Len(tabs) < MaxTabs
    PROVE  NewTabId \in TabId
  <1> DEFINE n == Len(tabs)
             idOf == [k \in 1 .. n |-> tabs[k].id]
             ids == OpenTabs(tabs)
  <1>1. n \in Nat /\ n + 1 <= MaxTabs /\ DOMAIN tabs = 1 .. n /\ MaxTabs \in Nat
    BY WorkspaceAssumption DEF ActiveIsOpen
  <1>2. ids = {idOf[k] : k \in 1 .. n}
    BY <1>1 DEF OpenTabs
  <1>3. \A k \in 1 .. n : idOf[k] \in TabId
    <2>1. \A k \in 1 .. n : tabs[k] \in TabState
      BY DEF ActiveIsOpen
    <2>2. QED  BY <2>1 DEF TabState
  <1>4. ids \subseteq TabId
    BY <1>2, <1>3
  <1>5. idOf \in Surjection(1 .. n, ids)
    BY <1>2 DEF Surjection
  <1>6. IsFiniteSet(1 .. n) /\ Cardinality(1 .. n) = n
    <2>1. n \in Int /\ 1 \in Int
      BY <1>1
    <2>2. /\ IsFiniteSet(1 .. n)
          /\ Cardinality(1 .. n) = IF 1 > n THEN 0 ELSE n - 1 + 1
      BY <2>1, FS_Interval
    <2>3. (IF 1 > n THEN 0 ELSE n - 1 + 1) = n
      BY <1>1
    <2>4. QED  BY <2>2, <2>3
  <1> HIDE DEF idOf, ids
  <1>7. IsFiniteSet(ids) /\ Cardinality(ids) <= n
    BY <1>5, <1>6, FS_Surjection
  <1>8. IsFiniteSet(ids \cup {active}) /\ Cardinality(ids \cup {active}) <= n + 1
    <2>1. Cardinality(ids) \in Nat
      BY <1>7, FS_CardinalityType
    <2>2. /\ IsFiniteSet(ids \cup {active})
          /\ Cardinality(ids \cup {active}) =
                IF active \in ids THEN Cardinality(ids) ELSE Cardinality(ids) + 1
      BY <1>7, FS_AddElement
    <2>3. QED  BY <1>1, <1>7, <2>1, <2>2
  <1>9. ids \cup {active} \in SUBSET TabId
    BY <1>4 DEF ActiveIsOpen
  <1>10. Cardinality(ids \cup {active}) <= MaxTabs
    <2>1. Cardinality(ids \cup {active}) \in Nat
      BY <1>8, FS_CardinalityType
    <2>2. QED  BY <1>1, <1>8, <2>1
  <1>11. ids \cup {active} # TabId
    BY <1>9, <1>10, WorkspaceAssumption
  <1>12. \E t \in TabId : t \notin ids \cup {active}
    BY <1>9, <1>11
  <1>13. QED  BY <1>12 DEF NewTabId, ids

\* One tab less, the others stay.
LEMMA Shorter ==
    ASSUME NEW s \in Seq(TabState), NEW i \in DOMAIN s, NEW new, new = Seqs!RemoveAt(s, i)
    PROVE  /\ new \in Seq(TabState) /\ DOMAIN new = 1 .. Len(new) /\ Len(new) \in Nat
           /\ new # << >> => Len(new) \in DOMAIN new
           /\ \A j \in DOMAIN s \ {i} : \E k \in DOMAIN new : new[k] = s[j]
  <1>1. PICK S : S = TabState
    OBVIOUS
  <1>2. s \in Seq(S) /\ Len(s) \in Nat /\ DOMAIN s = 1 .. Len(s) /\ i \in 1 .. Len(s)
    BY <1>1
  <1>3. PICK a : a = SubSeq(s, 1, i - 1)
    OBVIOUS
  <1>4. PICK b : b = SubSeq(s, i + 1, Len(s))
    OBVIOUS
  <1>5. a \in Seq(S) /\ Len(a) = i - 1 /\ \A k \in 1 .. Len(a) : a[k] = s[k]
    BY <1>1, <1>2, <1>3
  <1>6. b \in Seq(S) /\ Len(b) = Len(s) - i /\ \A k \in 1 .. Len(b) : b[k] = s[i + k]
    BY <1>1, <1>2, <1>4
  <1>7. new = a \o b
    BY <1>3, <1>4 DEF Seqs!RemoveAt
  <1>11. new \in Seq(S) /\ Len(new) = Len(a) + Len(b)
    BY <1>5, <1>6, <1>7
  <1>8. new \in Seq(S) /\ Len(new) = Len(a) + Len(b)
        /\ \A k \in 1 .. Len(new) : new[k] = IF k <= Len(a) THEN a[k] ELSE b[k - Len(a)]
    BY <1>5, <1>6, <1>7, <1>11
  <1>9. ASSUME NEW j \in DOMAIN s \ {i} PROVE \E k \in DOMAIN new : new[k] = s[j]
    <2>1. CASE j < i
      <3>1. j \in 1 .. Len(a) /\ j \in 1 .. Len(new)
        BY <1>2, <1>5, <1>6, <1>8, <2>1
      <3>2. QED  BY <1>5, <1>8, <3>1
    <2>2. CASE ~ j < i
      <3>1. PICK k : k = j - 1
        OBVIOUS
      <3>2. PICK l : l = k - Len(a)
        OBVIOUS
      <3>5. j \in 1 .. Len(s) /\ j > i /\ j \in Nat /\ i \in Nat
        BY <1>2, <2>2
      <3>6. Len(a) = i - 1 /\ Len(b) = Len(s) - i /\ Len(new) = Len(s) - 1
        BY <1>2, <1>5, <1>6, <1>8
      <3>3. k \in 1 .. Len(new) /\ ~ k <= Len(a) /\ l \in 1 .. Len(b) /\ i + l = j
        BY <1>2, <3>1, <3>2, <3>5, <3>6
      <3>4. QED  BY <1>6, <1>8, <3>2, <3>3
    <2>3. QED  BY <2>1, <2>2
  <1>10. QED  BY <1>1, <1>8, <1>9

LEMMA AddTabOpen ==
    ASSUME ActiveIsOpen, NEW i \in Id \cup {None}, AddTab(i), file' = file
    PROVE  ActiveIsOpen'
  <1>1. PICK e : e = [id |-> NewTabId, artifact |-> i, filled |-> FALSE]
    OBVIOUS
  <1>2. e \in TabState /\ e.id = NewTabId /\ NewTabId \in TabId
    BY <1>1, NewTabIdIsNew DEF AddTab, TabState
  <1>3. tabs' = Append(tabs, e) /\ active' = e.id
    BY <1>1 DEF AddTab
  <1>4. PICK S : S = TabState
    OBVIOUS
  <1>5. tabs \in Seq(S) /\ e \in S
    BY <1>2, <1>4 DEF ActiveIsOpen
  <1>6. tabs' \in Seq(S) /\ Len(tabs) + 1 \in DOMAIN tabs' /\ tabs'[Len(tabs) + 1] = e
    BY <1>3, <1>5
  <1>7. active' \in OpenTabs(tabs') /\ active' \in TabId
    BY <1>2, <1>3, <1>6 DEF OpenTabs
  <1>8. QED  BY <1>4, <1>6, <1>7 DEF ActiveIsOpen

LEMMA CloseTabOpen ==
    ASSUME ActiveIsOpen, NEW t \in OpenTabs(tabs), CloseTab(t), file' = file
    PROVE  ActiveIsOpen'
  <1>1. PICK i : i = CHOOSE k \in DOMAIN tabs : tabs[k].id = t
    OBVIOUS
  <1>2. i \in DOMAIN tabs /\ tabs[i].id = t
    BY <1>1 DEF OpenTabs
  <1>3. PICK new : new = Seqs!RemoveAt(tabs, i)
    OBVIOUS
  <1>4. /\ new \in Seq(TabState) /\ DOMAIN new = 1 .. Len(new) /\ Len(new) \in Nat
        /\ new # << >> => Len(new) \in DOMAIN new
        /\ \A j \in DOMAIN tabs \ {i} : \E k \in DOMAIN new : new[k] = tabs[j]
    BY <1>2, <1>3, Shorter DEF ActiveIsOpen
  <1>5. tabs' = new /\ active' = IF active = t /\ new # << >> THEN new[Len(new)].id ELSE active
    BY <1>1, <1>3 DEF CloseTab, Without
  <1>6. ASSUME new # << >> PROVE active' \in OpenTabs(new)
    <2>1. CASE active = t
      BY <1>4, <1>5, <1>6, <2>1 DEF OpenTabs
    <2>2. CASE active # t
      <3>1. tabs # << >>
        BY <1>2
      <3>2. PICK j \in DOMAIN tabs : tabs[j].id = active
        BY <3>1 DEF ActiveIsOpen, OpenTabs
      <3>3. PICK k \in DOMAIN new : new[k] = tabs[j]
        BY <1>2, <1>4, <2>2, <3>2
      <3>4. QED  BY <1>5, <2>2, <3>2, <3>3 DEF OpenTabs
    <2>3. QED  BY <2>1, <2>2
  <1>7. active' \in TabId
    <2>1. CASE new # << >>
      <3>1. PICK k \in DOMAIN new : new[k].id = active'
        BY <1>6, <2>1 DEF OpenTabs
      <3>2. new[k] \in TabState
        BY <1>4, <3>1
      <3>3. QED  BY <3>1, <3>2 DEF TabState
    <2>2. CASE new = << >>
      BY <1>5, <2>2 DEF ActiveIsOpen
    <2>3. QED  BY <2>1, <2>2
  <1>8. QED  BY <1>4, <1>5, <1>6, <1>7 DEF ActiveIsOpen

\* The tab of a new window.
LEMMA DefaultTabTyped == DefaultTab \in TabState /\ DefaultTab.id = FirstTab
  BY WorkspaceAssumption DEF DefaultTab, TabState

LEMMA DefaultTabOpens ==
    /\ <<DefaultTab>> \in Seq(TabState) /\ FirstTab \in OpenTabs(<<DefaultTab>>)
    /\ FirstTab \in TabId
  <1>1. PICK s : s = <<DefaultTab>>
    OBVIOUS
  <1>2. s \in Seq(TabState) /\ 1 \in DOMAIN s /\ s[1].id = FirstTab
    BY <1>1, DefaultTabTyped
  <1>3. FirstTab \in OpenTabs(s)
    BY <1>2 DEF OpenTabs
  <1>4. QED  BY <1>1, <1>2, <1>3, WorkspaceAssumption

\* What is rendered settles, or leaves the window blank.
LEMMA RenderedShows == ASSUME Shows, Rendered, file' = file PROVE Shows'
  BY DEF Shows, Rendered

LEMMA TabStepOpen == ASSUME Shows, ActiveIsOpen, TabStep PROVE Shows' /\ ActiveIsOpen'
  <1>1. Shows'
    BY RenderedShows DEF TabStep, NewTab, QueryFills, SetActiveTab, Closes
  <1>2. file' = file
    BY DEF TabStep, NewTab, QueryFills, SetActiveTab, Closes
  <1>3. CASE NewTab
    BY <1>1, <1>2, <1>3, AddTabOpen DEF NewTab
  <1>4. ASSUME NEW t \in TabId, SetActiveTab(t) PROVE ActiveIsOpen'
    BY <1>2, <1>4 DEF SetActiveTab, ActiveIsOpen
  <1>5. ASSUME NEW t \in TabId, Closes(t) PROVE ActiveIsOpen'
    BY <1>2, <1>5, CloseTabOpen DEF Closes
  <1>6. CASE QueryFills
    <2>1. PICK i \in DOMAIN tabs : tabs' = [tabs EXCEPT ![i].filled = TRUE]
      BY <1>6 DEF QueryFills
    <2>2. PICK e : e = [tabs[i] EXCEPT !.filled = TRUE]
      OBVIOUS
    <2>3. PICK S : S = TabState
      OBVIOUS
    <2>4. tabs \in Seq(S) /\ tabs[i] \in TabState /\ tabs' = [tabs EXCEPT ![i] = e]
      BY <2>1, <2>2, <2>3 DEF ActiveIsOpen
    <2>5. e \in S /\ e.id = tabs[i].id
      BY <2>2, <2>3, <2>4 DEF TabState
    <2>6. /\ tabs' \in Seq(S) /\ DOMAIN tabs' = DOMAIN tabs
          /\ \A k \in DOMAIN tabs : tabs'[k].id = tabs[k].id
      BY <2>4, <2>5
    <2>7. OpenTabs(tabs') = OpenTabs(tabs) /\ active' = active /\ tabs # << >>
      BY <1>6, <2>1, <2>6 DEF OpenTabs, QueryFills
    <2>8. QED  BY <1>1, <1>2, <2>3, <2>6, <2>7 DEF ActiveIsOpen
  <1>7. QED  BY <1>1, <1>3, <1>4, <1>5, <1>6 DEF TabStep

\* No step but a session's writes the file or makes the window ready.
LEMMA WindowStays ==
    ASSUME TabStep \/ ArtifactStep
    PROVE  file' = file /\ (window' = "ready" => window = "ready")
  <1>1. CASE TabStep
    BY <1>1 DEF TabStep, NewTab, QueryFills, SetActiveTab, Closes, Rendered
  <1>2. CASE ArtifactStep
    BY <1>2 DEF ArtifactStep, GraphBuilderTakes, CancelReview, SnapshotQuery, CreateChart,
       CreateAnalysisChart, MakeSource, MakeReport, OpenArtifact, Remove, SaveDraft, DiscardDraft,
       RestoreRevision, StartReview, ConfirmRefresh, DuplicateRevision, Rendered, session
  <1>3. QED
    BY <1>1, <1>2

LEMMA ArtifactStepOpen ==
    ASSUME IInv, Shows, ActiveIsOpen, ArtifactStep PROVE Shows' /\ ActiveIsOpen'
  <1>1. file' = file
    BY WindowStays
  <1>2. Rendered \/ UNCHANGED <<revisions, tabs, active, window>>
    BY DEF ArtifactStep, GraphBuilderTakes, CancelReview, SnapshotQuery, CreateChart,
       CreateAnalysisChart, MakeSource, MakeReport, OpenArtifact, Remove, SaveDraft, DiscardDraft,
       RestoreRevision, StartReview, ConfirmRefresh, DuplicateRevision, KeepsStore, store, session
  <1>3. Shows'
    BY <1>1, <1>2, RenderedShows DEF Shows
  <1>4. UNCHANGED <<tabs, active>> \/ \E i \in Id : AddTab(i)
    BY DEF ArtifactStep, GraphBuilderTakes, CancelReview, SnapshotQuery, CreateChart,
       CreateAnalysisChart, MakeSource, MakeReport, OpenArtifact, Remove, SaveDraft, DiscardDraft,
       RestoreRevision, StartReview, ConfirmRefresh, DuplicateRevision, front
  <1>5. ActiveIsOpen'
    <2>1. CASE UNCHANGED <<tabs, active>>
      BY <1>1, <2>1 DEF ActiveIsOpen, OpenTabs
    <2>2. ASSUME NEW i \in Id, AddTab(i) PROVE ActiveIsOpen'
      BY <1>1, <2>2, AddTabOpen DEF ActiveIsOpen
    <2>3. QED  BY <1>4, <2>1, <2>2
  <1>6. QED  BY <1>3, <1>5

LEMMA SessionStepOpen ==
    ASSUME Shows, ActiveIsOpen, SessionStep PROVE Shows' /\ ActiveIsOpen'
  <1>1. CASE AutoSave
    <2>1. /\ UNCHANGED <<revisions, tabs, active, window>> /\ window = "ready"
          /\ file' = Snapshot
      BY <1>1 DEF AutoSave, Saves, Timer, KeepsStore, store, front
    <2>2. file'.revisions = revisions /\ file'.tabs = tabs /\ file'.active = active
      BY <2>1 DEF Snapshot
    <2>3. QED  BY <2>1, <2>2 DEF Shows, ActiveIsOpen, OpenTabs
  <1>2. CASE LoadSucceeds
    <2>1. Shows'
      BY <1>2 DEF LoadSucceeds, Opened, Shows
    <2>2. PICK opened : opened = IF file.tabs = << >> THEN <<DefaultTab>> ELSE file.tabs
      OBVIOUS
    <2>3. /\ file' = file /\ file \notin {None, Torn} /\ tabs' = opened
          /\ active' = IF file.active \in OpenTabs(opened) THEN file.active ELSE opened[1].id
      BY <1>2, <2>2 DEF LoadSucceeds, Hydrate
    <2>4. opened \in Seq(TabState) /\ 1 \in DOMAIN opened
      BY <2>2, <2>3, DefaultTabTyped DEF ActiveIsOpen
    <2>5. active' \in OpenTabs(tabs')
      BY <2>3, <2>4 DEF OpenTabs
    <2>6. active' \in TabId
      <3>1. PICK k \in DOMAIN opened : opened[k].id = active'
        BY <2>3, <2>5 DEF OpenTabs
      <3>2. opened[k] \in TabState
        BY <2>4, <3>1
      <3>3. QED  BY <3>1, <3>2 DEF TabState
    <2>7. QED  BY <2>1, <2>3, <2>4, <2>5, <2>6 DEF ActiveIsOpen
  <1>3. CASE LoadFails
    <2>1. UNCHANGED <<file, tabs, active>>
      BY <1>3 DEF LoadFails, front
    <2>2. Shows'
      BY <1>3, <2>1 DEF LoadFails, Opened, Shows
    <2>3. QED  BY <2>1, <2>2 DEF ActiveIsOpen, OpenTabs
  <1>4. CASE Restart
    <2>1. file' \in {file, Torn} /\ window' = "loading" /\ tabs' = <<DefaultTab>>
          /\ active' = FirstTab
      BY <1>4 DEF Restart
    <2>2. QED  BY <2>1, DefaultTabOpens DEF Shows, ActiveIsOpen
  <1>5. QED  BY <1>1, <1>2, <1>3, <1>4 DEF SessionStep

LEMMA InitOpen == Init => Shows /\ ActiveIsOpen
  BY DefaultTabOpens DEF Init, Shows, ActiveIsOpen

LEMMA NextOpen ==
    IInv /\ Shows /\ ActiveIsOpen /\ [Next]_vars => Shows' /\ ActiveIsOpen'
  <1> SUFFICES ASSUME IInv, Shows, ActiveIsOpen, [Next]_vars PROVE Shows' /\ ActiveIsOpen'
    OBVIOUS
  <1>1. CASE UNCHANGED vars
    BY <1>1 DEF vars, store, front, session, Shows, ActiveIsOpen, OpenTabs
  <1>2. QED
    BY <1>1, TabStepOpen, ArtifactStepOpen, SessionStepOpen DEF Next

\* Whatever is removed while it is shown, a window that went blank opens again with a
\* restart, and with tabs there is an active one, also after a session without any
\* (WorkspaceStore.ts 1042-1058 and 1153-1159, App.tsx 258-268).
THEOREM SessionCanOpen == Spec => []SessionOpens
  <1>2. Shows /\ ActiveIsOpen => SessionOpens
    BY DEF Shows, ActiveIsOpen, SessionOpens
  <1>3. QED
    BY InitIInv, NextIInv, InitOpen, NextOpen, <1>2, PTL DEF Spec

-----------------------------------------------------------------------------
\* Work that was saved.

\* What is saved is in the file, unless that is torn, and in the window that has read it.
Kept ==
    \A i \in saved :
        /\ i \in Id
        /\ file = Torn \/ (file # None /\ file.artifacts[i] # None)
        /\ window = "ready" => artifacts[i] # None

\* What is saved is a session, and no file and a torn one are none.
LEMMA SnapshotIsSession == ASSUME IInv, ActiveIsOpen PROVE Snapshot \in Session
  BY DEF IInv, WindowAgrees, Typed, ActiveIsOpen, Snapshot, Session

\* The steps of the artifacts write a draft at a time, and only one takes it away.
LEMMA OneWrite ==
    ASSUME IInv, ArtifactStep
    PROVE  \/ UNCHANGED <<artifacts, saved>>
           \/ /\ UNCHANGED saved
              /\ \E i \in Id, content \in Content : artifacts' = [artifacts EXCEPT ![i] = content]
           \/ \E i \in Id : Remove(i)
  <1>1. CASE GraphBuilderTakes
    <2>1. [body |-> "snapshot", sources |-> {}] \in Content
      BY DEF Content
    <2>2. request \in Id
      BY <1>1 DEF GraphBuilderTakes, IInv, WindowAgrees
    <2>3. QED
      BY <1>1, <2>1, <2>2 DEF GraphBuilderTakes, UpdateArtifactDraft, KeepsStore, store
  <1>2. CASE CancelReview \/ \E i \in Id : OpenArtifact(i) \/ StartReview(i)
    BY <1>2 DEF CancelReview, OpenArtifact, StartReview, KeepsStore, store, ghosts
  <1>3. ASSUME NEW i \in Id, SnapshotQuery(i) \/ CreateChart(i) \/ CreateAnalysisChart(i)
        PROVE  UNCHANGED saved /\ \E content \in Content : artifacts' = [artifacts EXCEPT ![i] = content]
    <2>1. [body |-> "snapshot", sources |-> {}] \in Content
      BY DEF Content
    <2>2. QED
      BY <1>3, <2>1 DEF SnapshotQuery, CreateChart, CreateAnalysisChart, MakeSource,
         CommitArtifactRevision
  <1>4. ASSUME NEW i \in Id, MakeReport(i)
        PROVE  UNCHANGED saved /\ \E content \in Content : artifacts' = [artifacts EXCEPT ![i] = content]
    <2>1. [body |-> "written", sources |-> {t \in Source : artifacts[t] # None}] \in Content
      BY DEF Content
    <2>2. QED
      BY <1>4, <2>1 DEF MakeReport, CommitArtifactRevision
  <1>5. ASSUME NEW i \in Id, SaveDraft(i) \/ DiscardDraft(i) \/ RestoreRevision(i) \/ ConfirmRefresh(i)
        PROVE  UNCHANGED saved /\ \E content \in Content : artifacts' = [artifacts EXCEPT ![i] = content]
    <2>1. UNCHANGED saved /\ artifacts[i] \in Content /\ revisions[i] \in Seq(Revision)
      BY <1>5 DEF SaveDraft, DiscardDraft, RestoreRevision, ConfirmRefresh, ghosts, Viewing,
         IInv, WindowAgrees, Typed
    <2>2. CASE SaveDraft(i)
      BY <2>1, <2>2 DEF SaveDraft, SaveCurrentArtifactDraft, CommitArtifactRevision
    <2>3. CASE DiscardDraft(i)
      <3>1. revisions[i] # << >>
        BY <2>3 DEF DiscardDraft, Changed, IInv, WindowAgrees, Agree, ArtifactAgrees
      <3>2. Latest(revisions[i]).artifact \in Content
        BY <2>1, <3>1, LatestType DEF Revision
      <3>3. QED
        BY <2>1, <2>3, <3>2 DEF DiscardDraft, DiscardArtifactDraft
    <2>4. CASE RestoreRevision(i)
      <3>1. PICK k \in 1 .. Len(revisions[i]) : RestoreArtifactRevision(i, revisions[i][k])
        BY <2>4 DEF RestoreRevision, Listed
      <3>2. revisions[i][k] \in Revision
        BY <2>1
      <3>3. revisions[i][k].artifact \in Content
        BY <3>2 DEF Revision
      <3>4. QED
        BY <2>1, <3>1, <3>3 DEF RestoreArtifactRevision
    <2>5. CASE ConfirmRefresh(i)
      <3>1. [body |-> "rebuilt", sources |-> Present(artifacts[i].sources)] \in Content
        BY <2>1 DEF Content, Present
      <3>2. QED
        BY <2>1, <2>5, <3>1 DEF ConfirmRefresh, UpdateArtifactDraft
    <2>6. QED
      BY <1>5, <2>2, <2>3, <2>4, <2>5
  <1>6. ASSUME NEW i \in Id, NEW new \in Id, DuplicateRevision(i, new)
        PROVE  UNCHANGED saved /\ \E content \in Content : artifacts' = [artifacts EXCEPT ![new] = content]
    <2>1. PICK k \in 1 .. Len(revisions[i]) : DuplicateArtifact(revisions[i][k], new)
      BY <1>6 DEF DuplicateRevision, Listed
    <2>2. revisions[i] \in Seq(Revision)
      BY DEF IInv, WindowAgrees, Typed
    <2>3. revisions[i][k] \in Revision
      BY <2>2
    <2>4. revisions[i][k].artifact \in Content
      BY <2>3 DEF Revision
    <2>5. QED
      BY <1>6, <2>1, <2>4 DEF DuplicateRevision, DuplicateArtifact
  <1>7. QED
    BY <1>1, <1>2, <1>3, <1>4, <1>5, <1>6 DEF ArtifactStep

\* The artifacts of the window lose none that was saved, but by a removal.
LEMMA ArtifactStepKept == ASSUME IInv, Kept, ArtifactStep PROVE Kept'
  <1>1. file' = file /\ (window' = "ready" => window = "ready")
    BY WindowStays
  <1>2. CASE UNCHANGED <<artifacts, saved>>
    BY <1>1, <1>2 DEF Kept
  <1>3. CASE /\ UNCHANGED saved
             /\ \E i \in Id, content \in Content : artifacts' = [artifacts EXCEPT ![i] = content]
    BY <1>1, <1>3, ContentAssumption DEF Kept, IInv, WindowAgrees, Typed
  <1>4. ASSUME NEW i \in Id, Remove(i) PROVE Kept'
    BY <1>1, <1>4 DEF Remove, RemoveArtifact, Kept, IInv, WindowAgrees, Typed
  <1>5. QED
    BY <1>2, <1>3, <1>4, OneWrite

\* A window saves what it has, and one that loads has what was saved.
LEMMA SessionStepKept == ASSUME IInv, ActiveIsOpen, Kept, SessionStep PROVE Kept'
  <1>1. CASE AutoSave
    <2>1. /\ UNCHANGED <<artifacts, window>> /\ window = "ready" /\ file' = Snapshot
          /\ saved' = saved \cup {i \in Id : artifacts[i] # None}
      BY <1>1 DEF AutoSave, Saves, Timer, KeepsStore, store, front
    <2>2. file'.artifacts = artifacts
      BY <2>1 DEF Snapshot
    <2>3. QED
      BY <2>1, <2>2, SnapshotIsSession, WorkspaceAssumption DEF Kept
  <1>2. CASE LoadSucceeds
    BY <1>2 DEF LoadSucceeds, Hydrate, ghosts, Kept
  <1>3. CASE LoadFails
    BY <1>3 DEF LoadFails, Kept
  <1>4. CASE Restart
    <2>1. file' \in {file, Torn} /\ UNCHANGED saved /\ window' = "loading"
      BY <1>4 DEF Restart
    <2>2. QED
      BY <2>1 DEF Kept
  <1>5. QED
    BY <1>1, <1>2, <1>3, <1>4 DEF SessionStep

\* Every step keeps the invariant.
LEMMA NextKept == IInv /\ ActiveIsOpen /\ Kept /\ [Next]_vars => Kept'
  <1> SUFFICES ASSUME IInv, ActiveIsOpen, Kept, [Next]_vars PROVE Kept'
    OBVIOUS
  <1>1. CASE UNCHANGED vars
    BY <1>1 DEF vars, store, session, ghosts, Kept
  <1>2. CASE TabStep
    <2>1. UNCHANGED <<artifacts, saved>>
      BY <1>2 DEF TabStep, NewTab, QueryFills, SetActiveTab, Closes, KeepsStore, store, ghosts
    <2>2. QED
      BY <1>2, <2>1, WindowStays DEF Kept
  <1>3. QED
    BY <1>1, <1>2, ArtifactStepKept, SessionStepKept DEF Next

\* An artifact that was saved and not removed is never lost, neither from the window that
\* is ready nor from the file, through crashes and reloads, unless the file is torn
\* or cannot be read (App.tsx 207-225, 255-268).
THEOREM SavedWorkIsKept == Spec => []WorkIsKept
  <1>1. Init => Kept
    BY DEF Init, Kept
  <1>2. Kept => WorkIsKept
    BY DEF Kept, WorkIsKept
  <1>3. QED
    BY InitIInv, NextIInv, InitOpen, NextOpen, NextKept, <1>1, <1>2, PTL DEF Spec
=============================================================================
