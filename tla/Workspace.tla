------------------------------ MODULE Workspace ------------------------------
(***************************************************************************)
(* The workspace: its tabs, the viewers of the artifacts, the graph        *)
(* builder that takes the chart requests of the agent, and the session     *)
(* file, saved 600 ms after a change and read when the window opens        *)
(* (App.tsx, WorkspaceStore.ts, WorkspaceSessionStore.ts, persistence.rs,  *)
(* components/artifacts, GraphBuilderPanel.tsx).                           *)
(*                                                                         *)
(* One action is a handler, with the rendering it causes.                  *)
(***************************************************************************)
EXTENDS ArtifactStore, FiniteSets

Seqs == INSTANCE SequencesExt

CONSTANTS
    TabId,          \* ids of tabs
    FirstTab,       \* "tab-1"
    Torn,           \* a session file that is half written
    ShownRevisions, \* revisions a viewer lists: 5
    MaxTabs,        \* bound: open tabs
    MaxRevisions,   \* bound: revisions made of an artifact
    MaxUnsaved      \* bound: changes between two saves

\* What a session file holds.
TabState == [id : TabId, artifact : Id \cup {None}, filled : BOOLEAN]
Session ==
    [artifacts : [Id -> Content \cup {None}], revisions : [Id -> Seq(Revision)],
     heads : [Id -> HeadState], tabs : Seq(TabState), active : TabId,
     request : Id \cup {None}]

\* There is always a new id for a tab, and no file and a torn one are no sessions.
ASSUME WorkspaceAssumption ==
    /\ FirstTab \in TabId
    /\ ShownRevisions \in Nat /\ MaxTabs \in Nat \ {0}
    /\ \A ids \in SUBSET TabId : Cardinality(ids) <= MaxTabs => ids # TabId
    /\ None \notin Session /\ Torn \notin Session

VARIABLES
    tabs,       \* open tabs: id, artifact shown, query results there
    active,     \* activeTabId
    request,    \* graphBuilderRequest: the artifact it is for
    review,     \* report whose refresh is reviewed in the dialog of the viewer
    window,     \* "loading", "ready" (workspaceSessionReady), or "blank"
    unsaved,    \* changes since the last save
    file,       \* the session file
    used,       \* ghost: artifact ids given out
    revived,    \* ghost: artifacts the graph builder made of a request
    saved       \* ghost: artifacts of the sessions saved, less those removed since

front == <<tabs, active, request, review>>
session == <<window, unsaved, file>>
ghosts == <<used, revived, saved>>
vars == <<store, front, session, ghosts>>

DefaultTab == [id |-> FirstTab, artifact |-> None, filled |-> FALSE]

Snapshot == [artifacts |-> artifacts, revisions |-> revisions, heads |-> heads,
             tabs |-> tabs, active |-> active, request |-> request]

-----------------------------------------------------------------------------
OpenTabs(opened) == {opened[k].id : k \in DOMAIN opened}
TabOf(opened, id) == CHOOSE t \in {opened[k] : k \in DOMAIN opened} : t.id = id

\* The artifact the window shows: without tabs, the empty query view.
Shown(opened, id) == IF id \in OpenTabs(opened) THEN TabOf(opened, id).artifact ELSE None

\* The selector of a viewer returns a new list for an artifact without revisions,
\* each time it is asked, so its component never settles and, as nothing catches
\* the error, React removes the whole window.
Settles(history, opened, id) == LET i == Shown(opened, id) IN i = None \/ history[i] # << >>

\* What is rendered after a change.
Rendered ==
    /\ unsaved < MaxUnsaved
    /\ unsaved' = unsaved + 1
    /\ window' = IF Settles(revisions', tabs', active') THEN window ELSE "blank"

\* The report viewer keeps its dialog from one report to the next.
ReviewStays == review' = IF Shown(tabs', active') \in Report THEN review ELSE None

\* While the dialog is open it covers the window; the keys of the tabs still work.
Free == review = None

Lives == window # "blank"
KeepsStore == UNCHANGED store

-----------------------------------------------------------------------------
\* Tabs.

\* The ids of tabs are new; which one is does not matter.
NewTabId == CHOOSE t \in TabId : t \notin OpenTabs(tabs) \cup {active}

AddTab(i) ==
    /\ Len(tabs) < MaxTabs
    /\ tabs' = Append(tabs, [id |-> NewTabId, artifact |-> i, filled |-> FALSE])
    /\ active' = NewTabId

\* The filter on the id, which no other tab has.
Without(opened, t) == Seqs!RemoveAt(opened, CHOOSE k \in DOMAIN opened : opened[k].id = t)

CloseTab(t) ==
    LET rest == Without(tabs, t)
    IN  /\ tabs' = rest
        /\ active' = IF active = t /\ rest # << >> THEN rest[Len(rest)].id ELSE active

\* Ctrl+T, the + button, or the agent's open_new_tab.
NewTab ==
    /\ Lives
    /\ AddTab(None)
    /\ KeepsStore /\ UNCHANGED file
    /\ UNCHANGED <<request, ghosts>>
    /\ ReviewStays /\ Rendered

\* Ctrl+Tab or a click.
SetActiveTab(t) ==
    /\ Lives
    /\ t \in OpenTabs(tabs) \ {active}
    /\ active' = t
    /\ KeepsStore /\ UNCHANGED file
    /\ UNCHANGED <<tabs, request, ghosts>>
    /\ ReviewStays /\ Rendered

\* The operator keeps one tab; the agent's close_tab may close the last.
Closes(t) ==
    /\ Lives
    /\ t \in OpenTabs(tabs)
    /\ CloseTab(t)
    /\ KeepsStore /\ UNCHANGED file
    /\ UNCHANGED <<request, ghosts>>
    /\ ReviewStays /\ Rendered

\* A query ends in the active tab.
QueryFills ==
    /\ Lives
    /\ \E k \in DOMAIN tabs :
         /\ tabs[k].id = active /\ tabs[k].artifact = None /\ ~tabs[k].filled
         /\ tabs' = [tabs EXCEPT ![k].filled = TRUE]
    /\ KeepsStore /\ UNCHANGED file
    /\ UNCHANGED <<active, request, review, ghosts>>
    /\ Rendered

\* The list of artifacts, and the links of a report to its sources.
OpenArtifact(i) ==
    /\ Lives /\ Free
    /\ artifacts[i] # None
    /\ AddTab(i)
    /\ KeepsStore /\ UNCHANGED file
    /\ UNCHANGED <<request, ghosts>>
    /\ ReviewStays /\ Rendered

-----------------------------------------------------------------------------
\* Artifacts are made.

Uses(i) == i \notin used /\ used' = used \cup {i}
ActiveFilled == active \in OpenTabs(tabs) /\ TabOf(tabs, active).filled

MakeSource(i) ==
    /\ Lives /\ Uses(i)
    /\ i \in Source
    /\ CommitArtifactRevision(i, [body |-> "snapshot", sources |-> {}])
    /\ UNCHANGED file
    /\ UNCHANGED <<tabs, active, review, revived, saved>>
    /\ Rendered

\* The operator's snapshot of the results of the tab.
SnapshotQuery(i) ==
    /\ ActiveFilled /\ Free
    /\ MakeSource(i)
    /\ UNCHANGED request

\* The agent's charts, of the results of the tab or of rows it brings along, are handed
\* to the graph builder.
CreateChart(i) ==
    /\ ActiveFilled
    /\ MakeSource(i)
    /\ request' = i

CreateAnalysisChart(i) ==
    /\ MakeSource(i)
    /\ request' = i

\* The report of a conversation, linked to the charts and snapshots there are.
MakeReport(i) ==
    /\ Lives /\ Free /\ Uses(i)
    /\ i \in Report
    /\ CommitArtifactRevision(i, [body |-> "written",
                                  sources |-> {s \in Source : artifacts[s] # None}])
    /\ UNCHANGED file
    /\ UNCHANGED <<front, revived, saved>>
    /\ Rendered

\* The graph builder, mounted where no artifact is shown: it consumes the request, and
\* makes a chart of it when the chart is gone and the tab has results.
GraphBuilderTakes ==
    /\ Lives
    /\ request # None /\ Shown(tabs, active) = None
    /\ request' = None
    /\ \/ /\ artifacts[request] # None
          /\ KeepsStore
          /\ UNCHANGED revived
       \/ /\ artifacts[request] = None /\ ActiveFilled
          /\ UpdateArtifactDraft(request, [body |-> "snapshot", sources |-> {}])
          /\ revived' = revived \cup {request}
    /\ UNCHANGED file
    /\ UNCHANGED <<tabs, active, review, used, saved>>
    /\ Rendered

\* The list of artifacts.
Remove(i) ==
    /\ Lives /\ Free
    /\ artifacts[i] # None
    /\ RemoveArtifact(i)
    /\ saved' = saved \ {i}
    /\ UNCHANGED file
    /\ UNCHANGED <<front, used, revived>>
    /\ Rendered

-----------------------------------------------------------------------------
\* The viewers.

Viewing(i) == Lives /\ Shown(tabs, active) = i /\ artifacts[i] # None

Listed(i) ==
    LET n == Len(revisions[i])
    IN  {revisions[i][k] : k \in {j \in 1 .. n : j > n - ShownRevisions}}

\* The buttons to save and discard; a report without sources has none.
Changed(i) == heads[i].changed /\ (i \in Report => artifacts[i].sources # {})

SaveDraft(i) ==
    /\ Viewing(i) /\ Free /\ Changed(i)
    /\ LatestNumber(revisions[i]) < MaxRevisions
    /\ SaveCurrentArtifactDraft(i)
    /\ UNCHANGED file
    /\ UNCHANGED <<front, ghosts>>
    /\ Rendered

DiscardDraft(i) ==
    /\ Viewing(i) /\ Free /\ Changed(i)
    /\ DiscardArtifactDraft(i)
    /\ UNCHANGED file
    /\ UNCHANGED <<front, ghosts>>
    /\ Rendered

RestoreRevision(i) ==
    /\ Viewing(i) /\ Free
    /\ \E revision \in Listed(i) : RestoreArtifactRevision(i, revision)
    /\ UNCHANGED file
    /\ UNCHANGED <<front, ghosts>>
    /\ Rendered

DuplicateRevision(i, new) ==
    /\ Viewing(i) /\ Free /\ Uses(new)
    /\ i \in Report <=> new \in Report
    /\ \E revision \in Listed(i) : DuplicateArtifact(revision, new)
    /\ AddTab(new)
    /\ UNCHANGED file
    /\ UNCHANGED <<request, revived, saved>>
    /\ ReviewStays /\ Rendered

Present(sources) == {s \in sources : artifacts[s] # None}

\* Mutant: the review does not look at the draft.
ReviewsAnyDraft(i) ==
    /\ Viewing(i) /\ Free /\ i \in Report
    /\ artifacts[i].sources # {} /\ Present(artifacts[i].sources) = artifacts[i].sources
    /\ review' = i
    /\ KeepsStore
    /\ UNCHANGED <<tabs, active, request, session, ghosts>>

\* startRefreshReview, of all sections.  (No chart or snapshot gets a second revision,
\* so no section is ever stale.)
StartReview(i) ==
    /\ Viewing(i) /\ Free /\ i \in Report
    /\ ~heads[i].changed
    /\ artifacts[i].sources # {} /\ Present(artifacts[i].sources) = artifacts[i].sources
    /\ review' = i
    /\ KeepsStore
    /\ UNCHANGED <<tabs, active, request, session, ghosts>>

CancelReview ==
    /\ Lives /\ ~Free
    /\ review' = None
    /\ KeepsStore
    /\ UNCHANGED <<tabs, active, request, session, ghosts>>

\* confirmRefresh acts on the report that is shown.
ConfirmRefresh(i) ==
    /\ Viewing(i) /\ ~Free
    /\ UpdateArtifactDraft(i, [body |-> "rebuilt", sources |-> Present(artifacts[i].sources)])
    /\ review' = None
    /\ UNCHANGED file
    /\ UNCHANGED <<tabs, active, request, ghosts>>
    /\ Rendered

-----------------------------------------------------------------------------
\* The session.

Saves ==
    /\ file' = Snapshot
    /\ saved' = saved \cup {i \in Id : artifacts[i] # None}
    /\ unsaved' = 0
    /\ KeepsStore
    /\ UNCHANGED <<front, window, used, revived>>

\* Mutant: the timer runs before the session was read.
SavesAnyTime == unsaved > 0 /\ Saves

\* Mutant: the timer runs in a blank window too.
TimerStays == window # "loading" /\ unsaved > 0

\* The timer of the autosave, an effect of the window: in a blank one there is none.
Timer == window = "ready" /\ unsaved > 0

AutoSave == Timer /\ Saves

Hydrate(snapshot) ==
    LET opened == IF snapshot.tabs = << >> THEN <<DefaultTab>> ELSE snapshot.tabs
    IN  /\ artifacts' = snapshot.artifacts
        /\ revisions' = snapshot.revisions
        /\ heads' = snapshot.heads
        /\ request' = snapshot.request
        /\ tabs' = opened
        /\ active' = IF snapshot.active \in OpenTabs(opened) THEN snapshot.active
                                                             ELSE opened[1].id

Opened == /\ window' = IF Settles(revisions', tabs', active') THEN "ready" ELSE "blank"
          /\ unsaved' = 1

\* loadWorkspaceSession and hydrateWorkspaceSession: what was done before is replaced.
LoadSucceeds ==
    /\ window = "loading" /\ file \notin {None, Torn}
    /\ Hydrate(file)
    /\ UNCHANGED file
    /\ UNCHANGED ghosts
    /\ ReviewStays /\ Opened

\* There is no file, or it cannot be read or parsed: the workspace stays as it is, and
\* is saved over the file.
LoadFails ==
    /\ window = "loading"
    /\ saved' = {}
    /\ KeepsStore /\ UNCHANGED file
    /\ UNCHANGED <<front, used, revived>>
    /\ Opened

\* The program ends, perhaps in the middle of a save, which writes the file in place,
\* and starts again.
Restart ==
    /\ file' = file \/ (Timer /\ file' = Torn)
    /\ artifacts' = NoArtifacts.artifacts
    /\ revisions' = NoArtifacts.revisions
    /\ heads' = NoArtifacts.heads
    /\ tabs' = <<DefaultTab>> /\ active' = FirstTab
    /\ request' = None /\ review' = None
    /\ window' = "loading" /\ unsaved' = 0
    /\ UNCHANGED <<used, revived, saved>>

-----------------------------------------------------------------------------
Init ==
    /\ artifacts = NoArtifacts.artifacts
    /\ revisions = NoArtifacts.revisions
    /\ heads = NoArtifacts.heads
    /\ tabs = <<DefaultTab>> /\ active = FirstTab
    /\ request = None /\ review = None
    /\ window = "loading" /\ unsaved = 0
    /\ file = None
    /\ used = {} /\ revived = {} /\ saved = {}

TabStep == NewTab \/ QueryFills \/ \E t \in TabId : SetActiveTab(t) \/ Closes(t)

ArtifactStep ==
    \/ GraphBuilderTakes \/ CancelReview
    \/ \E i \in Id : \/ SnapshotQuery(i) \/ CreateChart(i) \/ CreateAnalysisChart(i)
                     \/ MakeReport(i) \/ OpenArtifact(i) \/ Remove(i)
                     \/ SaveDraft(i) \/ DiscardDraft(i) \/ RestoreRevision(i)
                     \/ StartReview(i) \/ ConfirmRefresh(i)
                     \/ \E new \in Id : DuplicateRevision(i, new)

SessionStep == AutoSave \/ LoadSucceeds \/ LoadFails \/ Restart

Next == TabStep \/ ArtifactStep \/ SessionStep

Spec == Init /\ [][Next]_vars

-----------------------------------------------------------------------------
\* Every artifact but one the graph builder made has a history, whose last revision
\* its head names; and where the head says unchanged, the draft is that revision,
\* after any sequence of refreshes, saves, discards, restores, copies and restarts
\* (WorkspaceStore.ts 900-1002).
DraftMatchesHead ==
    \A i \in Id \ revived : artifacts[i] # None =>
        /\ revisions[i] # << >>
        /\ heads[i].revision = Latest(revisions[i]).number
        /\ ~heads[i].changed => artifacts[i] = Latest(revisions[i]).artifact

\* An artifact of a session that was saved, and that nobody removed, is in the window
\* when it is ready, and in the file otherwise, unless a crash tore the file or it could
\* not be read: no save of a window that has not read the file takes it away
\* (App.tsx 207-225, 255-268).
WorkIsKept ==
    \A i \in saved :
        IF window = "ready" THEN artifacts[i] # None
                            ELSE file = Torn \/ (file # None /\ file.artifacts[i] # None)

\* A window that went blank comes back with a restart: the session in the file shows no
\* artifact that is gone; and the active tab is one of the tabs, if there are any, also
\* after a session of none (WorkspaceStore.ts 1042-1058 and 1153-1159, App.tsx 258-268).
SessionOpens ==
    /\ file \notin {None, Torn} => Settles(file.revisions, file.tabs, file.active)
    /\ tabs # << >> => active \in OpenTabs(tabs)

\* A refresh of the report that was reviewed replaces no draft that was not saved and
\* drops no source (ArtifactReportViewer.tsx 121-165).
RefreshLosesNothing ==
    [][\A i \in Id : ConfirmRefresh(i) /\ review = i =>
          ~heads[i].changed /\ artifacts'[i].sources = artifacts[i].sources]_vars
=============================================================================
