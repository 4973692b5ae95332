---------------------------- MODULE AppDocuments ----------------------------
(***************************************************************************)
(* The small documents of the window: rules, tools, snippets, chart        *)
(* presets, bookmarks, the history of queries, preferences and the choice  *)
(* of the provider (WorkspaceRuleStore.ts, UserToolStore.ts,               *)
(* SnippetStore.ts, ChartPresetStore.ts, QueryHistory.tsx,                 *)
(* AppPreferencesStore.ts, ai/types.ts on NativeJsonStore.ts).             *)
(*                                                                         *)
(* Each has a cache of its own, a native file and a backup in localStorage *)
(* that is there before the first save, and after a save that failed.      *)
(* They differ in when they read what, which is what goes wrong.  One      *)
(* behaviour is that of one document.  An item is a number, given to it    *)
(* by the edit that made it; preferences are the list of their edits.      *)
(*                                                                         *)
(* The native commands are synchronous: they are served, and answered, in  *)
(* the order of the calls, so an answer serves its call.                   *)
(***************************************************************************)
EXTENDS Naturals, Sequences, FiniteSets, SequencesExt

CONSTANTS
    Kinds,          \* the documents considered
    None,           \* no cache, no file, no backup
    Torn,           \* a file that was being written
    MaxHistory,     \* entries kept of the history: 200
    MaxEdits,       \* bound: edits
    MaxLoads,       \* bound: loads under way
    MaxFaults,      \* bound: native calls that fail
    MaxRestarts     \* bound: restarts

Hydrated == {"rules", "tools"}
Listed == {"snippets", "presets", "starred", "history"}
Values == {"preferences", "provider"}

DocumentsAssumption ==
    /\ Kinds \subseteq Hydrated \cup Listed \cup Values
    /\ None \notin Seq(Nat) /\ Torn \notin Seq(Nat)
    /\ MaxHistory \in Nat \ {0}
    /\ {MaxEdits, MaxLoads, MaxFaults, MaxRestarts} \subseteq Nat

VARIABLES
    kind,       \* the document
    cache,      \* the module's variable, or the store's list
    hydrated,   \* the store was loaded
    file,       \* the native file
    legacy,     \* the backup in localStorage
    queue,      \* native calls, not answered
    panel,      \* the panel that shows the list is open
    shown,      \* the panel's own copy
    edits,      \* number of edits
    wanted,     \* ghost: the list with every edit the user made
    known,      \* ghost: the cache comes from all that was stored
    excused,    \* ghost: what has happened that excuses a loss
    faults,     \* ghost: native calls that failed
    restarts    \* ghost: restarts

window == <<cache, hydrated, panel, shown>>
ghosts == <<wanted, known, excused, faults, restarts>>
vars == <<kind, window, file, legacy, queue, edits, ghosts>>

-----------------------------------------------------------------------------
Readable == file \notin {None, Torn}

\* What is there to be loaded, if nothing fails.
Stored == IF legacy # None THEN legacy ELSE IF Readable THEN file ELSE << >>

\* The list a module reads when it is asked for one at once: its cache, or the backup.
Cached == IF cache # None THEN cache ELSE IF legacy # None THEN legacy ELSE << >>

\* A call, and who awaits it: the open panel, another that ensures the list, or nobody.
Call(name, list, by) == [call |-> name, list |-> list, by |-> by]
SaveOf(list) == Call("save", list, "nobody")

IsNext(name) == queue # << >> /\ Head(queue).call = name
Pending(names) == {i \in DOMAIN queue : queue[i].call \in names}
Fails == faults < MaxFaults /\ faults' = faults + 1

\* A sync read that finds no file knows all there is.
Knows == known \/ (cache = None /\ ~Readable /\ queue = << >>)

-----------------------------------------------------------------------------
\* Loading.

\* The stores of rules and tools load once; a module of a list loads whenever a panel
\* asks, with its cache as the fallback.
EnsureLoaded ==
    /\ kind \in Hydrated /\ ~hydrated /\ queue = << >>
    /\ queue' = <<Call("load", IF legacy # None THEN legacy ELSE << >>, "another")>>
    /\ UNCHANGED <<kind, window, file, legacy, edits, ghosts>>

EnsureListLoaded(by) ==
    /\ Cardinality(Pending({"load"})) < MaxLoads
    /\ queue' = Append(queue, Call("load", Cached, by))
    /\ cache' = Cached

PanelOpens ==
    /\ kind \in Listed /\ ~panel
    /\ panel' = TRUE
    /\ shown' = Cached
    /\ EnsureListLoaded("panel")
    /\ known' = Knows
    /\ UNCHANGED <<kind, hydrated, file, legacy, edits, wanted, excused, faults, restarts>>

PanelCloses ==
    /\ panel /\ panel' = FALSE
    /\ queue' = [i \in DOMAIN queue |-> IF queue[i].by = "panel" THEN [queue[i] EXCEPT !.by = "another"]
                                                              ELSE queue[i]]
    /\ UNCHANGED <<kind, cache, hydrated, shown, file, legacy, edits, ghosts>>

\* A search, of the panel or the agent, reads the history.
SearchReadsHistory ==
    /\ kind = "history"
    /\ EnsureListLoaded("another")
    /\ known' = Knows
    /\ UNCHANGED <<kind, hydrated, panel, shown, file, legacy, edits, wanted, excused, faults, restarts>>

\* The first render of the window, or of the assistant, reads preferences at once; the
\* load asked for after it finds the cache filled and returns it.
FirstRender ==
    /\ kind \in Values /\ cache = None
    /\ cache' = Cached
    /\ known' = Knows
    /\ UNCHANGED <<kind, hydrated, panel, shown, file, legacy, queue, edits, wanted, excused, faults, restarts>>

\* An answer with the file; with no file, or none that can be read, the fallback is taken
\* and saved, and the panels of a list hear of it when that save is answered.
Takes(list) ==
    /\ cache' = list
    /\ hydrated' = (kind \in Hydrated)
    /\ known' = TRUE

LoadAnswered ==
    /\ IsNext("load") /\ Readable
    /\ Takes(file)
    /\ shown' = IF panel THEN file ELSE shown
    /\ queue' = Tail(queue)
    /\ excused' = IF legacy # None THEN excused \cup {"backup"} ELSE excused
    /\ UNCHANGED <<kind, panel, file, legacy, edits, wanted, faults, restarts>>

LoadFallsBack ==
    /\ IsNext("load")
    /\ \/ ~Readable /\ UNCHANGED <<excused, faults>>
       \/ Readable /\ Fails /\ excused' = excused \cup {"unread"}
    /\ Takes(Head(queue).list)
    /\ queue' = Append(Tail(queue), Call("save", Head(queue).list, Head(queue).by))
    /\ UNCHANGED <<kind, panel, shown, file, legacy, edits, wanted, restarts>>

-----------------------------------------------------------------------------
\* Saving.

\* The open panel takes the cache when a list is ensured, and then what it asked for.
PanelHears ==
    shown' = CASE panel /\ Head(queue).by = "panel" -> Head(queue).list
               [] panel /\ Head(queue).by = "another" -> cache
               [] OTHER -> shown

SaveAnswered ==
    /\ IsNext("save")
    /\ file' = Head(queue).list
    /\ legacy' = None
    /\ PanelHears
    /\ queue' = Tail(queue)
    /\ UNCHANGED <<kind, cache, hydrated, panel, edits, ghosts>>

\* Mutant: the backup is not written.
SaveFailsSilently ==
    /\ IsNext("save") /\ Fails
    /\ file' \in {file, Torn}
    /\ PanelHears
    /\ queue' = Tail(queue)
    /\ UNCHANGED <<kind, cache, hydrated, legacy, panel, edits, wanted, known, excused, restarts>>

\* The list goes to the backup; the file may be left half-written.
SaveFails ==
    /\ IsNext("save") /\ Fails
    /\ file' \in {file, Torn}
    /\ legacy' = Head(queue).list
    /\ PanelHears
    /\ queue' = Tail(queue)
    /\ UNCHANGED <<kind, cache, hydrated, panel, edits, wanted, known, excused, restarts>>

-----------------------------------------------------------------------------
\* Editing.

Edit == [do : {"add"}, at : {0}] \cup [do : {"remove", "change"}, at : 1 .. MaxEdits]

Puts(list, new) ==
    CASE kind \in {"rules", "snippets"} -> <<new>> \o list
      [] kind = "history" -> SubSeq(<<new>> \o list, 1, IF Len(list) < MaxHistory THEN Len(list) + 1 ELSE MaxHistory)
      [] OTHER -> Append(list, new)

\* filter: the entry with that id, which no other has.
Has(list, i) == \E k \in DOMAIN list : list[k] = i
Without(list, i) ==
    IF Has(list, i) THEN RemoveAt(list, CHOOSE k \in DOMAIN list : list[k] = i) ELSE list

Edited(list, e) ==
    CASE e.do = "add" -> Puts(list, edits + 1)
      [] e.do = "remove" -> Without(list, e.at)
      [] e.do = "change" -> [k \in DOMAIN list |-> IF list[k] = e.at THEN edits + 1 ELSE list[k]]

\* The list an edit starts from: that of the panel for presets and bookmarks.
Base == IF kind \in {"presets", "starred"} THEN shown ELSE Cached

MayEdit(e) ==
    /\ edits < MaxEdits
    /\ kind \in {"snippets", "presets", "starred"} => panel
    /\ e.do # "add" => kind \notin Values \cup {"history"} /\ Has(Base, e.at)
    /\ e.do = "change" => kind \in Hydrated \cup {"snippets"}

\* What excuses the loss of what an edit did, or did not start from.
Hurried ==
    (IF Knows THEN {} ELSE {"early"}) \cup
    (IF \E i \in DOMAIN queue : queue[i].by # "nobody" THEN {"raced"} ELSE {})

Edits(e) ==
    /\ MayEdit(e)
    /\ edits' = edits + 1
    /\ cache' = Edited(Base, e)
    /\ shown' = IF panel THEN Edited(Base, e) ELSE shown
    /\ queue' = Append(queue, SaveOf(Edited(Base, e)))
    /\ wanted' = Edited(wanted, e)
    /\ known' = Knows
    /\ excused' = excused \cup Hurried
    /\ UNCHANGED <<kind, hydrated, panel, file, legacy, faults, restarts>>

ClearHistory ==
    /\ kind = "history" /\ panel /\ edits < MaxEdits
    /\ edits' = edits + 1
    /\ cache' = << >> /\ shown' = << >> /\ wanted' = << >>
    /\ queue' = Append(queue, Call("delete", << >>, "panel"))
    /\ known' = TRUE
    /\ excused' = excused \cup (Hurried \ {"early"})
    /\ UNCHANGED <<kind, hydrated, panel, file, legacy, faults, restarts>>

\* The panel is emptied again; the backup goes also when the file could not be deleted.
DeleteAnswered ==
    /\ IsNext("delete")
    /\ \/ file' = None /\ UNCHANGED <<excused, faults>>
       \/ file # None /\ Fails /\ excused' = excused \cup {"undeleted"} /\ UNCHANGED file
    /\ legacy' = None
    /\ shown' = IF panel /\ Head(queue).by = "panel" THEN << >> ELSE shown
    /\ queue' = Tail(queue)
    /\ UNCHANGED <<kind, cache, hydrated, panel, edits, wanted, known, restarts>>

-----------------------------------------------------------------------------
\* The application is stopped with some calls served and none answered: the file is what
\* the last of them that writes made of it.
Served(i) == IF queue[i].call = "save" THEN queue[i].list ELSE None

Restart ==
    /\ restarts < MaxRestarts /\ restarts' = restarts + 1
    /\ file' \in {file} \cup {Served(i) : i \in Pending({"save", "delete"})}
    /\ queue' = << >>
    /\ cache' = None /\ hydrated' = FALSE /\ panel' = FALSE /\ shown' = << >>
    /\ UNCHANGED <<kind, legacy, edits, faults>>
    /\ known' = FALSE
    /\ wanted' = Stored'
    /\ excused' = IF legacy # None /\ Readable' THEN {"backup"} ELSE {}

Init ==
    /\ kind \in Kinds
    /\ cache = None /\ hydrated = FALSE
    /\ file = None /\ legacy \in {None, <<1>>}
    /\ queue = << >>
    /\ panel = FALSE /\ shown = << >>
    /\ edits = 1 /\ wanted = Stored
    /\ known = FALSE /\ excused = {} /\ faults = 0 /\ restarts = 0

Next ==
    \/ EnsureLoaded \/ PanelOpens \/ PanelCloses \/ SearchReadsHistory \/ FirstRender
    \/ LoadAnswered \/ LoadFallsBack
    \/ SaveAnswered \/ SaveFails
    \/ \E e \in Edit : Edits(e)
    \/ ClearHistory \/ DeleteAnswered
    \/ Restart

Spec == Init /\ [][Next]_vars

-----------------------------------------------------------------------------
\* Properties.

\* Once every call is answered, the file or the backup has the list with every edit, and
\* a module that has loaded works on that list, also after a save that failed and after a
\* restart.  It is excused after an edit made before, or while, the list was loaded, a
\* file that could not be read or deleted, and a backup beside a file that can be read.
ListIsKept ==
    (queue = << >> /\ excused = {}) => Stored = wanted /\ (known /\ cache # None => cache = wanted)
=============================================================================
