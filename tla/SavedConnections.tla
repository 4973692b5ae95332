--------------------------- MODULE SavedConnections ---------------------------
(***************************************************************************)
(* The list of saved connections and their passwords (ConnectionStore.ts,  *)
(* persistence.rs, db_connect, and the flows of App.tsx and                *)
(* ConnectionDialog.tsx that use them).  A connection is saved in three    *)
(* places: the native file, where the password in its connection string is *)
(* masked; the keychain of the operating system, which holds under one key *)
(* the whole configuration and under another the password alone; and the   *)
(* localStorage of the window, a fallback.  What a connection's string     *)
(* says of its password is all that is left of it here.                    *)
(*                                                                         *)
(* Tauri runs a command that is not async to its end, so one native call   *)
(* is one action.  A flow of the window is between two of its awaits.      *)
(***************************************************************************)
EXTENDS FiniteSets, Integers

CONSTANTS
    Id,           \* saved connections
    Password,     \* passwords a server may ask for
    Caller,       \* flows the user may have under way, besides the restore of each connection
    MaxUses,      \* bound: flows the user starts
    MaxChanges,   \* bound: times a server changes its password
    MaxFaults,    \* bound: calls of the keychain or the disk that fail
    MaxRestarts,  \* bound: restarts of the program
    None,         \* nothing there
    Masked,       \* the password reads "***"
    Blank         \* the string has no password

SavedAssumption ==
    /\ Id \cap Caller = {}
    /\ {None, Masked, Blank} \cap Password = {}
    /\ Cardinality({None, Masked, Blank}) = 3
    /\ {MaxUses, MaxChanges, MaxFaults, MaxRestarts} \subseteq Nat

VARIABLES
    file,         \* the native file: saved connections, as it shows their password
    torn,         \* the program ended while it wrote the file
    vault,        \* keychain: password in the stored configuration
    entry,        \* keychain: the password stored alone
    local,        \* localStorage
    connections,  \* the connections of the workspace store, with the string they came with
    server,       \* the password each server asks for
    flow,         \* what each flow of the window awaits
    uses, changes, faults, restarts,   \* counted against the bounds
    last,         \* ghost: the password each server accepted last
    excuse        \* ghost: why a connection may be lost, or its password old: a removal
                  \* "emptied" the list, a save "overlooked" it, a save "failed", or another
                  \* flow "crossed" the one that brought its new password

disk == <<file, torn, vault, entry>>
counters == <<uses, changes, faults, restarts>>
ghosts == <<last, excuse>>
vars == <<disk, local, connections, server, flow, counters, ghosts>>

Flow == Id \cup Caller
Field == Password \cup {Masked, Blank}
Listed(list) == {i \in Id : list[i] # None}
Nowhere == [i \in Id |-> None]
Idle == [do |-> "idle"]

Excuses(S, e) == excuse' = [i \in Id |-> IF i \in S THEN excuse[i] \cup {e} ELSE excuse[i]]

\* A native call or a keychain call of the window fails in this step.
Fails ==
    /\ faults < MaxFaults
    /\ faults' = faults + 1

Init ==
    /\ file = Nowhere /\ local = Nowhere /\ connections = Nowhere
    /\ vault = Nowhere /\ entry = Nowhere
    /\ server \in [Id -> Password]
    /\ flow = [f \in Flow |-> Idle]
    /\ uses = 0 /\ changes = 0 /\ faults = 0 /\ restarts = 0
    /\ torn = FALSE
    /\ last = Nowhere
    /\ excuse = [i \in Id |-> {}]

-----------------------------------------------------------------------------
(* The native side.                                                        *)

\* Mutant: "***" is taken for a password.
EffectiveTrustsMask(i, field) ==
    IF field # Blank THEN field ELSE IF vault[i] # None THEN vault[i] ELSE entry[i]

\* merge_with_stored_secret: what a configuration with this field stands for.
Effective(i, field) ==
    IF field \in Password THEN field
    ELSE IF vault[i] # None THEN vault[i]
    ELSE IF field = Blank /\ entry[i] # None THEN entry[i]
    ELSE field

\* sanitize_connection_config: what the file shows.
Shown(field) == IF field = Blank THEN Blank ELSE Masked

\* The connections of the list whose configuration is stored in the keychain.
Secrets(list) == {i \in Listed(list) : Effective(i, list[i]) \in Password}
Gone(list) == Listed(file) \ Listed(list)

\* store_connection_secret and delete_connection_secret, for as many as the call came to.
Keeps(list, stored, deleted) ==
    /\ vault' = [i \in Id |-> IF i \in stored THEN Effective(i, list[i])
                              ELSE IF i \in deleted THEN None ELSE vault[i]]
    /\ entry' = [i \in Id |-> IF i \in stored THEN Effective(i, list[i])
                              ELSE IF i \in deleted THEN None ELSE entry[i]]

\* save_connections: secrets first, then those of the connections that left, then the file.
\* It begins by reading the file, which must be whole.
SaveConnections(list) ==
    /\ ~torn
    /\ Keeps(list, Secrets(list), Gone(list))
    /\ file' = [i \in Id |-> IF list[i] = None THEN None ELSE Shown(list[i])]
    /\ UNCHANGED <<torn, faults>>

\* The same, ending with an error in between.
SaveConnectionsFails(list) ==
    /\ IF torn THEN UNCHANGED <<vault, entry, faults>>
       ELSE /\ Fails
            /\ \/ \E stored \in SUBSET Secrets(list) : Keeps(list, stored, {})
               \/ \E deleted \in SUBSET Gone(list) : Keeps(list, Secrets(list), deleted)
    /\ UNCHANGED <<file, torn>>

\* load_connections, and what loadSavedConnectionsAsync makes of it.
SavedList == IF torn \/ Listed(file) = {} THEN local ELSE file

-----------------------------------------------------------------------------
(* Saving the list.                                                        *)

Becomes(f, r) == flow' = [flow EXCEPT ![f] = r]

\* persistConnections up to its first await.
Persist(i, list) == [do |-> "persist", id |-> i, list |-> list, got |-> list, left |-> Listed(list)]

\* keychainLoad, for a string without a password.
LooksUp(f, i) ==
    /\ flow[f].do = "persist" /\ i \in flow[f].left
    /\ flow[f].got[i] = Blank
    /\ \/ /\ entry[i] # None
          /\ Becomes(f, [flow[f] EXCEPT !.got[i] = entry[i]])
          /\ UNCHANGED faults
       \/ /\ IF entry[i] = None THEN UNCHANGED faults ELSE Fails
          /\ Becomes(f, [flow[f] EXCEPT !.left = @ \ {i}])
    /\ UNCHANGED <<disk, local, connections, server, uses, changes, restarts, ghosts>>

\* keychainSave: a string that reads "***" is a password too.
SavesPassword(f, i) ==
    /\ flow[f].do = "persist" /\ i \in flow[f].left
    /\ flow[f].got[i] # Blank
    /\ \/ /\ entry' = [entry EXCEPT ![i] = flow[f].got[i]]
          /\ LET kept == [flow[f] EXCEPT !.list[i] = flow[f].got[i]]
             IN  Becomes(f, [kept EXCEPT !.left = @ \ {i}])
          /\ UNCHANGED faults
       \/ /\ Fails
          /\ Becomes(f, [flow[f] EXCEPT !.left = @ \ {i}])
          /\ UNCHANGED entry
    /\ UNCHANGED <<file, torn, vault, local, connections, server, uses, changes, restarts, ghosts>>

\* restoreSavedConnections: the flows after a start that loaded this list.
Starts(loaded) ==
    flow' = [f \in Flow |-> IF f \in Id /\ loaded[f] # None
                            THEN [do |-> "restore", saved |-> loaded[f]] ELSE Idle]

\* The native call of persistConnections and what follows its answer.
SavesList(f) ==
    /\ flow[f].do = "persist" /\ flow[f].left = {}
    /\ LET list == flow[f].list IN
       \/ /\ SaveConnections(list)
          /\ local' = Nowhere
          /\ Excuses((Listed(file) \cup Listed(connections)) \ (Listed(list) \cup {flow[f].id}), "overlooked")
       \/ /\ SaveConnectionsFails(list)
          /\ local' = [i \in Id |-> IF list[i] = None THEN None ELSE Blank]
          /\ Excuses(Id, "failed")
    /\ Becomes(f, Idle)
    /\ UNCHANGED <<connections, server, uses, changes, restarts, last>>

\* The program ends while the file is written.
EndsInSave(f) ==
    /\ flow[f].do = "persist" /\ flow[f].left = {} /\ ~torn
    /\ restarts < MaxRestarts
    /\ restarts' = restarts + 1
    /\ Keeps(flow[f].list, Secrets(flow[f].list), Gone(flow[f].list))
    /\ torn' = TRUE
    /\ connections' = Nowhere
    /\ Starts(local)
    /\ Excuses(Id, "failed")
    /\ UNCHANGED <<file, local, server, uses, changes, faults, last>>

-----------------------------------------------------------------------------
(* Connecting.                                                             *)

\* loadConnectionWithPassword: the saved string with the password of the keychain; the plain
\* string when there is none, or the keychain does not answer.
Hydrated(i, saved) == IF entry[i] # None THEN entry[i] ELSE saved

\* A flow calls db_connect, which reads the keychain at once.
Connect(f, i, field, kind) ==
    Becomes(f, [do |-> "connect", kind |-> kind, id |-> i, field |-> field,
                with |-> Effective(i, field), seen |-> connections])

ReadsAndConnects(f, i, saved, kind) ==
    \/ /\ Connect(f, i, Hydrated(i, saved), kind)
       /\ UNCHANGED faults
    \/ /\ entry[i] # None
       /\ Connect(f, i, saved, kind)
       /\ Fails

UserStarts(f) ==
    /\ f \in Caller /\ flow[f] = Idle
    /\ uses < MaxUses
    /\ uses' = uses + 1

\* The dialog connects, or tests, with a password the user typed.
TypesPassword(f) ==
    /\ UserStarts(f)
    /\ \E i \in Id, p \in Password, kind \in {"new", "test"} : Connect(f, i, p, kind)
    /\ UNCHANGED <<disk, local, connections, server, changes, faults, restarts, ghosts>>

\* handleQuickConnect: a saved connection of the list.
QuickConnect(f) ==
    /\ UserStarts(f)
    /\ \E i \in Listed(SavedList) : ReadsAndConnects(f, i, SavedList[i], "new")
    /\ UNCHANGED <<disk, local, connections, server, changes, restarts, ghosts>>

\* restoreSavedConnections, once for each connection of the loaded list.
RestoreConnects(i) ==
    /\ flow[i].do = "restore"
    /\ ReadsAndConnects(i, i, flow[i].saved, "restore")
    /\ UNCHANGED <<disk, local, connections, server, uses, changes, restarts, ghosts>>

\* Another flow has the connection, with the password it had before.
Carried(f, i) ==
    \E g \in Flow \ {f} :
        \/ flow[g].do = "persist" /\ flow[g].list[i] # None
        \/ flow[g].do = "connect" /\ (flow[g].id = i \/ flow[g].seen[i] # None)

\* handleConnect: the connections its render saw, and the new one.
NextConnections(f) == [flow[f].seen EXCEPT ![flow[f].id] = flow[f].field]

\* The server takes the password: db_connect stores the configuration, and the window adds
\* the connection to its store; handleConnect saves the list it saw when the flow began.
Connects(f) ==
    /\ flow[f].do = "connect"
    /\ LET i == flow[f].id IN
       /\ flow[f].with = server[i]
       /\ vault' = [vault EXCEPT ![i] = flow[f].with]
       /\ entry' = [entry EXCEPT ![i] = flow[f].with]
       /\ connections' = [connections EXCEPT ![i] = IF flow[f].kind = "test" THEN @ ELSE flow[f].field]
       /\ Becomes(f, IF flow[f].kind = "new"
                     THEN Persist(i, NextConnections(f))
                     ELSE Idle)
       /\ last' = [last EXCEPT ![i] = flow[f].with]
       /\ Excuses({j \in {i} : flow[f].with # last[i] /\ (Carried(f, i) \/ connections'[i] # flow[f].field)},
                  "crossed")
    /\ UNCHANGED <<file, torn, local, server, counters>>

\* The server takes the password and the keychain does not, or half of it: db_connect fails.
ConnectsUnkept(f) ==
    /\ flow[f].do = "connect"
    /\ LET i == flow[f].id IN
       /\ flow[f].with = server[i]
       /\ Fails
       /\ vault' \in {vault, [vault EXCEPT ![i] = flow[f].with]}
       /\ last' = [last EXCEPT ![i] = flow[f].with]
       /\ Excuses({i}, "failed")
    /\ Becomes(f, Idle)
    /\ UNCHANGED <<file, torn, entry, local, connections, server, uses, changes, restarts>>

\* The server refuses, or does not answer.
Refused(f) ==
    /\ flow[f].do = "connect"
    /\ Becomes(f, Idle)
    /\ UNCHANGED <<disk, local, connections, server, counters, ghosts>>

-----------------------------------------------------------------------------
(* Removing.                                                               *)

\* removeConnection: filters the list of localStorage and saves that.
RemoveConnection(i) ==
    LET rest == [local EXCEPT ![i] = None] IN
    /\ local' = rest
    /\ \/ /\ SaveConnections(rest)
          /\ Excuses({i} \cup Listed(file), "emptied")
       \/ /\ SaveConnectionsFails(rest)
          /\ Excuses(Id, "failed")
    /\ UNCHANGED last

\* handleDisconnect in the sidebar.
Disconnect(i) ==
    /\ uses < MaxUses /\ connections[i] # None
    /\ uses' = uses + 1
    /\ connections' = [connections EXCEPT ![i] = None]
    /\ RemoveConnection(i)
    /\ UNCHANGED <<server, flow, changes, restarts>>

\* handleRemoveSaved in the dialog.
RemoveSaved(i) ==
    /\ uses < MaxUses /\ file[i] # None
    /\ uses' = uses + 1
    /\ RemoveConnection(i)
    /\ UNCHANGED <<connections, server, flow, changes, restarts>>

-----------------------------------------------------------------------------
\* The program ends and starts again; loadSavedConnectionsAsync moves the list of
\* localStorage into an empty file.
Restart ==
    /\ restarts < MaxRestarts
    /\ restarts' = restarts + 1
    /\ connections' = Nowhere
    /\ IF Listed(file) = {} /\ Listed(local) # {} /\ ~torn
       THEN SaveConnections(local) \/ SaveConnectionsFails(local)
       ELSE UNCHANGED <<disk, faults>>
    /\ Starts(SavedList)
    /\ UNCHANGED <<local, server, uses, changes, ghosts>>

ServerChanges(i) ==
    /\ changes < MaxChanges
    /\ changes' = changes + 1
    /\ \E p \in Password \ {server[i]} : server' = [server EXCEPT ![i] = p]
    /\ UNCHANGED <<disk, local, connections, flow, uses, faults, restarts, ghosts>>

Next ==
    \/ \E f \in Flow : \/ \E i \in Id : LooksUp(f, i) \/ SavesPassword(f, i)
                       \/ SavesList(f) \/ EndsInSave(f)
                       \/ TypesPassword(f) \/ QuickConnect(f)
                       \/ Connects(f) \/ ConnectsUnkept(f) \/ Refused(f)
    \/ \E i \in Id : RestoreConnects(i) \/ Disconnect(i) \/ RemoveSaved(i) \/ ServerChanges(i)
    \/ Restart

Spec == Init /\ [][Next]_vars

-----------------------------------------------------------------------------
(* Properties.                                                             *)

\* A saved connection can be opened again with the password its server accepted last: what
\* the window makes of the file and the keychain, "***" or nothing, db_connect completes.
\* Only a half-done or a crossing save, or one that left the connection out, may break it.
SavedReconnects ==
    \A i \in Id : SavedList[i] # None /\ last[i] # None /\ excuse[i] = {} =>
        \A field \in {SavedList[i], Hydrated(i, SavedList[i])} : Effective(i, field) = last[i]
=============================================================================
