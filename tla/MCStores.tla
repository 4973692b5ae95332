------------------------------ MODULE MCStores -------------------------------
(***************************************************************************)
(* The five small stores for TLC: the agent's memory, saved connections,   *)
(* documents of the window, the Google sign-in and the key of a provider.  *)
(* They share no file, no key of the keychain and no call, so a behaviour  *)
(* is that of one of them: what holds of each alone holds of all together. *)
(***************************************************************************)
EXTENDS Harness

CONSTANTS
    Id, Password, Caller, Masked, Blank, MaxUses, MaxChanges,      \* SavedConnections
    Kinds, Torn, MaxHistory, MaxEdits, MaxLoads,                   \* AppDocuments
    Place, Loader, MaxAttempts, MaxReads, MaxStray,                         \* GoogleSignIn
    MaxTyped, MaxOpens, MaxKeyFaults,                              \* ApiKeys
    MaxRestarts

VARIABLES
    store,      \* the one this behaviour is about
    savedFile, torn, vault, entry, local, connections, savedServer, savedFlow, uses,
    changes, savedFaults, savedRestarts, last, excuse,
    kind, cache, hydrated, docFile, docLegacy, queue, panel, docShown, docEdits,
    docWanted, known, docExcused, docFaults, docRestarts,
    signFlow, signServer, pages, reader, writes, signKeychain, signBackup, attempts,
    signLoads, signFaults, strays, signRestarts, signedIn, mixed,
    keyKeychain, keyBackup, keyLegacy, form, held, keyLoads, saves, keyEdits, opens,
    keyFaults, keyWanted, keyExcused

saved == <<savedFile, torn, vault, entry, local, connections, savedServer, savedFlow, uses,
           changes, savedFaults, savedRestarts, last, excuse>>
documents == <<kind, cache, hydrated, docFile, docLegacy, queue, panel, docShown, docEdits,
               docWanted, known, docExcused, docFaults, docRestarts>>
signIn == <<signFlow, signServer, pages, reader, writes, signKeychain, signBackup, attempts,
            signLoads, signFaults, strays, signRestarts, signedIn, mixed>>
keys == <<keyKeychain, keyBackup, keyLegacy, form, held, keyLoads, saves, keyEdits, opens,
          keyFaults, keyWanted, keyExcused>>

Saved == INSTANCE SavedConnections WITH
    file <- savedFile, server <- savedServer, flow <- savedFlow,
    faults <- savedFaults, restarts <- savedRestarts

Docs == INSTANCE AppDocuments WITH
    file <- docFile, legacy <- docLegacy, shown <- docShown, edits <- docEdits,
    wanted <- docWanted, excused <- docExcused, faults <- docFaults, restarts <- docRestarts

Google == INSTANCE GoogleSignIn WITH
    flow <- signFlow, server <- signServer, keychain <- signKeychain, backup <- signBackup,
    loads <- signLoads, faults <- signFaults, restarts <- signRestarts, MaxLoads <- MaxReads

Keys == INSTANCE ApiKeys WITH
    keychain <- keyKeychain, backup <- keyBackup, legacy <- keyLegacy, loads <- keyLoads,
    edits <- keyEdits, faults <- keyFaults, wanted <- keyWanted, excused <- keyExcused,
    MaxEdits <- MaxTyped, MaxFaults <- MaxKeyFaults

ASSUME StoresAssumption ==
    Saved!SavedAssumption /\ Docs!DocumentsAssumption /\ Google!SignInAssumption /\ Keys!KeysAssumption

\* The ids of episodes and edges.
Episodes == Session \X {"stored", "inserted"}
Edges == Tool \X {"queried", "success", "failure"}

\* A store that is not looked at begins in one way only.
StoresInit ==
    /\ store \in {"memory", "saved", "documents", "signIn", "keys"}
    /\ Init /\ Saved!Init /\ Docs!Init /\ Google!Init /\ Keys!Init
    /\ store # "saved" => savedServer = [i \in Id |-> CHOOSE p \in Password : TRUE]
    /\ store # "documents" => kind = (CHOOSE k \in Kinds : TRUE) /\ docLegacy = None
    /\ store # "keys" => keyLegacy = 0

\* Edges and outcomes are rows of different tables: the bound lets one kind be written.
EdgesOrOutcomes == updates = 0 \/ \A s \in Session : used[s] = <<>>

StoresNext ==
    /\ UNCHANGED store
    /\ \/ store = "memory" /\ Next /\ EdgesOrOutcomes' /\ UNCHANGED <<saved, documents, signIn, keys>>
       \/ store = "saved" /\ Saved!Next /\ UNCHANGED <<vars, documents, signIn, keys>>
       \/ store = "documents" /\ Docs!Next /\ UNCHANGED <<vars, saved, signIn, keys>>
       \/ store = "signIn" /\ Google!Next /\ UNCHANGED <<vars, saved, documents, keys>>
       \/ store = "keys" /\ Keys!Next /\ UNCHANGED <<vars, saved, documents, signIn>>

StoresSpec == StoresInit /\ [][StoresNext]_<<store, vars, saved, documents, signIn, keys>>

\* What each promises, as its module states it.
SavedReconnects == Saved!SavedReconnects

\* The documents keep every edit.
ListIsKept == Docs!ListIsKept

\* A sign-in lasts until the operator disconnects.
SignedInStays == Google!SignedInStays

\* The key saved last is the key found.
KeyIsFound == Keys!KeyIsFound
=============================================================================
