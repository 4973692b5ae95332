------------------------------- MODULE ApiKeys -------------------------------
(***************************************************************************)
(* The key of one AI provider: in the keychain, in a backup in             *)
(* localStorage, in the form of the settings dialog and in the assistant   *)
(* (lib/ai/types.ts, ProviderSettingsDialog.tsx, KeySetupWizard.tsx,       *)
(* AIChat.tsx, the key commands of persistence.rs).                        *)
(*                                                                         *)
(* Saving writes the backup and asks the keychain; loading prefers the     *)
(* keychain.  The native commands are asynchronous, and answered in any    *)
(* order.  A key is the number of the edit that typed it; 0 is no key.     *)
(***************************************************************************)
EXTENDS Naturals

CONSTANTS
    MaxEdits,       \* bound: keys typed
    MaxOpens,       \* bound: times the dialog is opened or the assistant mounted
    MaxFaults       \* bound: keychain calls that fail

KeysAssumption == {MaxEdits, MaxOpens, MaxFaults} \subseteq Nat

VARIABLES
    keychain, backup,
    legacy,     \* the key under its older name in localStorage
    form,       \* the dialog: open, its key and whether it has one, being saved
    held,       \* the assistant's copy
    loads,      \* loads asked for, by the start of the window, the assistant or the dialog
    saves,      \* keychain writes not served: who asked, and the key
    edits, opens, faults,
    wanted,     \* ghost: the key the user saved last
    excused     \* ghost: what has happened that may cost the key

counters == <<edits, opens, faults>>
vars == <<keychain, backup, legacy, form, held, loads, saves, counters, wanted, excused>>

NoKey == 0
Closed == [open |-> FALSE, has |-> FALSE, key |-> NoKey, saving |-> FALSE]

\* What a load finds, in the order it looks.
Found(inKeychain) ==
    IF inKeychain # NoKey THEN inKeychain ELSE IF backup # NoKey THEN backup ELSE legacy

\* saveApiKeyToKeychain up to its await.
Saves(who, key) ==
    /\ backup' = key
    /\ saves' = saves \cup {[who |-> who, key |-> key]}
    /\ excused' = IF saves = {} THEN excused ELSE excused \cup {"overlap"}

Asks(who) ==
    /\ opens < MaxOpens /\ opens' = opens + 1
    /\ loads' = loads \cup {who}
    /\ UNCHANGED <<keychain, backup, legacy, held, saves, edits, faults, wanted, excused>>

AssistantMounts == "assistant" \notin loads /\ Asks("assistant") /\ UNCHANGED form

DialogOpens ==
    /\ ~form.open /\ "dialog" \notin loads
    /\ form' = [form EXCEPT !.open = TRUE]
    /\ Asks("dialog")

\* A load is answered: the keychain has failed, or it counts.  A key under the older name
\* is saved under the new one.  The dialog takes all it loads; the assistant adds it.
Loaded(who) ==
    /\ who \in loads /\ loads' = loads \ {who}
    /\ \E inKeychain \in {keychain} \cup (IF faults < MaxFaults THEN {NoKey} ELSE {}) :
         LET key == Found(inKeychain)
         IN  /\ faults' = IF inKeychain = keychain THEN faults ELSE faults + 1
             /\ IF inKeychain = NoKey /\ backup = NoKey /\ legacy # NoKey
                  THEN Saves("migration", key) /\ legacy' = NoKey
                  ELSE UNCHANGED <<backup, saves, excused, legacy>>
             /\ form' = IF who = "dialog" THEN [form EXCEPT !.has = (key # NoKey), !.key = key] ELSE form
             /\ held' = IF who = "assistant" /\ key # NoKey THEN key ELSE held
    /\ UNCHANGED <<keychain, edits, opens, wanted>>

\* The user types a key, or empties the field.
Types(key) ==
    /\ form.open /\ ~form.saving /\ edits < MaxEdits /\ key \in {NoKey, edits + 1}
    /\ edits' = edits + 1
    /\ form' = [form EXCEPT !.has = TRUE, !.key = key]
    /\ excused' = IF loads = {} THEN excused ELSE excused \cup {"typed"}
    /\ UNCHANGED <<keychain, backup, legacy, held, loads, saves, opens, faults, wanted>>

\* handleSave: the key of the form, if it has one.
FormSaves ==
    /\ form.open /\ ~form.saving /\ form.has
    /\ Saves("form", form.key)
    /\ form' = [form EXCEPT !.saving = TRUE]
    /\ wanted' = form.key
    /\ UNCHANGED <<keychain, legacy, held, loads, counters>>

\* The wizard, over the dialog or on the welcome screen, which is shown when the load of
\* the start found no key, saves the key it is given.
WizardSaves ==
    /\ "start" \notin loads
    /\ edits < MaxEdits /\ edits' = edits + 1
    /\ \A s \in saves : s.who # "wizard"
    /\ Saves("wizard", edits + 1)
    /\ wanted' = edits + 1
    /\ UNCHANGED <<keychain, legacy, form, held, loads, opens, faults>>

DialogCloses ==
    /\ form.open /\ ~form.saving
    /\ form' = [form EXCEPT !.open = FALSE]
    /\ UNCHANGED <<keychain, backup, legacy, held, loads, saves, counters, wanted, excused>>

\* The keychain has written, or failed, which nobody hears; the form closes and hands its
\* key to the assistant, the wizard hands its key to the form.
Hands(s) ==
    /\ form' = CASE s.who = "form" -> [form EXCEPT !.open = FALSE, !.saving = FALSE]
                 [] s.who = "wizard" /\ form.open -> [form EXCEPT !.has = TRUE, !.key = s.key]
                 [] OTHER -> form
    /\ held' = IF s.who = "form" THEN s.key ELSE held

\* Mutant: the backup is dropped once the keychain was asked.
StoredDropsBackup(s) ==
    /\ saves' = saves \ {s} /\ backup' = NoKey
    /\ \/ keychain' = s.key /\ UNCHANGED <<faults, excused>>
       \/ /\ faults < MaxFaults /\ faults' = faults + 1 /\ UNCHANGED keychain
          /\ excused' = IF keychain = NoKey THEN excused ELSE excused \cup {"failed"}
    /\ Hands(s)
    /\ UNCHANGED <<legacy, loads, edits, opens, wanted>>

Stored(s) ==
    /\ saves' = saves \ {s}
    /\ \/ keychain' = s.key /\ UNCHANGED <<faults, excused>>
       \/ /\ faults < MaxFaults /\ faults' = faults + 1 /\ UNCHANGED keychain
          /\ excused' = IF keychain = NoKey THEN excused ELSE excused \cup {"failed"}
    /\ Hands(s)
    /\ UNCHANGED <<backup, legacy, loads, edits, opens, wanted>>

\* The window is closed and opened again; of the keychain writes any may be served.
Restart ==
    /\ opens < MaxOpens /\ opens' = opens + 1
    /\ saves' = {} /\ loads' = {"start"} /\ form' = Closed /\ held' = NoKey
    /\ keychain' \in {keychain} \cup {s.key : s \in saves}
    /\ excused' = IF saves = {} THEN excused ELSE excused \cup {"overlap"}
    /\ UNCHANGED <<backup, legacy, edits, faults, wanted>>

Init ==
    /\ keychain = NoKey /\ backup = NoKey
    /\ legacy \in {NoKey, 1} /\ edits = 1 /\ wanted = legacy
    /\ form = Closed /\ held = NoKey
    /\ loads = {"start"} /\ saves = {} /\ opens = 0 /\ faults = 0 /\ excused = {}

Next ==
    \/ AssistantMounts \/ DialogOpens \/ DialogCloses
    \/ \E who \in {"start", "assistant", "dialog"} : Loaded(who)
    \/ \E key \in 0 .. MaxEdits : Types(key)
    \/ FormSaves \/ WizardSaves
    \/ \E s \in saves : Stored(s)
    \/ Restart

Spec == Init /\ [][Next]_vars

-----------------------------------------------------------------------------
\* Properties.

\* The key saved last is the key the next load finds, also when the keychain fails before
\* it ever held one, and when an older name is migrated.  Excused are a key typed while a
\* load is under way, two saves at a time, and a keychain that failed and holds an older
\* key.
KeyIsFound == (saves = {} /\ excused = {}) => Found(keychain) = wanted
=============================================================================
