---------------------------- MODULE StoresProofs -----------------------------
(***************************************************************************)
(* What the small stores promise, for any values of their constants: a     *)
(* saved connection, the key of a provider and a Google sign-in are found  *)
(* again, a document keeps every edit, and the agent's memory is what the  *)
(* calls that ended made it.                                               *)
(***************************************************************************)
EXTENDS MCStores, TLAPS, FiniteSetTheorems, SequenceTheorems, WellFoundedInduction

-----------------------------------------------------------------------------
(* Saved connections.                                                      *)

\* What a string may say of its password, and what the file shows of it.
Word == Password \cup {Masked, Blank}
Veiled == {None, Masked, Blank}
Lists == [Id -> Word \cup {None}]

\* A string of a connection whose server took p last: no other password.
Agrees(word, p) == word \in Veiled \cup {p}

Restoring == [do : {"restore"}, saved : {Masked, Blank}]
Connecting == [do : {"connect"}, kind : {"new", "test", "restore"}, id : Id, field : Word,
               with : Word, seen : Lists]
Persisting == [do : {"persist"}, id : Id, list : Lists, got : Lists, left : SUBSET Id]

\* A flow of the window.
FlowShape(r) ==
    \/ r = Saved!Idle
    \/ r \in Restoring /\ r.saved # None
    \/ r \in Connecting /\ r.field # None /\ (r.field \in Password => r.with = r.field)
    \/ /\ r \in Persisting /\ r.list[r.id] # None
       /\ \A i \in Id : r.got[i] = None <=> r.list[i] = None
       /\ \A i \in r.left : r.got[i] # None

SavedTyped ==
    /\ savedFile \in [Id -> Veiled] /\ local \in [Id -> Veiled]
    /\ vault \in [Id -> Password \cup {None}]
    /\ entry \in [Id -> Password \cup {None, Masked}]
    /\ connections \in Lists
    /\ savedServer \in [Id -> Password]
    /\ last \in [Id -> Password \cup {None}]
    /\ DOMAIN excuse = Id
    /\ DOMAIN savedFlow = Saved!Flow

\* The connection has been open, and nothing excuses it.
Counts(i) == last[i] # None /\ excuse[i] = {}

\* What a flow carries of i.
FlowAgrees(r, i, p) ==
    /\ r.do = "connect" => Agrees(r.seen[i], p)
    /\ r.do = "persist" => Agrees(r.list[i], p) /\ Agrees(r.got[i], p)

\* Everything that has the password of i has the one its server took last.
PlacesKeep(i) ==
    /\ vault[i] = last[i] /\ entry[i] \in {Masked, last[i]}
    /\ Agrees(connections[i], last[i])
PasswordKept(i) == PlacesKeep(i) /\ \A f \in Saved!Flow : FlowAgrees(savedFlow[f], i, last[i])

SavedInv ==
    /\ SavedTyped
    /\ \A f \in Saved!Flow : FlowShape(savedFlow[f])
    /\ \A i \in Id : Counts(i) => PasswordKept(i)

LEMMA InitSaved == Saved!SavedAssumption /\ Saved!Init => SavedInv
BY DEF Saved!Init, Saved!SavedAssumption, Saved!Nowhere, Saved!Idle, SavedInv, SavedTyped, Counts,
       FlowShape, Veiled, Lists, Saved!Idle

\* A step of one flow that leaves the rest alone.
LEMMA FlowMoves ==
    ASSUME SavedInv, NEW f \in Saved!Flow, NEW r, Saved!Becomes(f, r), FlowShape(r),
           \A i \in Id : Counts(i) => FlowAgrees(r, i, last[i]),
           UNCHANGED <<savedFile, local, vault, entry, connections, last, excuse>>,
           savedServer' \in [Id -> Password]
    PROVE  SavedInv'
<1>1. savedFlow' = [savedFlow EXCEPT ![f] = r]
  BY DEF Saved!Becomes
<1>2. SavedTyped' /\ \A g \in Saved!Flow : FlowShape(savedFlow'[g])
  BY <1>1 DEF SavedInv, SavedTyped
<1>3. ASSUME NEW i \in Id, Counts(i)' PROVE PasswordKept(i)'
  <2>1. Counts(i) /\ PasswordKept(i)
    BY <1>3 DEF SavedInv, Counts
  <2> QED
    BY <2>1, <1>1 DEF SavedInv, SavedTyped, PasswordKept, PlacesKeep
<1> QED
  BY <1>2, <1>3 DEF SavedInv

LEMMA EffectiveWord ==
    ASSUME SavedTyped, NEW i \in Id, NEW word \in Word
    PROVE  /\ Saved!Effective(i, word) \in Word
           /\ word \in Password => Saved!Effective(i, word) = word
BY DEF Saved!Effective, SavedTyped, Word

\* A flow begins to connect.
LEMMA ConnectCalled ==
    ASSUME SavedInv, NEW f \in Saved!Flow, NEW i \in Id, NEW word \in Word, word # None,
           NEW how \in {"new", "test", "restore"}, Saved!Connect(f, i, word, how),
           UNCHANGED <<savedFile, local, vault, entry, connections, savedServer, last, excuse>>
    PROVE  SavedInv'
<1> DEFINE r == [do |-> "connect", kind |-> how, id |-> i, field |-> word,
                 with |-> Saved!Effective(i, word), seen |-> connections]
<1>1. Saved!Becomes(f, r)
  BY DEF Saved!Connect
<1>2. r \in Connecting /\ (r.field \in Password => r.with = r.field) /\ r.seen = connections
      /\ r.do = "connect" /\ r.field = word
  BY EffectiveWord DEF SavedInv, SavedTyped, Connecting
<1> HIDE DEF r
<1>3. FlowShape(r)
  BY <1>2 DEF FlowShape
<1>4. \A j \in Id : Counts(j) => FlowAgrees(r, j, last[j])
  BY <1>2 DEF FlowAgrees, SavedInv, PasswordKept, PlacesKeep
<1> QED
  BY <1>1, <1>3, <1>4, FlowMoves DEF SavedInv, SavedTyped

LEMMA ReadAndConnected ==
    ASSUME SavedInv, NEW f \in Saved!Flow, NEW i \in Id, NEW word \in Veiled, word # None,
           NEW how \in {"new", "restore"}, Saved!ReadsAndConnects(f, i, word, how),
           UNCHANGED <<savedFile, local, vault, entry, connections, savedServer, last, excuse>>
    PROVE  SavedInv'
<1>1. PICK w \in {Saved!Hydrated(i, word), word} : Saved!Connect(f, i, w, how)
  BY DEF Saved!ReadsAndConnects
<1>2. w \in Word /\ w # None
  BY DEF Saved!Hydrated, SavedInv, SavedTyped, Word, Veiled
<1> QED
  BY <1>1, <1>2, ConnectCalled

LEMMA SavedListShape == SavedTyped => Saved!SavedList \in [Id -> Veiled]
BY DEF SavedTyped, Saved!SavedList

LEMMA BeginsSaved ==
    ASSUME Saved!SavedAssumption, SavedInv, NEW f \in Saved!Flow,
           Saved!TypesPassword(f) \/ Saved!QuickConnect(f)
    PROVE  SavedInv'
<1>1. CASE Saved!TypesPassword(f)
  <2>1. PICK i \in Id, p \in Password, how \in {"new", "test"} : Saved!Connect(f, i, p, how)
    BY <1>1 DEF Saved!TypesPassword
  <2>2. UNCHANGED <<savedFile, local, vault, entry, connections, savedServer, last, excuse>>
    BY <1>1 DEF Saved!TypesPassword, Saved!disk, Saved!ghosts
  <2>3. p \in Word /\ p # None
    BY DEF Word, Saved!SavedAssumption
  <2> QED
    BY <2>1, <2>2, <2>3, ConnectCalled
<1>2. CASE Saved!QuickConnect(f)
  <2>1. PICK i \in Saved!Listed(Saved!SavedList) :
           Saved!ReadsAndConnects(f, i, Saved!SavedList[i], "new")
    BY <1>2 DEF Saved!QuickConnect
  <2>2. UNCHANGED <<savedFile, local, vault, entry, connections, savedServer, last, excuse>>
    BY <1>2 DEF Saved!QuickConnect, Saved!disk, Saved!ghosts
  <2>3. i \in Id /\ Saved!SavedList[i] \in Veiled /\ Saved!SavedList[i] # None
    BY SavedListShape DEF SavedInv, Saved!Listed
  <2> QED
    BY <2>1, <2>2, <2>3, ReadAndConnected
<1> QED
  BY <1>1, <1>2

LEMMA RestoredSaved ==
    ASSUME SavedInv, NEW i \in Id, Saved!RestoreConnects(i)
    PROVE  SavedInv'
<1>1. i \in Saved!Flow
  BY DEF Saved!Flow
<1>2. savedFlow[i].do = "restore" /\ FlowShape(savedFlow[i])
  BY <1>1 DEF Saved!RestoreConnects, SavedInv
<1>3. savedFlow[i].saved \in Veiled /\ savedFlow[i].saved # None
  BY <1>2 DEF FlowShape, Saved!Idle, Restoring, Connecting, Persisting, Veiled
<1>4. /\ Saved!ReadsAndConnects(i, i, savedFlow[i].saved, "restore")
      /\ UNCHANGED <<savedFile, local, vault, entry, connections, savedServer, last, excuse>>
  BY DEF Saved!RestoreConnects, Saved!disk, Saved!ghosts
<1> QED
  BY <1>1, <1>3, <1>4, ReadAndConnected
\* What a flow that saves the list is.
LEMMA PersistShape ==
    ASSUME SavedInv, NEW f \in Saved!Flow, savedFlow[f].do = "persist"
    PROVE  /\ savedFlow[f] \in Persisting /\ savedFlow[f].list[savedFlow[f].id] # None
           /\ \A i \in Id : savedFlow[f].got[i] = None <=> savedFlow[f].list[i] = None
           /\ \A i \in savedFlow[f].left : savedFlow[f].got[i] # None
BY DEF SavedInv, FlowShape, Saved!Idle, Restoring, Connecting

LEMMA ConnectShape ==
    ASSUME SavedInv, NEW f \in Saved!Flow, savedFlow[f].do = "connect"
    PROVE  /\ savedFlow[f] \in Connecting /\ savedFlow[f].field # None
           /\ savedFlow[f].field \in Password => savedFlow[f].with = savedFlow[f].field
BY DEF SavedInv, FlowShape, Saved!Idle, Restoring, Persisting

LEMMA LooksUpSaved ==
    ASSUME SavedInv, NEW f \in Saved!Flow, NEW i \in Id, Saved!LooksUp(f, i)
    PROVE  SavedInv'
<1> DEFINE r == savedFlow[f]
           found == [r EXCEPT !.got[i] = entry[i]]
           skipped == [r EXCEPT !.left = @ \ {i}]
<1>1. r.do = "persist" /\ i \in r.left
      /\ \/ Saved!Becomes(f, found) /\ entry[i] # None
         \/ Saved!Becomes(f, skipped)
      /\ UNCHANGED <<savedFile, local, vault, entry, connections, savedServer, last, excuse>>
  BY DEF Saved!LooksUp, Saved!disk, Saved!ghosts
<1>2. /\ r \in Persisting /\ r.list[r.id] # None
      /\ \A j \in Id : r.got[j] = None <=> r.list[j] = None
      /\ \A j \in r.left : r.got[j] # None
  BY <1>1, PersistShape
<1>3. \A j \in Id : Counts(j) => FlowAgrees(r, j, last[j]) /\ entry[j] \in {Masked, last[j]}
  BY DEF SavedInv, PasswordKept, PlacesKeep
<1>4. entry[i] \in Word \cup {None} /\ savedServer' \in [Id -> Password]
  BY <1>1 DEF SavedInv, SavedTyped, Word
<1> HIDE DEF r
<1>5. CASE Saved!Becomes(f, found) /\ entry[i] # None
  <2>1. found = [do |-> "persist", id |-> r.id, list |-> r.list, left |-> r.left,
                 got |-> [r.got EXCEPT ![i] = entry[i]]]
    BY <1>1, <1>2 DEF Persisting
  <2>2. [r.got EXCEPT ![i] = entry[i]] \in Lists
    BY <1>2, <1>4 DEF Persisting, Lists
  <2>3. FlowShape(found)
    <3>1. found \in Persisting /\ found.list = r.list /\ found.id = r.id /\ found.left = r.left
          /\ found.got = [r.got EXCEPT ![i] = entry[i]]
      BY <1>2, <2>1, <2>2 DEF Persisting
    <3>2. \A j \in Id : found.got[j] = IF j = i THEN entry[i] ELSE r.got[j]
      BY <1>2, <3>1 DEF Persisting, Lists
    <3> HIDE DEF found
    <3> QED
      BY <1>1, <1>2, <1>5, <3>1, <3>2 DEF FlowShape, Persisting
  <2>4. ASSUME NEW j \in Id, Counts(j) PROVE FlowAgrees(found, j, last[j])
    <3>1. found.do = "persist" /\ found.list = r.list /\ found.got = [r.got EXCEPT ![i] = entry[i]]
      BY <2>1
    <3>2. found.got[j] = IF j = i THEN entry[i] ELSE r.got[j]
      BY <1>2, <3>1 DEF Persisting, Lists
    <3> HIDE DEF found
    <3> QED
      BY <1>1, <1>3, <2>4, <3>1, <3>2 DEF FlowAgrees, Agrees, Veiled
  <2> HIDE DEF found
  <2> QED
    BY <1>1, <1>4, <1>5, <2>3, <2>4, FlowMoves
<1>6. CASE Saved!Becomes(f, skipped)
  <2>1. skipped = [do |-> "persist", id |-> r.id, list |-> r.list, left |-> r.left \ {i},
                   got |-> r.got]
    BY <1>1, <1>2 DEF Persisting
  <2>2. skipped \in Persisting /\ skipped.list = r.list /\ skipped.id = r.id
        /\ skipped.left = r.left \ {i} /\ skipped.got = r.got /\ skipped.do = "persist"
    BY <1>2, <2>1 DEF Persisting
  <2> HIDE DEF skipped
  <2>3. FlowShape(skipped)
    BY <1>2, <2>2 DEF FlowShape
  <2>4. \A j \in Id : Counts(j) => FlowAgrees(skipped, j, last[j])
    BY <1>1, <1>3, <2>2 DEF FlowAgrees
  <2> QED
    BY <1>1, <1>4, <1>6, <2>3, <2>4, FlowMoves
<1> QED
  BY <1>1, <1>5, <1>6

LEMMA SavesPasswordSaved ==
    ASSUME SavedInv, NEW f \in Saved!Flow, NEW i \in Id, Saved!SavesPassword(f, i)
    PROVE  SavedInv'
<1> DEFINE r == savedFlow[f]
           said == [r EXCEPT !.list[i] = r.got[i]]
           kept == [said EXCEPT !.left = @ \ {i}]
           skipped == [r EXCEPT !.left = @ \ {i}]
<1>1. /\ r.do = "persist" /\ i \in r.left /\ r.got[i] # Blank
      /\ \/ Saved!Becomes(f, kept) /\ entry' = [entry EXCEPT ![i] = r.got[i]]
         \/ Saved!Becomes(f, skipped) /\ entry' = entry
      /\ UNCHANGED <<savedFile, local, vault, connections, savedServer, last, excuse>>
  BY DEF Saved!SavesPassword, Saved!ghosts
<1>2. /\ r \in Persisting /\ r.list[r.id] # None
      /\ \A j \in Id : r.got[j] = None <=> r.list[j] = None
      /\ \A j \in r.left : r.got[j] # None
  BY <1>1, PersistShape
<1>3. \A j \in Id : Counts(j) => FlowAgrees(r, j, last[j]) /\ entry[j] \in {Masked, last[j]}
  BY DEF SavedInv, PasswordKept, PlacesKeep
<1>4. r.got[i] \in Password \cup {Masked} /\ savedServer' \in [Id -> Password]
  BY <1>1, <1>2 DEF SavedInv, SavedTyped, Word, Persisting, Lists
<1>5. CASE Saved!Becomes(f, kept) /\ entry' = [entry EXCEPT ![i] = r.got[i]]
  <2> HIDE DEF r
  <2>1. kept = [do |-> "persist", id |-> r.id, list |-> [r.list EXCEPT ![i] = r.got[i]],
                left |-> r.left \ {i}, got |-> r.got]
    <3>1. said = [do |-> "persist", id |-> r.id, list |-> [r.list EXCEPT ![i] = r.got[i]],
                  left |-> r.left, got |-> r.got]
      BY <1>2 DEF Persisting
    <3> HIDE DEF said
    <3> QED
      BY <3>1
  <2>2. [r.list EXCEPT ![i] = r.got[i]] \in Lists
    BY <1>2, <1>4 DEF Persisting, Lists, Word
  <2>3. kept \in Persisting /\ kept.id = r.id /\ kept.do = "persist"
        /\ kept.left = r.left \ {i} /\ kept.got = r.got
        /\ kept.list = [r.list EXCEPT ![i] = r.got[i]]
    BY <1>2, <2>1, <2>2 DEF Persisting
  <2>4. \A j \in Id : kept.list[j] = IF j = i THEN r.got[i] ELSE r.list[j]
    BY <1>2, <2>3 DEF Persisting, Lists
  <2> HIDE DEF kept, said
  <2>5. FlowShape(kept)
    BY <1>1, <1>2, <2>3, <2>4 DEF FlowShape, Persisting
  <2>6. savedFlow' = [savedFlow EXCEPT ![f] = kept]
    BY <1>5 DEF Saved!Becomes
  <2>7. entry' \in [Id -> Password \cup {None, Masked}]
    BY <1>4, <1>5 DEF SavedInv, SavedTyped
  <2>8. SavedTyped' /\ \A g \in Saved!Flow : FlowShape(savedFlow'[g])
    BY <1>1, <1>4, <2>5, <2>6, <2>7 DEF SavedInv, SavedTyped
  <2>9. ASSUME NEW j \in Id, Counts(j)' PROVE PasswordKept(j)'
    <3>1. Counts(j) /\ PasswordKept(j)
      BY <1>1, <2>9 DEF SavedInv, Counts
    <3>2. Agrees(r.got[j], last[j]) /\ Agrees(r.list[j], last[j])
      BY <1>1, <1>3, <3>1 DEF FlowAgrees
    <3>3. FlowAgrees(kept, j, last[j])
      BY <2>3, <2>4, <3>2 DEF FlowAgrees
    <3>4. \A g \in Saved!Flow : FlowAgrees(savedFlow'[g], j, last[j])
      BY <2>6, <3>1, <3>3 DEF PasswordKept, SavedInv, SavedTyped
    <3>5. j = i => r.got[i] \in {Masked, last[i]}
      <4>1. j = i => last[i] # None /\ r.got[i] # None /\ r.got[i] # Blank
        BY <1>1, <1>2, <3>1 DEF Counts
      <4> QED
        BY <3>2, <4>1 DEF Agrees, Veiled
    <3>6. PlacesKeep(j)'
      BY <1>1, <1>5, <3>1, <3>5 DEF PasswordKept, PlacesKeep, SavedInv, SavedTyped
    <3> QED
      BY <1>1, <3>4, <3>6 DEF PasswordKept
  <2> QED
    BY <2>8, <2>9 DEF SavedInv
<1>6. CASE Saved!Becomes(f, skipped) /\ entry' = entry
  <2> HIDE DEF r
  <2>1. skipped = [do |-> "persist", id |-> r.id, list |-> r.list, left |-> r.left \ {i},
                   got |-> r.got]
    BY <1>1, <1>2 DEF Persisting
  <2>2. skipped \in Persisting /\ skipped.list = r.list /\ skipped.id = r.id
        /\ skipped.left = r.left \ {i} /\ skipped.got = r.got /\ skipped.do = "persist"
    BY <1>2, <2>1 DEF Persisting
  <2> HIDE DEF skipped
  <2>3. FlowShape(skipped)
    BY <1>2, <2>2 DEF FlowShape
  <2>4. \A j \in Id : Counts(j) => FlowAgrees(skipped, j, last[j])
    BY <1>1, <1>3, <2>2 DEF FlowAgrees
  <2> QED
    BY <1>1, <1>4, <1>6, <2>3, <2>4, FlowMoves
<1> QED
  BY <1>1, <1>5, <1>6
LEMMA ExcusedSaved ==
    ASSUME NEW S, NEW e, Saved!Excuses(S, e)
    PROVE  /\ DOMAIN excuse' = Id
           /\ \A i \in Id : excuse'[i] = {} => excuse[i] = {} /\ i \notin S
BY DEF Saved!Excuses

\* What the native side makes of a list keeps every password it agrees with.
LEMMA KeepsPasswords ==
    ASSUME Saved!SavedAssumption, SavedInv, NEW list \in Lists, NEW stored \in SUBSET Saved!Secrets(list),
           NEW deleted, Saved!Keeps(list, stored, deleted)
    PROVE  /\ vault' \in [Id -> Password \cup {None}]
           /\ entry' \in [Id -> Password \cup {None, Masked}]
           /\ \A i \in Id : Counts(i) /\ i \notin deleted /\ Agrees(list[i], last[i])
                => vault'[i] = last[i] /\ entry'[i] \in {Masked, last[i]}
<1>1. \A i \in stored : i \in Id /\ Saved!Effective(i, list[i]) \in Password
  BY DEF Saved!Secrets, Saved!Listed
<1>2. /\ vault' = [i \in Id |-> IF i \in stored THEN Saved!Effective(i, list[i])
                                ELSE IF i \in deleted THEN None ELSE vault[i]]
      /\ entry' = [i \in Id |-> IF i \in stored THEN Saved!Effective(i, list[i])
                                ELSE IF i \in deleted THEN None ELSE entry[i]]
  BY DEF Saved!Keeps
<1>3. vault' \in [Id -> Password \cup {None}] /\ entry' \in [Id -> Password \cup {None, Masked}]
  BY <1>1, <1>2 DEF SavedInv, SavedTyped
<1>4. ASSUME NEW i \in Id, Counts(i), i \notin deleted, Agrees(list[i], last[i])
      PROVE  vault'[i] = last[i] /\ entry'[i] \in {Masked, last[i]}
  <2>1. last[i] # None /\ vault[i] = last[i] /\ entry[i] \in {Masked, last[i]}
    BY <1>4 DEF SavedInv, PasswordKept, PlacesKeep, Counts
  <2>2. Saved!Effective(i, list[i]) = last[i]
    BY <1>4, <2>1 DEF Saved!Effective, Agrees, Veiled, Saved!SavedAssumption
  <2> QED
    BY <1>2, <1>4, <2>1, <2>2
<1> QED
  BY <1>3, <1>4

LEMMA FileShown ==
    ASSUME NEW list, savedFile' = [i \in Id |-> IF list[i] = None THEN None ELSE Saved!Shown(list[i])]
    PROVE  savedFile' \in [Id -> Veiled]
BY DEF Saved!Shown, Veiled

\* Nothing counts after a step that excuses every connection.
LEMMA AllExcused ==
    ASSUME NEW e, Saved!Excuses(Id, e), SavedTyped', \A g \in Saved!Flow : FlowShape(savedFlow'[g])
    PROVE  SavedInv'
<1>1. \A i \in Id : ~Counts(i)'
  BY ExcusedSaved DEF Counts
<1> QED
  BY <1>1 DEF SavedInv

LEMMA StartedSaved ==
    ASSUME NEW loaded \in [Id -> Veiled], Saved!Starts(loaded)
    PROVE  /\ DOMAIN savedFlow' = Saved!Flow
           /\ \A g \in Saved!Flow : FlowShape(savedFlow'[g])
                                    /\ \A i \in Id : \A p : FlowAgrees(savedFlow'[g], i, p)
<1> SUFFICES ASSUME NEW g \in Saved!Flow
             PROVE  FlowShape(savedFlow'[g]) /\ \A i \in Id : \A p : FlowAgrees(savedFlow'[g], i, p)
  BY DEF Saved!Starts
<1>1. CASE g \in Id /\ loaded[g] # None
  <2>1. savedFlow'[g] = [do |-> "restore", saved |-> loaded[g]]
    BY <1>1 DEF Saved!Starts
  <2>2. savedFlow'[g] \in Restoring /\ savedFlow'[g].saved # None /\ savedFlow'[g].do = "restore"
    BY <1>1, <2>1 DEF Restoring, Veiled
  <2> QED
    BY <2>2 DEF FlowShape, FlowAgrees
<1>2. CASE ~(g \in Id /\ loaded[g] # None)
  <2>1. savedFlow'[g] = Saved!Idle
    BY <1>2 DEF Saved!Starts
  <2> QED
    BY <2>1 DEF FlowShape, FlowAgrees, Saved!Idle
<1> QED
  BY <1>1, <1>2

LEMMA SavesListSaved ==
    ASSUME Saved!SavedAssumption, SavedInv, NEW f \in Saved!Flow, Saved!SavesList(f)
    PROVE  SavedInv'
<1> DEFINE r == savedFlow[f]
<1>1. /\ r.do = "persist" /\ savedFlow' = [savedFlow EXCEPT ![f] = Saved!Idle]
      /\ UNCHANGED <<connections, savedServer, last>>
  BY DEF Saved!SavesList, Saved!Becomes
<1>2. r \in Persisting /\ r.list[r.id] # None /\ r.list \in Lists /\ r.id \in Id
  BY <1>1, PersistShape DEF Persisting
<1>3. /\ DOMAIN savedFlow' = Saved!Flow
      /\ \A g \in Saved!Flow : FlowShape(savedFlow'[g])
                               /\ (savedFlow'[g] = savedFlow[g] \/ savedFlow'[g] = Saved!Idle)
  BY <1>1 DEF SavedInv, SavedTyped, FlowShape
<1>4. CASE /\ Saved!SaveConnections(r.list) /\ local' = Saved!Nowhere
           /\ Saved!Excuses((Saved!Listed(savedFile) \cup Saved!Listed(connections))
                              \ (Saved!Listed(r.list) \cup {r.id}), "overlooked")
  <2>1. Saved!Keeps(r.list, Saved!Secrets(r.list), Saved!Gone(r.list)) /\ savedFile' \in [Id -> Veiled]
    BY <1>4, FileShown DEF Saved!SaveConnections
  <2>2. /\ vault' \in [Id -> Password \cup {None}] /\ entry' \in [Id -> Password \cup {None, Masked}]
        /\ \A i \in Id : Counts(i) /\ i \notin Saved!Gone(r.list) /\ Agrees(r.list[i], last[i])
             => vault'[i] = last[i] /\ entry'[i] \in {Masked, last[i]}
    BY <1>2, <2>1, KeepsPasswords
  <2>3. local' \in [Id -> Veiled]
    BY <1>4 DEF Saved!Nowhere, Veiled
  <2>4. SavedTyped'
    BY <1>1, <1>3, <1>4, <2>1, <2>2, <2>3, ExcusedSaved DEF SavedInv, SavedTyped
  <2>5. ASSUME NEW i \in Id, Counts(i)' PROVE PasswordKept(i)'
    <3>1. Counts(i) /\ i \notin (Saved!Listed(savedFile) \cup Saved!Listed(connections))
                                  \ (Saved!Listed(r.list) \cup {r.id})
      BY <1>1, <1>4, <2>5, ExcusedSaved DEF Counts
    <3>2. i \notin Saved!Gone(r.list)
      BY <1>2, <3>1 DEF Saved!Gone, Saved!Listed
    <3>3. PasswordKept(i) /\ Agrees(r.list[i], last[i])
      BY <1>1, <3>1 DEF SavedInv, PasswordKept, FlowAgrees
    <3>4. \A g \in Saved!Flow : FlowAgrees(savedFlow'[g], i, last[i])
      BY <1>3, <3>3 DEF PasswordKept, FlowAgrees, Saved!Idle
    <3> QED
      BY <1>1, <2>2, <3>1, <3>2, <3>3, <3>4 DEF PasswordKept, PlacesKeep
  <2> QED
    BY <1>3, <2>4, <2>5 DEF SavedInv
<1>5. CASE /\ Saved!SaveConnectionsFails(r.list) /\ Saved!Excuses(Id, "failed")
           /\ local' = [i \in Id |-> IF r.list[i] = None THEN None ELSE Blank]
  <2>1. /\ vault' \in [Id -> Password \cup {None}] /\ entry' \in [Id -> Password \cup {None, Masked}]
        /\ savedFile' = savedFile
    <3>1. CASE UNCHANGED <<vault, entry>>
      BY <1>5, <3>1 DEF SavedInv, SavedTyped, Saved!SaveConnectionsFails
    <3>2. CASE \E stored \in SUBSET Saved!Secrets(r.list) :
                  \E deleted : Saved!Keeps(r.list, stored, deleted)
      BY <1>2, <1>5, <3>2, KeepsPasswords DEF Saved!SaveConnectionsFails
    <3> QED
      BY <1>5, <3>1, <3>2 DEF Saved!SaveConnectionsFails
  <2>2. local' \in [Id -> Veiled]
    BY <1>5 DEF Veiled
  <2>3. SavedTyped'
    BY <1>1, <1>3, <1>5, <2>1, <2>2, ExcusedSaved DEF SavedInv, SavedTyped
  <2> QED
    BY <1>3, <1>5, <2>3, AllExcused
<1> QED
  BY <1>4, <1>5 DEF Saved!SavesList

LEMMA EndsInSaveSaved ==
    ASSUME Saved!SavedAssumption, SavedInv, NEW f \in Saved!Flow, Saved!EndsInSave(f)
    PROVE  SavedInv'
<1> DEFINE r == savedFlow[f]
<1>1. /\ r.do = "persist" /\ connections' = Saved!Nowhere /\ Saved!Starts(local)
      /\ Saved!Keeps(r.list, Saved!Secrets(r.list), Saved!Gone(r.list))
      /\ Saved!Excuses(Id, "failed") /\ UNCHANGED <<savedFile, local, savedServer, last>>
  BY DEF Saved!EndsInSave
<1>2. r.list \in Lists /\ local \in [Id -> Veiled]
  BY <1>1, PersistShape DEF Persisting, SavedInv, SavedTyped
<1>3. vault' \in [Id -> Password \cup {None}] /\ entry' \in [Id -> Password \cup {None, Masked}]
  BY <1>1, <1>2, KeepsPasswords
<1>4. DOMAIN savedFlow' = Saved!Flow /\ \A g \in Saved!Flow : FlowShape(savedFlow'[g])
  BY <1>1, <1>2, StartedSaved
<1>5. connections' \in Lists
  BY <1>1 DEF Saved!Nowhere, Lists
<1>6. SavedTyped'
  BY <1>1, <1>3, <1>4, <1>5, ExcusedSaved DEF SavedInv, SavedTyped
<1> QED
  BY <1>1, <1>4, <1>6, AllExcused
LEMMA ConnectsSaved ==
    ASSUME Saved!SavedAssumption, SavedInv, NEW f \in Saved!Flow, Saved!Connects(f)
    PROVE  SavedInv'
<1> DEFINE r == savedFlow[f]
           i == r.id
           next == Saved!NextConnections(f)
           after == IF r.kind = "new" THEN Saved!Persist(i, next) ELSE Saved!Idle
           crossed == {j \in {i} : r.with # last[i]
                                   /\ (Saved!Carried(f, i) \/ connections'[i] # r.field)}
<1>1. /\ r.do = "connect" /\ r.with = savedServer[i]
      /\ vault' = [vault EXCEPT ![i] = r.with] /\ entry' = [entry EXCEPT ![i] = r.with]
      /\ connections' = [connections EXCEPT ![i] = IF r.kind = "test" THEN @ ELSE r.field]
      /\ savedFlow' = [savedFlow EXCEPT ![f] = after]
      /\ last' = [last EXCEPT ![i] = r.with]
      /\ Saved!Excuses(crossed, "crossed")
      /\ UNCHANGED <<savedFile, local, savedServer>>
  BY DEF Saved!Connects, Saved!Becomes
<1>2. /\ r \in Connecting /\ r.field # None /\ (r.field \in Password => r.with = r.field)
      /\ i \in Id /\ r.seen \in Lists /\ r.field \in Word
  BY <1>1, ConnectShape DEF Connecting
<1>3. r.with \in Password /\ r.with # None
  BY <1>1, <1>2 DEF SavedInv, SavedTyped, Saved!SavedAssumption
<1>4. next = [r.seen EXCEPT ![i] = r.field] /\ next \in Lists
  BY <1>2 DEF Saved!NextConnections, Lists
<1>5. Agrees(r.field, r.with)
  BY <1>2 DEF Agrees, Veiled, Word
<1>6. after = Saved!Idle \/ /\ after = Saved!Persist(i, next)
                            /\ after \in Persisting /\ after.do = "persist"
                            /\ after.id = i /\ after.list = next /\ after.got = next
                            /\ after.left = Saved!Listed(next)
  BY <1>2, <1>4 DEF Saved!Persist, Persisting, Saved!Listed
<1>7. Saved!Idle.do = "idle"
  BY DEF Saved!Idle
<1> HIDE DEF after, next, crossed
<1>8. FlowShape(after)
  <2>1. next[i] # None
    BY <1>2, <1>4 DEF Lists
  <2> QED
    BY <1>6, <2>1 DEF FlowShape, Saved!Listed
<1>9. SavedTyped' /\ \A g \in Saved!Flow : FlowShape(savedFlow'[g])
  <2>1. last' \in [Id -> Password \cup {None}] /\ vault' \in [Id -> Password \cup {None}]
        /\ entry' \in [Id -> Password \cup {None, Masked}]
    BY <1>1, <1>2, <1>3 DEF SavedInv, SavedTyped
  <2>2. connections' \in Lists
    BY <1>1, <1>2 DEF SavedInv, SavedTyped, Lists
  <2>3. DOMAIN excuse' = Id
    BY <1>1, ExcusedSaved
  <2>4. DOMAIN savedFlow' = Saved!Flow /\ \A g \in Saved!Flow : FlowShape(savedFlow'[g])
    BY <1>1, <1>8 DEF SavedInv, SavedTyped
  <2> QED
    BY <1>1, <2>1, <2>2, <2>3, <2>4 DEF SavedInv, SavedTyped
<1>10. ASSUME NEW j \in Id, Counts(j)' PROVE PasswordKept(j)'
  <2>1. excuse[j] = {} /\ j \notin crossed
    BY <1>1, <1>10, ExcusedSaved DEF Counts
  <2>2. CASE j # i
    <3>1. Counts(j) /\ PasswordKept(j) /\ last'[j] = last[j]
      BY <1>1, <1>10, <2>1, <2>2 DEF SavedInv, SavedTyped, Counts
    <3>2. PlacesKeep(j)'
      BY <1>1, <2>2, <3>1 DEF PasswordKept, PlacesKeep, SavedInv, SavedTyped, Lists
    <3>3. Agrees(r.seen[j], last[j])
      BY <1>1, <3>1 DEF PasswordKept, FlowAgrees
    <3>4. FlowAgrees(after, j, last[j])
      BY <1>2, <1>4, <1>6, <1>7, <2>2, <3>3 DEF FlowAgrees, Lists
    <3> QED
      BY <1>1, <3>1, <3>2, <3>4 DEF PasswordKept, SavedInv, SavedTyped
  <2>3. CASE j = i
    <3>1. last'[i] = r.with /\ vault'[i] = r.with /\ entry'[i] = r.with
      BY <1>1, <1>2 DEF SavedInv, SavedTyped
    <3>2. CASE r.with = last[i]
      <4>1. Counts(i) /\ PasswordKept(i)
        BY <1>2, <1>3, <2>1, <2>3, <3>2 DEF SavedInv, Counts
      <4>2. Agrees(connections'[i], r.with)
        BY <1>1, <1>2, <1>5, <3>2, <4>1 DEF PasswordKept, PlacesKeep, SavedInv, SavedTyped, Lists
      <4>3. FlowAgrees(after, i, r.with)
        BY <1>2, <1>4, <1>5, <1>6, <1>7 DEF FlowAgrees, Lists
      <4>4. \A g \in Saved!Flow : FlowAgrees(savedFlow'[g], i, r.with)
        BY <1>1, <3>2, <4>1, <4>3 DEF PasswordKept, SavedInv, SavedTyped
      <4> QED
        BY <2>3, <3>1, <4>2, <4>4 DEF PasswordKept, PlacesKeep
    <3>3. CASE r.with # last[i]
      <4>1. ~Saved!Carried(f, i) /\ connections'[i] = r.field
        BY <2>1, <2>3, <3>3 DEF crossed
      <4>2. FlowAgrees(after, i, r.with)
        BY <1>2, <1>4, <1>5, <1>6, <1>7 DEF FlowAgrees, Lists
      <4>3. ASSUME NEW g \in Saved!Flow, g # f PROVE FlowAgrees(savedFlow[g], i, r.with)
        <5>1. savedFlow[g].do = "persist" => savedFlow[g].list[i] = None /\ savedFlow[g].got[i] = None
          BY <1>2, <4>1, <4>3, PersistShape DEF Saved!Carried
        <5>2. savedFlow[g].do = "connect" => savedFlow[g].seen[i] = None
          BY <4>1, <4>3 DEF Saved!Carried
        <5> QED
          BY <5>1, <5>2 DEF FlowAgrees, Agrees, Veiled
      <4>4. \A g \in Saved!Flow : FlowAgrees(savedFlow'[g], i, r.with)
        BY <1>1, <4>2, <4>3 DEF SavedInv, SavedTyped
      <4> QED
        BY <1>5, <2>3, <3>1, <4>1, <4>4 DEF PasswordKept, PlacesKeep
    <3> QED
      BY <3>2, <3>3
  <2> QED
    BY <2>2, <2>3
<1> QED
  BY <1>9, <1>10 DEF SavedInv

\* The flows stay as they are, or all start anew; the places keep their passwords.
LEMMA PlacesMove ==
    ASSUME SavedInv, SavedTyped', last' = last,
           \A i \in Id : excuse'[i] = {} => excuse[i] = {},
           \A i \in Id : Counts(i)' => vault'[i] = last[i] /\ entry'[i] \in {Masked, last[i]},
           \A i \in Id : connections'[i] \in {None, connections[i]},
           \/ savedFlow' = savedFlow
           \/ \A g \in Saved!Flow : FlowShape(savedFlow'[g])
                                    /\ \A i \in Id : \A p : FlowAgrees(savedFlow'[g], i, p)
    PROVE  SavedInv'
<1>1. \A g \in Saved!Flow : FlowShape(savedFlow'[g])
  BY DEF SavedInv
<1>2. ASSUME NEW i \in Id, Counts(i)' PROVE PasswordKept(i)'
  <2>1. PasswordKept(i)
    BY <1>2 DEF SavedInv, Counts
  <2>2. \A g \in Saved!Flow : FlowAgrees(savedFlow'[g], i, last[i])
    BY <2>1 DEF PasswordKept
  <2> QED
    BY <1>2, <2>1, <2>2 DEF PasswordKept, PlacesKeep, Agrees, Veiled
<1> QED
  BY <1>1, <1>2 DEF SavedInv

LEMMA RemovesSaved ==
    ASSUME Saved!SavedAssumption, SavedInv, NEW i \in Id, Saved!RemoveConnection(i),
           connections' \in {connections, [connections EXCEPT ![i] = None]},
           UNCHANGED <<savedServer, savedFlow>>
    PROVE  SavedInv'
<1> DEFINE rest == [local EXCEPT ![i] = None]
<1>1. local' = rest /\ last' = last /\ rest \in [Id -> Veiled]
  BY DEF Saved!RemoveConnection, SavedInv, SavedTyped, Veiled
<1>2. rest \in Lists
  BY <1>1 DEF Lists, Veiled, Word
<1>3. connections' \in Lists /\ \A j \in Id : connections'[j] \in {None, connections[j]}
  BY DEF SavedInv, SavedTyped, Lists
<1>4. \A j \in Id : Agrees(rest[j], last[j])
  BY <1>1 DEF Agrees
<1> HIDE DEF rest
<1>5. CASE Saved!SaveConnections(rest) /\ Saved!Excuses({i} \cup Saved!Listed(savedFile), "emptied")
  <2>1. Saved!Keeps(rest, Saved!Secrets(rest), Saved!Gone(rest)) /\ savedFile' \in [Id -> Veiled]
    BY <1>5, FileShown DEF Saved!SaveConnections
  <2>2. /\ vault' \in [Id -> Password \cup {None}] /\ entry' \in [Id -> Password \cup {None, Masked}]
        /\ \A j \in Id : Counts(j) /\ j \notin Saved!Gone(rest)
             => vault'[j] = last[j] /\ entry'[j] \in {Masked, last[j]}
    BY <1>2, <1>4, <2>1, KeepsPasswords
  <2>3. ASSUME NEW j \in Id, Counts(j)' PROVE Counts(j) /\ j \notin Saved!Gone(rest)
    BY <1>1, <1>5, <2>3, ExcusedSaved DEF Counts, Saved!Gone
  <2>4. SavedTyped'
    BY <1>1, <1>3, <1>5, <2>1, <2>2, ExcusedSaved DEF SavedInv, SavedTyped
  <2> QED
    BY <1>1, <1>3, <1>5, <2>2, <2>3, <2>4, PlacesMove, ExcusedSaved
<1>6. CASE Saved!SaveConnectionsFails(rest) /\ Saved!Excuses(Id, "failed")
  <2>1. /\ vault' \in [Id -> Password \cup {None}] /\ entry' \in [Id -> Password \cup {None, Masked}]
        /\ savedFile' = savedFile
    <3>1. CASE UNCHANGED <<vault, entry>>
      BY <1>6, <3>1 DEF SavedInv, SavedTyped, Saved!SaveConnectionsFails
    <3>2. CASE \E stored \in SUBSET Saved!Secrets(rest) : \E deleted : Saved!Keeps(rest, stored, deleted)
      BY <1>2, <1>6, <3>2, KeepsPasswords DEF Saved!SaveConnectionsFails
    <3> QED
      BY <1>6, <3>1, <3>2 DEF Saved!SaveConnectionsFails
  <2>2. SavedTyped'
    BY <1>1, <1>3, <1>6, <2>1, ExcusedSaved DEF SavedInv, SavedTyped
  <2>3. \A g \in Saved!Flow : FlowShape(savedFlow'[g])
    BY DEF SavedInv
  <2> QED
    BY <1>6, <2>2, <2>3, AllExcused
<1> QED
  BY <1>5, <1>6 DEF Saved!RemoveConnection, rest

LEMMA RestartSaved ==
    ASSUME Saved!SavedAssumption, SavedInv, Saved!Restart
    PROVE  SavedInv'
<1>1. /\ connections' = Saved!Nowhere /\ Saved!Starts(Saved!SavedList)
      /\ UNCHANGED <<local, savedServer, last, excuse>>
  BY DEF Saved!Restart, Saved!ghosts
<1>2. /\ DOMAIN savedFlow' = Saved!Flow
      /\ \A g \in Saved!Flow : FlowShape(savedFlow'[g])
                               /\ \A i \in Id : \A p : FlowAgrees(savedFlow'[g], i, p)
  BY <1>1, StartedSaved, SavedListShape DEF SavedInv
<1>3. connections' \in Lists /\ \A i \in Id : connections'[i] \in {None, connections[i]}
  BY <1>1 DEF Saved!Nowhere, Lists
<1>4. local \in Lists /\ \A i \in Id : Agrees(local[i], last[i])
  BY DEF SavedInv, SavedTyped, Lists, Veiled, Word, Agrees
<1>5. /\ savedFile' \in [Id -> Veiled]
      /\ vault' \in [Id -> Password \cup {None}] /\ entry' \in [Id -> Password \cup {None, Masked}]
      /\ \A i \in Id : Counts(i) => vault'[i] = last[i] /\ entry'[i] \in {Masked, last[i]}
  <2>1. CASE /\ Saved!Listed(savedFile) = {}
             /\ Saved!SaveConnections(local) \/ Saved!SaveConnectionsFails(local)
    <3>1. Saved!Gone(local) = {}
      BY <2>1 DEF Saved!Gone
    <3>2. savedFile' \in [Id -> Veiled]
      BY <2>1, FileShown DEF Saved!SaveConnections, Saved!SaveConnectionsFails, SavedInv, SavedTyped
    <3>3. UNCHANGED <<vault, entry>>
          \/ \E stored \in SUBSET Saved!Secrets(local) : Saved!Keeps(local, stored, {})
      BY <2>1, <3>1 DEF Saved!SaveConnections, Saved!SaveConnectionsFails
    <3>4. CASE UNCHANGED <<vault, entry>>
      BY <3>2, <3>4 DEF SavedInv, SavedTyped, PasswordKept, PlacesKeep
    <3>5. ASSUME NEW stored \in SUBSET Saved!Secrets(local), Saved!Keeps(local, stored, {})
          PROVE  /\ vault' \in [Id -> Password \cup {None}]
                 /\ entry' \in [Id -> Password \cup {None, Masked}]
                 /\ \A i \in Id : Counts(i) => vault'[i] = last[i] /\ entry'[i] \in {Masked, last[i]}
      BY <1>4, <3>5, KeepsPasswords
    <3> QED
      BY <3>2, <3>3, <3>4, <3>5
  <2>2. CASE UNCHANGED Saved!disk
    BY <2>2 DEF Saved!disk, SavedInv, SavedTyped, PasswordKept, PlacesKeep
  <2> QED
    BY <2>1, <2>2 DEF Saved!Restart
<1>6. SavedTyped'
  BY <1>1, <1>2, <1>3, <1>5 DEF SavedInv, SavedTyped
<1> QED
  BY <1>1, <1>2, <1>3, <1>5, <1>6, PlacesMove DEF Counts

\* A db_connect that fails at the keychain excuses its connection and leaves the others alone.
LEMMA UnkeptSaved ==
    ASSUME Saved!SavedAssumption, SavedInv, NEW f \in Saved!Flow, Saved!ConnectsUnkept(f)
    PROVE  SavedInv'
<1> DEFINE r == savedFlow[f]
           i == r.id
<1>1. /\ r.do = "connect" /\ r.with = savedServer[i]
      /\ vault' \in {vault, [vault EXCEPT ![i] = r.with]}
      /\ last' = [last EXCEPT ![i] = r.with]
      /\ savedFlow' = [savedFlow EXCEPT ![f] = Saved!Idle]
      /\ Saved!Excuses({i}, "failed")
      /\ UNCHANGED <<savedFile, local, entry, connections, savedServer>>
  BY DEF Saved!ConnectsUnkept, Saved!Becomes
<1>2. i \in Id /\ r.with \in Password
  BY <1>1, ConnectShape DEF Connecting, SavedInv, SavedTyped
<1>3. DOMAIN excuse' = Id /\ \A j \in Id : excuse'[j] = {} => excuse[j] = {} /\ j \notin {i}
  BY <1>1, ExcusedSaved
<1>4. SavedTyped' /\ \A g \in Saved!Flow : FlowShape(savedFlow'[g])
  BY <1>1, <1>2, <1>3 DEF SavedInv, SavedTyped, FlowShape
<1>5. ASSUME NEW j \in Id, Counts(j)' PROVE PasswordKept(j)'
  <2>1. j # i /\ last'[j] = last[j] /\ vault'[j] = vault[j]
    BY <1>1, <1>2, <1>3, <1>5 DEF Counts, SavedInv, SavedTyped
  <2>2. Counts(j) /\ PasswordKept(j)
    BY <1>3, <1>5, <2>1 DEF SavedInv, Counts
  <2>3. \A g \in Saved!Flow : FlowAgrees(savedFlow'[g], j, last[j])
    BY <1>1, <2>2 DEF PasswordKept, SavedInv, SavedTyped, FlowAgrees, Saved!Idle
  <2> QED
    BY <1>1, <2>1, <2>2, <2>3 DEF PasswordKept, PlacesKeep
<1> QED
  BY <1>4, <1>5 DEF SavedInv

LEMMA NextSaved == Saved!SavedAssumption /\ SavedInv /\ [Saved!Next]_Saved!vars => SavedInv'
<1> SUFFICES ASSUME Saved!SavedAssumption, SavedInv, [Saved!Next]_Saved!vars PROVE SavedInv'
  OBVIOUS
<1>1. ASSUME UNCHANGED Saved!vars PROVE SavedInv'
  BY <1>1 DEF Saved!vars, Saved!disk, Saved!ghosts, SavedInv, SavedTyped, Counts, PasswordKept,
              PlacesKeep
<1>2. ASSUME NEW f \in Saved!Flow, Saved!Refused(f) PROVE SavedInv'
  <2>1. FlowShape(Saved!Idle) /\ \A i \in Id : FlowAgrees(Saved!Idle, i, last[i])
    BY DEF FlowShape, FlowAgrees, Saved!Idle
  <2>2. /\ Saved!Becomes(f, Saved!Idle)
        /\ UNCHANGED <<savedFile, local, vault, entry, connections, savedServer, last, excuse>>
    BY <1>2 DEF Saved!Refused, Saved!disk, Saved!ghosts
  <2> QED
    BY <2>1, <2>2, FlowMoves DEF SavedInv, SavedTyped
<1>3. ASSUME NEW i \in Id, Saved!Disconnect(i) \/ Saved!RemoveSaved(i) PROVE SavedInv'
  <2>1. /\ Saved!RemoveConnection(i) /\ UNCHANGED <<savedServer, savedFlow>>
        /\ connections' \in {connections, [connections EXCEPT ![i] = None]}
    BY <1>3 DEF Saved!Disconnect, Saved!RemoveSaved
  <2> QED
    BY <2>1, RemovesSaved
<1>4. ASSUME NEW i \in Id, Saved!ServerChanges(i) PROVE SavedInv'
  <2>1. UNCHANGED <<savedFile, vault, entry, local, connections, savedFlow, last, excuse>>
        /\ savedServer' \in [Id -> Password]
    BY <1>4 DEF Saved!ServerChanges, Saved!disk, Saved!ghosts, SavedInv, SavedTyped
  <2> QED
    BY <2>1 DEF SavedInv, SavedTyped, Counts, PasswordKept, PlacesKeep
<1> QED
  BY <1>1, <1>2, <1>3, <1>4, BeginsSaved, RestoredSaved, LooksUpSaved, SavesPasswordSaved,
     SavesListSaved, EndsInSaveSaved, ConnectsSaved, UnkeptSaved, RestartSaved DEF Saved!Next

\* A saved connection that was open can be opened again (persistence.rs 270-350,
\* ConnectionStore.ts 100-340): what the window makes of the file and the keychain,
\* db_connect completes to the password its server accepted last, except for the saves that
\* were half done, crossed another one or left the connection out (excuse).
THEOREM SavedOpens == Saved!Spec => []SavedReconnects
<1> Saved!SavedAssumption
  BY StoresAssumption
<1>1. SavedInv => SavedReconnects
  <2> SUFFICES ASSUME SavedInv, NEW i \in Id, Counts(i),
                      Saved!SavedList[i] # None,
                      NEW word \in {Saved!SavedList[i], Saved!Hydrated(i, Saved!SavedList[i])}
               PROVE  Saved!Effective(i, word) = last[i]
    BY DEF SavedReconnects, Saved!SavedReconnects, Counts
  <2>1. vault[i] = last[i] /\ entry[i] \in {Masked, last[i]} /\ last[i] # None
    BY DEF SavedInv, PasswordKept, PlacesKeep, Counts
  <2>2. Saved!SavedList[i] \in Veiled
    BY SavedListShape DEF SavedInv
  <2>3. word \in {None, Masked, Blank, last[i]}
    BY <2>1, <2>2 DEF Saved!Hydrated, Veiled
  <2> QED
    BY <2>1, <2>3 DEF Saved!Effective, Saved!SavedAssumption
<1>2. Saved!Init => SavedInv
  BY InitSaved
<1>3. SavedInv /\ [Saved!Next]_Saved!vars => SavedInv'
  BY NextSaved
<1> QED
  BY <1>1, <1>2, <1>3, PTL DEF Saved!Spec

-----------------------------------------------------------------------------
(* The key of a provider.                                                  *)

KeySave == [who : {"form", "wizard", "migration"}, key : Nat]

\* With nothing to excuse there is one save at a time; the backup has what it saves, which is
\* what the user wanted, and the keychain has the same or nothing.  A key under the older name
\* is there only until the first load, before which nothing is saved.
KeySettled ==
    \/ /\ keyLegacy # Keys!NoKey /\ saves = {} /\ "start" \in keyLoads /\ ~form.has
       /\ keyKeychain = Keys!NoKey /\ keyBackup = Keys!NoKey /\ keyWanted = keyLegacy
    \/ /\ keyLegacy = Keys!NoKey /\ keyBackup = keyWanted
       /\ saves = {} => keyKeychain \in {Keys!NoKey, keyBackup}
       /\ \A s \in saves : saves = {s} /\ s.key = keyBackup

KeyInv ==
    /\ keyKeychain \in Nat /\ keyBackup \in Nat /\ keyLegacy \in Nat /\ keyEdits \in Nat
    /\ form \in [open : BOOLEAN, has : BOOLEAN, key : Nat, saving : BOOLEAN]
    /\ saves \subseteq KeySave
    /\ keyExcused = {} => KeySettled

LEMMA InitKeys == Keys!Init => KeyInv
BY DEF Keys!Init, KeyInv, KeySettled, Keys!Closed, Keys!NoKey

LEMMA SavesKey ==
    ASSUME KeyInv, NEW who \in {"form", "wizard", "migration"}, NEW key \in Nat, Keys!Saves(who, key)
    PROVE  /\ keyBackup' = key /\ keyBackup' \in Nat /\ saves' \subseteq KeySave
           /\ keyExcused' = {} => keyExcused = {} /\ saves = {} /\ \E s : saves' = {s} /\ s.key = key
<1> DEFINE s == [who |-> who, key |-> key]
<1>2. s \in KeySave /\ s.key = key
  BY DEF KeySave
<1>3. /\ keyBackup' = key /\ saves' = saves \cup {s}
      /\ keyExcused' = IF saves = {} THEN keyExcused ELSE keyExcused \cup {"overlap"}
  BY DEF Keys!Saves
<1> HIDE DEF s
<1>4. keyExcused' = {} => saves = {} /\ keyExcused = {}
  BY <1>3
<1>5. saves = {} => saves' = {s}
  BY <1>3
<1> QED
  BY <1>2, <1>3, <1>4, <1>5 DEF KeyInv

LEMMA LoadedKeys ==
    ASSUME KeyInv, NEW who \in {"start", "assistant", "dialog"}, Keys!Loaded(who)
    PROVE  KeyInv'
<1>1. PICK found \in {keyKeychain, Keys!NoKey} :
        /\ IF found = Keys!NoKey /\ keyBackup = Keys!NoKey /\ keyLegacy # Keys!NoKey
             THEN Keys!Saves("migration", Keys!Found(found)) /\ keyLegacy' = Keys!NoKey
             ELSE UNCHANGED <<keyBackup, saves, keyExcused, keyLegacy>>
        /\ form' = IF who = "dialog"
                   THEN [form EXCEPT !.has = (Keys!Found(found) # Keys!NoKey), !.key = Keys!Found(found)]
                   ELSE form
  BY Zenon DEF Keys!Loaded
<1>2. UNCHANGED <<keyKeychain, keyEdits, keyWanted>> /\ keyLoads' = keyLoads \ {who}
  BY DEF Keys!Loaded
<1>3. Keys!Found(found) \in Nat
  BY DEF KeyInv, Keys!Found, Keys!NoKey
<1>4. form' \in [open : BOOLEAN, has : BOOLEAN, key : Nat, saving : BOOLEAN]
  <2> DEFINE b == Keys!Found(found) # Keys!NoKey
  <2>1. b \in BOOLEAN
    OBVIOUS
  <2>2. form' = IF who = "dialog" THEN [form EXCEPT !.has = b, !.key = Keys!Found(found)] ELSE form
    BY <1>1
  <2> HIDE DEF b
  <2> QED
    BY <2>1, <2>2, <1>3 DEF KeyInv
<1>5. who # "dialog" => form' = form
  BY <1>1
<1>6. CASE found = Keys!NoKey /\ keyBackup = Keys!NoKey /\ keyLegacy # Keys!NoKey
  <2>1. Keys!Saves("migration", Keys!Found(found)) /\ keyLegacy' = Keys!NoKey
    BY <1>1, <1>6
  <2>2. /\ keyBackup' = Keys!Found(found) /\ keyBackup' \in Nat /\ saves' \subseteq KeySave
        /\ keyExcused' = {} => /\ keyExcused = {} /\ saves = {}
                            /\ \E s : saves' = {s} /\ s.key = Keys!Found(found)
    BY <2>1, <1>3, SavesKey
  <2>3. Keys!Found(found) = keyLegacy
    BY <1>6 DEF Keys!Found
  <2>4. keyExcused' = {} => KeySettled'
    BY <1>2, <1>6, <2>1, <2>2, <2>3 DEF KeyInv, KeySettled
  <2> QED
    BY <1>2, <1>4, <2>1, <2>2, <2>4 DEF KeyInv, Keys!NoKey
<1>7. CASE ~(found = Keys!NoKey /\ keyBackup = Keys!NoKey /\ keyLegacy # Keys!NoKey)
  <2>1. UNCHANGED <<keyBackup, saves, keyExcused, keyLegacy>>
    BY <1>1, <1>7
  <2>2. keyExcused' = {} => KeySettled'
    BY <1>2, <1>7, <2>1 DEF KeyInv, KeySettled
  <2> QED
    BY <1>2, <1>4, <2>1, <2>2 DEF KeyInv
<1> QED
  BY <1>6, <1>7

LEMMA StoredKeys ==
    ASSUME KeyInv, NEW s \in saves, Keys!Stored(s)
    PROVE  KeyInv'
<1>1. /\ saves' = saves \ {s} /\ UNCHANGED <<keyBackup, keyLegacy, keyLoads, keyEdits, keyWanted>>
      /\ \/ keyKeychain' = s.key /\ UNCHANGED keyExcused
         \/ keyKeychain' = keyKeychain /\ (keyExcused' = {} => keyExcused = {} /\ keyKeychain = Keys!NoKey)
  BY DEF Keys!Stored
<1>2. s \in KeySave /\ s.key \in Nat
  BY DEF KeyInv, KeySave
<1>3. form' \in [open : BOOLEAN, has : BOOLEAN, key : Nat, saving : BOOLEAN]
  BY <1>2 DEF Keys!Stored, Keys!Hands, KeyInv, KeySave
<1>4. keyExcused' = {} => KeySettled'
  BY <1>1 DEF KeyInv, KeySettled
<1> QED
  BY <1>1, <1>2, <1>3, <1>4 DEF KeyInv

LEMMA NextKeys == KeyInv /\ [Keys!Next]_Keys!vars => KeyInv'
<1> SUFFICES ASSUME KeyInv, [Keys!Next]_Keys!vars PROVE KeyInv'
  OBVIOUS
<1>1. ASSUME UNCHANGED Keys!vars PROVE KeyInv'
  BY <1>1 DEF Keys!vars, Keys!counters, KeyInv, KeySettled
<1>2. ASSUME Keys!AssistantMounts \/ Keys!DialogOpens \/ Keys!DialogCloses PROVE KeyInv'
  <2>1. /\ UNCHANGED <<keyKeychain, keyBackup, keyLegacy, saves, keyEdits, keyWanted, keyExcused>>
        /\ keyLoads \subseteq keyLoads' /\ form'.has = form.has
        /\ form' \in [open : BOOLEAN, has : BOOLEAN, key : Nat, saving : BOOLEAN]
    BY <1>2 DEF Keys!AssistantMounts, Keys!DialogOpens, Keys!DialogCloses, Keys!Asks, Keys!counters,
                KeyInv
  <2>2. keyExcused' = {} => KeySettled'
    <3> SUFFICES ASSUME keyExcused' = {} PROVE KeySettled'
      OBVIOUS
    <3>1. KeySettled
      BY <2>1 DEF KeyInv
    <3> QED
      BY <2>1, <3>1 DEF KeySettled, Keys!NoKey
  <2> QED
    BY <2>1, <2>2 DEF KeyInv
<1>3. ASSUME NEW key \in 0 .. MaxTyped, Keys!Types(key) PROVE KeyInv'
  <2>1. /\ UNCHANGED <<keyKeychain, keyBackup, keyLegacy, saves, keyLoads, keyWanted>>
        /\ keyEdits' = keyEdits + 1 /\ key \in {Keys!NoKey, keyEdits + 1}
        /\ keyExcused' = IF keyLoads = {} THEN keyExcused ELSE keyExcused \cup {"typed"}
        /\ form' = [form EXCEPT !.has = TRUE, !.key = key]
    BY <1>3 DEF Keys!Types
  <2>2. key \in Nat /\ keyEdits' \in Nat
    BY <2>1 DEF KeyInv, Keys!NoKey
  <2>3. form' \in [open : BOOLEAN, has : BOOLEAN, key : Nat, saving : BOOLEAN]
    BY <2>1, <2>2 DEF KeyInv
  <2>4. keyExcused' = {} => keyLoads = {} /\ KeySettled
    BY <2>1 DEF KeyInv
  <2>5. keyExcused' = {} => KeySettled'
    BY <2>1, <2>4 DEF KeySettled
  <2> QED
    BY <2>1, <2>5, <2>2, <2>3 DEF KeyInv
<1>4. ASSUME Keys!FormSaves PROVE KeyInv'
  <2>1. form.has /\ keyWanted' = form.key /\ form.key \in Nat /\ Keys!Saves("form", form.key)
        /\ UNCHANGED <<keyKeychain, keyLegacy, keyLoads, keyEdits>>
    BY <1>4 DEF Keys!FormSaves, Keys!counters, KeyInv
  <2>2. form' \in [open : BOOLEAN, has : BOOLEAN, key : Nat, saving : BOOLEAN]
    BY <1>4 DEF Keys!FormSaves, KeyInv
  <2>3. /\ keyBackup' = keyWanted' /\ keyBackup' \in Nat /\ saves' \subseteq KeySave
        /\ keyExcused' = {} => keyExcused = {} /\ \E s : saves' = {s} /\ s.key = keyWanted'
    BY <2>1, SavesKey
  <2>4. keyExcused' = {} => KeySettled'
    <3> SUFFICES ASSUME keyExcused' = {} PROVE KeySettled'
      OBVIOUS
    <3>1. keyLegacy = Keys!NoKey
      BY <2>1, <2>3 DEF KeyInv, KeySettled
    <3> QED
      BY <3>1, <2>1, <2>3 DEF KeySettled
  <2> QED
    BY <2>1, <2>2, <2>3, <2>4 DEF KeyInv
<1>5. ASSUME Keys!WizardSaves PROVE KeyInv'
  <2>1. /\ "start" \notin keyLoads /\ keyWanted' = keyEdits + 1 /\ keyEdits' = keyEdits + 1
        /\ Keys!Saves("wizard", keyEdits + 1) /\ keyEdits + 1 \in Nat
        /\ UNCHANGED <<keyKeychain, keyLegacy, keyLoads, form>>
    BY <1>5 DEF Keys!WizardSaves, KeyInv
  <2>3. /\ keyBackup' = keyWanted' /\ keyBackup' \in Nat /\ saves' \subseteq KeySave
        /\ keyExcused' = {} => keyExcused = {} /\ \E s : saves' = {s} /\ s.key = keyWanted'
    BY <2>1, SavesKey
  <2>4. keyExcused' = {} => KeySettled'
    <3> SUFFICES ASSUME keyExcused' = {} PROVE KeySettled'
      OBVIOUS
    <3>1. keyLegacy = Keys!NoKey
      BY <2>1, <2>3 DEF KeyInv, KeySettled
    <3> QED
      BY <3>1, <2>1, <2>3 DEF KeySettled
  <2> QED
    BY <2>1, <2>3, <2>4 DEF KeyInv
<1>6. ASSUME Keys!Restart PROVE KeyInv'
  BY <1>6 DEF Keys!Restart, Keys!Closed, Keys!NoKey, KeyInv, KeySettled, KeySave
<1> QED
  BY <1>1, <1>2, <1>3, <1>4, <1>5, <1>6, LoadedKeys, StoredKeys DEF Keys!Next

\* The key saved last is the one the next load finds (types.ts 293-360), through failing writes,
\* the migration of the older name and restarts, with the exceptions that KeyIsFound names.
THEOREM KeyFound == Keys!Spec => []KeyIsFound
<1>1. KeyInv => KeyIsFound
  BY DEF KeyInv, KeySettled, KeyIsFound, Keys!KeyIsFound, Keys!Found, Keys!NoKey
<1> QED
  BY <1>1, InitKeys, NextKeys, PTL DEF Keys!Spec

-----------------------------------------------------------------------------
(* The Google sign-in.                                                     *)

Disconnecting == writes["disconnect"] # << >>

\* A disconnect takes fields away, everyone else stores them.
WritesShape ==
    /\ DOMAIN writes = Google!Writer
    /\ \A w \in Google!Writer : writes[w] \in Seq(Google!Field \X {w # "disconnect"})

\* The field is in the backup, or among the values after the first.
Coming(f, fields, values) == f \in fields \/ \E k \in 2 .. Len(values) : values[k][1] = f

SignInInv ==
    /\ WritesShape
    /\ signedIn => ~Disconnecting /\ {"access", "expiry"} \subseteq signBackup
    /\ \A p \in Place \ mixed : writes[p] # << >> =>
         ~Disconnecting /\ \A f \in {"access", "expiry"} : Coming(f, signBackup, writes[p])

\* The values of a sign-in, of a refresh and of a disconnect.
LEMMA Values ==
    ASSUME NEW b \in BOOLEAN
    PROVE  /\ << <<"access", b>>, <<"refresh", b>>, <<"expiry", b>> >> \in Seq(Google!Field \X {b})
           /\ << <<"access", b>>, <<"expiry", b>> >> \in Seq(Google!Field \X {b})
<1>1. \A S : \A x, y, z \in S : <<x, y, z>> \in Seq(S) /\ <<x, y>> \in Seq(S)
  OBVIOUS
<1>2. <<"access", b>> \in Google!Field \X {b} /\ <<"refresh", b>> \in Google!Field \X {b}
      /\ <<"expiry", b>> \in Google!Field \X {b}
  BY Zenon DEF Google!Field
<1> QED
  BY <1>1, <1>2

\* What a writer that stores does to the backup.
LEMMA WritingSignIn ==
    ASSUME SignInInv, Google!SignInAssumption, NEW w \in Place \cup Loader,
           NEW values \in Seq(Google!Field \X {TRUE}), Google!Begins(w, values)
    PROVE  /\ WritesShape' /\ writes' = [writes EXCEPT ![w] = values]
           /\ Disconnecting' <=> Disconnecting
           /\ signBackup \subseteq signBackup'
           /\ values # << >> => values[1][1] \in signBackup'
<1>1. w # "disconnect" /\ w \in Google!Writer /\ "disconnect" \in Google!Writer
  BY DEF Google!SignInAssumption, Google!Disconnect, Google!Writer
<1>2. writes' = [writes EXCEPT ![w] = values]
      /\ signBackup' = IF values = << >> THEN signBackup
                       ELSE Google!Put(signBackup, values[1][2], values[1][1])
  BY DEF Google!Begins
<1>3. WritesShape' /\ (Disconnecting' <=> Disconnecting)
  BY <1>1, <1>2 DEF SignInInv, WritesShape, Disconnecting
<1>4. values # << >> => values[1][2] = TRUE
  <2>1. \A S : values \in Seq(S) /\ values # << >> => values[1] \in S
    OBVIOUS
  <2>2. \A v \in Google!Field \X {TRUE} : v[2] = TRUE
    BY Zenon
  <2> QED
    BY <2>1, <2>2
<1> QED
  BY <1>2, <1>3, <1>4 DEF Google!Put

LEMMA Exchanged ==
    ASSUME SignInInv, Google!SignInAssumption, NEW p \in Place, Google!Exchanges(p)
    PROVE  SignInInv'
<1>1. PICK values \in { << <<"access", TRUE>>, <<"refresh", TRUE>>, <<"expiry", TRUE>> >>,
                        << <<"access", TRUE>>, <<"expiry", TRUE>> >> } : Google!Begins(p, values)
  BY DEF Google!Exchanges
<1>2. values \in Seq(Google!Field \X {TRUE})
  BY <1>1, Values
<1>3. /\ values # << >> /\ values[1][1] = "access"
       /\ Len(values) \in {2, 3} /\ values[Len(values)][1] = "expiry"
  <2>1. CASE values = << <<"access", TRUE>>, <<"refresh", TRUE>>, <<"expiry", TRUE>> >>
    BY <2>1
  <2>2. CASE values = << <<"access", TRUE>>, <<"expiry", TRUE>> >>
    BY <2>2
  <2> QED
    BY <1>1, <2>1, <2>2
<1>4. /\ WritesShape' /\ writes' = [writes EXCEPT ![p] = values]
      /\ Disconnecting' <=> Disconnecting
      /\ signBackup \subseteq signBackup' /\ "access" \in signBackup'
  BY <1>1, <1>2, <1>3, WritingSignIn
<1>5. /\ mixed' = IF Disconnecting THEN mixed \cup {p} ELSE mixed \ {p}
      /\ signedIn' = signedIn
  BY DEF Google!Exchanges, Google!Disconnect, Disconnecting
<1>6. \A f \in {"access", "expiry"} : Coming(f, signBackup', values)
  BY <1>3, <1>4 DEF Coming
<1>7. ASSUME NEW q \in Place \ mixed', writes'[q] # << >>
      PROVE  ~Disconnecting' /\ \A f \in {"access", "expiry"} : Coming(f, signBackup', writes'[q])
  <2>1. CASE q = p
    BY <1>4, <1>5, <1>6, <1>7, <2>1 DEF SignInInv, WritesShape, Google!Writer
  <2>2. CASE q # p
    BY <1>4, <1>5, <1>7, <2>2 DEF SignInInv, WritesShape, Google!Writer, Coming
  <2> QED
    BY <2>1, <2>2
<1> QED
  BY <1>4, <1>5, <1>7 DEF SignInInv

LEMMA RefreshedSignIn ==
    ASSUME SignInInv, Google!SignInAssumption, NEW r \in Loader, Google!Refreshed(r)
    PROVE  SignInInv'
<1>1. UNCHANGED <<signedIn, mixed>>
  BY DEF Google!Refreshed, Google!ghosts
<1>2. CASE UNCHANGED <<writes, signBackup>>
  BY <1>1, <1>2 DEF SignInInv, WritesShape, Disconnecting, Google!Writer
<1>3. CASE Google!Begins(r, << <<"access", TRUE>>, <<"expiry", TRUE>> >>)
  <2>1. << <<"access", TRUE>>, <<"expiry", TRUE>> >> \in Seq(Google!Field \X {TRUE})
    BY Values
  <2>2. /\ WritesShape' /\ \A p \in Place : writes'[p] = writes[p]
        /\ Disconnecting' <=> Disconnecting
        /\ signBackup \subseteq signBackup'
    BY <1>3, <2>1, WritingSignIn DEF SignInInv, WritesShape, Google!Writer, Google!SignInAssumption
  <2> QED
    BY <1>1, <2>2 DEF SignInInv, Coming
<1> QED
  BY <1>2, <1>3 DEF Google!Refreshed

LEMMA StoredSignIn ==
    ASSUME SignInInv, Google!SignInAssumption, NEW w \in Google!Writer, Google!Stores(w)
    PROVE  SignInInv'
<1> DEFINE values == writes[w]
<1>1. /\ values # << >> /\ Google!Begins(w, Tail(values)) /\ mixed' = mixed
      /\ signedIn' = (signedIn \/ (w \in Place \ mixed /\ Len(values) = 1))
  BY DEF Google!Stores
<1>2. values \in Seq(Google!Field \X {w # "disconnect"})
  BY DEF SignInInv, WritesShape
<1>3. /\ Tail(values) \in Seq(Google!Field \X {w # "disconnect"})
      /\ Len(Tail(values)) = Len(values) - 1
      /\ \A k \in 1 .. Len(Tail(values)) : Tail(values)[k] = values[k + 1]
      /\ Len(values) \in Nat \ {0}
  BY <1>1, <1>2
<1> DEFINE rest == Tail(values)
<1> HIDE DEF rest
<1>4. CASE w = "disconnect"
  <2>1. Disconnecting /\ ~signedIn /\ w \notin Place
    BY <1>1, <1>4 DEF Disconnecting, SignInInv, Google!SignInAssumption, Google!Disconnect
  <2>2. ~signedIn' /\ writes' = [writes EXCEPT ![w] = rest]
    BY <1>1, <2>1 DEF Google!Begins, rest
  <2>3. WritesShape'
    BY <1>3, <2>2 DEF SignInInv, WritesShape, rest
  <2>4. \A p \in Place \ mixed' : writes'[p] = << >>
    BY <1>1, <2>1, <2>2 DEF SignInInv, WritesShape, Google!Writer
  <2> QED
    BY <2>2, <2>3, <2>4 DEF SignInInv
<1>5. CASE w # "disconnect"
  <2>1. w \in Place \cup Loader /\ rest \in Seq(Google!Field \X {TRUE})
    BY <1>3, <1>5 DEF Google!Writer, Google!Disconnect, rest
  <2>2. /\ WritesShape' /\ writes' = [writes EXCEPT ![w] = rest]
        /\ Disconnecting' <=> Disconnecting
        /\ signBackup \subseteq signBackup'
        /\ rest # << >> => rest[1][1] \in signBackup'
    BY <1>1, <2>1, WritingSignIn DEF rest
  <2>3. ASSUME NEW p \in Place \ mixed', writes'[p] # << >>
        PROVE  ~Disconnecting' /\ \A f \in {"access", "expiry"} : Coming(f, signBackup', writes'[p])
    <3>1. CASE p = w
      <4>1. ~Disconnecting /\ \A f \in {"access", "expiry"} : Coming(f, signBackup, values)
        BY <1>1, <2>3, <3>1 DEF SignInInv
      <4>2. writes'[p] = rest
        BY <2>2, <3>1 DEF SignInInv, WritesShape
      <4>3. ASSUME NEW f \in {"access", "expiry"} PROVE Coming(f, signBackup', rest)
        <5>1. CASE f \in signBackup
          BY <2>2, <5>1 DEF Coming
        <5>2. ASSUME NEW k \in 2 .. Len(values), values[k][1] = f PROVE Coming(f, signBackup', rest)
          <6>1. rest[k - 1][1] = f /\ k - 1 \in 1 .. Len(rest)
            BY <1>3, <5>2 DEF rest
          <6> QED
            BY <2>2, <6>1, <2>1 DEF Coming
        <5> QED
          BY <4>1, <5>1, <5>2 DEF Coming
      <4> QED
        BY <2>2, <4>1, <4>2, <4>3
    <3>2. CASE p # w
      BY <1>1, <2>2, <2>3, <3>2 DEF SignInInv, WritesShape, Google!Writer, Coming
    <3> QED
      BY <3>1, <3>2
  <2>4. CASE w \in Place \ mixed /\ Len(values) = 1
    <3>1. ~Disconnecting /\ \A f \in {"access", "expiry"} : Coming(f, signBackup, values)
      BY <1>1, <2>4 DEF SignInInv
    <3>2. \A f \in {"access", "expiry"} : f \in signBackup
      BY <2>4, <3>1 DEF Coming
    <3> QED
      BY <2>2, <2>3, <3>1, <3>2 DEF SignInInv
  <2>5. CASE ~(w \in Place \ mixed /\ Len(values) = 1)
    BY <1>1, <2>2, <2>3, <2>5 DEF SignInInv
  <2> QED
    BY <2>4, <2>5
<1> QED
  BY <1>4, <1>5

LEMMA NextSignIn == Google!SignInAssumption /\ SignInInv /\ [Google!Next]_Google!vars => SignInInv'
<1> SUFFICES ASSUME Google!SignInAssumption, SignInInv, [Google!Next]_Google!vars PROVE SignInInv'
  OBVIOUS
<1>1. ASSUME UNCHANGED <<writes, signBackup, signedIn, mixed>> PROVE SignInInv'
  BY <1>1 DEF SignInInv, WritesShape, Disconnecting
<1>2. ASSUME Google!Disconnects PROVE SignInInv'
  <2> DEFINE values == << <<"access", FALSE>>, <<"refresh", FALSE>>, <<"expiry", FALSE>> >>
  <2>1. /\ writes' = [writes EXCEPT !["disconnect"] = values] /\ ~signedIn'
        /\ mixed' = mixed \cup {p \in Place : writes[p] # << >>}
    BY <1>2 DEF Google!Disconnects, Google!Begins, Google!Disconnect
  <2>2. values \in Seq(Google!Field \X {FALSE})
    BY Values
  <2> HIDE DEF values
  <2>3. WritesShape'
    BY <2>1, <2>2 DEF SignInInv, WritesShape
  <2>4. \A p \in Place \ mixed' : writes'[p] = << >>
    BY <2>1 DEF SignInInv, WritesShape, Google!SignInAssumption, Google!Disconnect, Google!Writer
  <2> QED
    BY <2>1, <2>3, <2>4 DEF SignInInv
<1>3. ASSUME Google!Restart PROVE SignInInv'
  <2>1. writes' = [w \in Google!Writer |-> << >>] /\ UNCHANGED <<signBackup, signedIn, mixed>>
    BY <1>3 DEF Google!Restart, Google!ghosts
  <2> QED
    BY <2>1 DEF SignInInv, WritesShape, Disconnecting, Google!Writer, Google!Disconnect
<1>4. ASSUME NEW p \in Place, \/ Google!Starts(p) \/ Google!PortTimesOut(p) \/ Google!ExchangeFails(p)
      PROVE  SignInInv'
  BY <1>1, <1>4 DEF Google!Starts, Google!PortTimesOut, Google!ExchangeFails, Google!stores, Google!ghosts
<1>5. ASSUME NEW n \in Google!Attempt,
             Google!Binds(n) \/ Google!BindFails(n) \/ Google!StrayConnects(n) \/ Google!ServerTimesOut(n)
      PROVE  SignInInv'
  BY <1>1, <1>5 DEF Google!Binds, Google!BindFails, Google!StrayConnects, Google!ServerTimesOut,
                    Google!stores, Google!ghosts
<1>6. ASSUME NEW page \in pages, Google!Redirects(page) \/ Google!Declines(page) \/ Google!Leaves(page)
      PROVE  SignInInv'
  BY <1>1, <1>6 DEF Google!Redirects, Google!Declines, Google!Leaves, Google!stores, Google!ghosts
<1>7. ASSUME NEW r \in Loader,
             Google!Loads(r) \/ Google!Reads(r) \/ Google!Answers(r) \/ Google!Refreshes(r)
      PROVE  SignInInv'
  BY <1>1, <1>7 DEF Google!Loads, Google!Reads, Google!Answers, Google!Refreshes, Google!stores,
                    Google!ghosts
<1>8. ASSUME UNCHANGED Google!vars PROVE SignInInv'
  BY <1>1, <1>8 DEF Google!vars, Google!stores, Google!ghosts
<1> QED
  BY <1>2, <1>3, <1>4, <1>5, <1>6, <1>7, <1>8, Exchanged, RefreshedSignIn, StoredSignIn DEF Google!Next

\* A sign-in stays (googleOAuth.ts 240-300): until a disconnect a token and its expiry are
\* found, whatever the keychain does and whoever else refreshes or signs in.
THEOREM SignInStays == Google!Spec => []SignedInStays
<1> Google!SignInAssumption
  BY StoresAssumption
<1>1. Google!Init => SignInInv
  <2> SUFFICES ASSUME Google!Init PROVE SignInInv
    OBVIOUS
  <2>1. writes = [w \in Google!Writer |-> << >>] /\ ~signedIn
    BY DEF Google!Init
  <2>2. \A S : << >> \in Seq(S)
    OBVIOUS
  <2> QED
    BY <2>1, <2>2 DEF SignInInv, WritesShape, Google!Writer
<1>2. SignInInv /\ [Google!Next]_Google!vars => SignInInv'
  BY NextSignIn
<1>3. SignInInv => SignedInStays
  BY DEF SignInInv, SignedInStays, Google!SignedInStays
<1> QED
  BY <1>1, <1>2, <1>3, PTL DEF Google!Spec

-----------------------------------------------------------------------------
(* The documents of the window.                                            *)

List == Seq(Nat)
Asked == [call : {"load", "save", "delete"}, list : List, by : {"panel", "another", "nobody"}]

DocsTyped ==
    /\ cache \in List \cup {None} /\ docFile \in List \cup {None, Torn} /\ docLegacy \in List \cup {None}
    /\ queue \in Seq(Asked)
    /\ docShown \in List /\ docWanted \in List
    /\ docEdits \in Nat
    /\ \A i \in DOMAIN queue : queue[i].call = "save" => cache # None

\* The calls are saves of edits, which nobody awaits, and then, at most, a delete, loads, and
\* what these save; no edit is made while these are under way.
QueueOrder ==
    /\ \A i \in DOMAIN queue : queue[i].by = "nobody" => queue[i].call = "save"
    /\ \A i, j \in DOMAIN queue : i < j /\ queue[j].by = "nobody" => queue[i].by = "nobody"
    /\ \A i, j \in DOMAIN queue : i < j /\ queue[j].call = "delete" => queue[i].by = "nobody"
    /\ \A i \in DOMAIN queue : queue[i].call = "delete" => docWanted = << >> /\ queue[i].by # "nobody"

Clean == \A i \in DOMAIN queue : queue[i].by # "nobody" /\ queue[i].call # "delete"

\* The file has what is wanted, and nothing under way changes that.
AllInFile ==
    /\ docLegacy = None /\ docFile = docWanted
    /\ \A i \in DOMAIN queue : queue[i].call = "load"

\* What the calls carry.
QueueCarries ==
    /\ \A i \in DOMAIN queue : queue[i].call = "save" /\ queue[i].by # "nobody" => queue[i].list = docWanted
    /\ \A i \in DOMAIN queue : queue[i].call = "load" => queue[i].list = docWanted \/ AllInFile
    /\ \A i \in DOMAIN queue : queue[i].by = "nobody" =>
          \/ queue[i].list = docWanted
          \/ i + 1 \in DOMAIN queue /\ queue[i + 1].by = "nobody"
          \/ i + 1 \in DOMAIN queue /\ queue[i + 1].call = "delete"

\* Before the cache is known to be whole there are only loads.
Unknown ==
    /\ \A i \in DOMAIN queue : queue[i].call = "load"
    /\ Docs!Readable => docLegacy = None
    /\ cache # None => Docs!Readable
    /\ cache = None /\ kind \notin Docs!Hydrated => queue = << >>

DocsSettled ==
    /\ QueueOrder /\ QueueCarries
    /\ Clean => Docs!Stored = docWanted
    /\ IF known THEN cache = docWanted ELSE Unknown
    /\ panel => \/ docShown = docWanted
                \/ \E i \in DOMAIN queue : queue[i].by = "panel" /\ queue[i].call \in {"load", "save"}

DocsInv == DocsTyped /\ (docExcused = {} => DocsSettled)
LEMMA InitDocs == Docs!DocumentsAssumption /\ Docs!Init => DocsInv
<1> SUFFICES ASSUME Docs!DocumentsAssumption, Docs!Init PROVE DocsInv
  OBVIOUS
<1>1. queue = << >> /\ cache = None /\ docFile = None /\ docLegacy \in {None, <<1>>} /\ ~known /\ ~panel
      /\ docShown = << >> /\ docEdits = 1 /\ docWanted = Docs!Stored
  BY DEF Docs!Init
<1>2. << >> \in List /\ <<1>> \in List /\ << >> \in Seq(Asked)
  BY DEF List
<1>3. Docs!Stored \in List /\ ~Docs!Readable
  BY <1>1, <1>2 DEF Docs!Stored, Docs!Readable
<1> QED
  BY <1>1, <1>2, <1>3 DEF DocsInv, DocsTyped, DocsSettled, QueueOrder, QueueCarries, Unknown

LEMMA Taken ==
    ASSUME NEW S, NEW q \in Seq(S), q # << >>
    PROVE  /\ Tail(q) \in Seq(S) /\ 1 \in DOMAIN q /\ Head(q) = q[1] /\ Head(q) \in S
           /\ \A i \in DOMAIN Tail(q) : i + 1 \in DOMAIN q /\ Tail(q)[i] = q[i + 1] /\ i \in Nat \ {0}
           /\ \A i \in DOMAIN q : i # 1 => i - 1 \in DOMAIN Tail(q)
           /\ \A i \in DOMAIN q : i + 1 \in DOMAIN q => i \in DOMAIN Tail(q)
OBVIOUS

LEMMA Added ==
    ASSUME NEW S, NEW q \in Seq(S), NEW c \in S
    PROVE  /\ Append(q, c) \in Seq(S) /\ Len(q) \in Nat
           /\ DOMAIN q = 1 .. Len(q) /\ DOMAIN Append(q, c) = 1 .. Len(q) + 1
           /\ \A i \in 1 .. Len(q) : Append(q, c)[i] = q[i]
           /\ Append(q, c)[Len(q) + 1] = c
OBVIOUS

LEMMA StoredList == ASSUME DocsTyped PROVE Docs!Stored \in List
<1>1. << >> \in List
  BY DEF List
<1> QED
  BY <1>1 DEF DocsTyped, Docs!Stored, Docs!Readable

LEMMA CachedList == ASSUME DocsTyped PROVE Docs!Cached \in List
<1>1. << >> \in List
  BY DEF List
<1> QED
  BY <1>1 DEF DocsTyped, Docs!Cached

\* What a module has when it is asked: what is wanted, or a list that is replaced when the
\* file is read.
LEMMA CachedCarries ==
    ASSUME Docs!DocumentsAssumption, DocsTyped, DocsSettled, kind \notin Docs!Hydrated
    PROVE  \/ Docs!Cached = docWanted /\ (Docs!Knows \/ (AllInFile /\ Docs!Readable))
           \/ ~known /\ ~Docs!Knows /\ AllInFile /\ Docs!Readable
<1>1. None \notin List /\ Torn \notin List
  BY DEF Docs!DocumentsAssumption, List
<1>2. CASE known
  <2>1. cache = docWanted /\ cache # None
    BY <1>1, <1>2 DEF DocsSettled, DocsTyped
  <2>2. Docs!Knows
    BY <1>2 DEF Docs!Knows
  <2>3. Docs!Cached = docWanted
    BY <2>1 DEF Docs!Cached
  <2> QED
    BY <2>2, <2>3
<1>3. CASE ~known
  <2>1. Unknown
    BY <1>3 DEF DocsSettled
  <2>2. Clean /\ Docs!Stored = docWanted
    <3>1. \A i \in DOMAIN queue : queue[i].by # "nobody" /\ queue[i].call = "load"
      BY <2>1 DEF Unknown, DocsSettled, QueueOrder
    <3> QED
      BY <3>1 DEF Clean, DocsSettled
  <2>3. Docs!Readable => AllInFile
    BY <2>1, <2>2 DEF Unknown, AllInFile, Docs!Stored
  <2>4. ~Docs!Readable => cache = None /\ queue = << >> /\ Docs!Cached = Docs!Stored
    BY <2>1 DEF Unknown, Docs!Cached, Docs!Stored
  <2>5. Docs!Readable => ~Docs!Knows
    BY <1>3 DEF Docs!Knows
  <2>6. ~Docs!Readable => Docs!Knows
    BY <2>4 DEF Docs!Knows
  <2> QED
    BY <1>3, <2>2, <2>3, <2>4, <2>5, <2>6
<1> QED
  BY <1>2, <1>3

LEMMA ListEnsured ==
    ASSUME Docs!DocumentsAssumption, DocsInv, NEW by \in {"panel", "another"},
           kind \notin Docs!Hydrated, Docs!EnsureListLoaded(by), known' = Docs!Knows,
           UNCHANGED <<kind, docFile, docLegacy, docWanted, docEdits, docExcused>>, docShown' \in List
    PROVE  /\ DocsTyped'
           /\ docExcused = {} =>
                /\ QueueOrder' /\ QueueCarries' /\ (Clean' => Docs!Stored' = docWanted')
                /\ IF known' THEN cache' = docWanted' ELSE Unknown'
                /\ \A i \in DOMAIN queue : i \in DOMAIN queue' /\ queue'[i] = queue[i]
                /\ by = "panel" => \E i \in DOMAIN queue' : queue'[i].by = "panel"
                                                            /\ queue'[i].call \in {"load", "save"}
<1> DEFINE c == [call |-> "load", list |-> Docs!Cached, by |-> by]
<1>1. queue' = Append(queue, c) /\ cache' = Docs!Cached
  BY DEF Docs!EnsureListLoaded, Docs!Call
<1>2. c \in Asked /\ c.call = "load" /\ c.by = by /\ c.list = Docs!Cached
  BY CachedList DEF DocsInv, Asked
<1> HIDE DEF c
<1>3. /\ queue' \in Seq(Asked) /\ Len(queue) \in Nat
      /\ DOMAIN queue = 1 .. Len(queue) /\ DOMAIN queue' = 1 .. Len(queue) + 1
      /\ \A i \in 1 .. Len(queue) : queue'[i] = queue[i]
      /\ queue'[Len(queue) + 1] = c
  BY <1>1, <1>2, Added DEF DocsInv, DocsTyped
<1>4. DocsTyped'
  <2>1. cache' # None /\ cache' \in List
    BY <1>1, CachedList DEF DocsInv, Docs!DocumentsAssumption, List
  <2> QED
    BY <1>3, <2>1 DEF DocsInv, DocsTyped
<1>5. ASSUME docExcused = {}
      PROVE  /\ QueueOrder' /\ QueueCarries' /\ (Clean' => Docs!Stored' = docWanted')
             /\ IF known' THEN cache' = docWanted' ELSE Unknown'
  <2>1. DocsTyped /\ DocsSettled
    BY <1>5 DEF DocsInv
  <2>2. \/ Docs!Cached = docWanted /\ (Docs!Knows \/ (AllInFile /\ Docs!Readable))
        \/ ~known /\ ~Docs!Knows /\ AllInFile /\ Docs!Readable
    BY <2>1, CachedCarries
  <2>3. QueueOrder'
    BY <1>2, <1>3, <2>1 DEF DocsSettled, QueueOrder
  <2>4. AllInFile => AllInFile'
    BY <1>2, <1>3 DEF AllInFile
  <2>5. QueueCarries'
    BY <1>2, <1>3, <2>1, <2>2, <2>4 DEF DocsSettled, QueueCarries
  <2>6. Clean' => Docs!Stored' = docWanted'
    BY <1>3, <2>1 DEF DocsSettled, Clean, Docs!Stored, Docs!Readable
  <2>7. IF known' THEN cache' = docWanted' ELSE Unknown'
    <3>1. CASE known'
      <4>1. Docs!Cached = docWanted
        BY <2>2, <3>1
      <4> QED
        BY <1>1, <3>1, <4>1
    <3>2. CASE ~known'
      <4>1. AllInFile /\ Docs!Readable
        BY <2>2, <3>2
      <4>2. cache' # None
        BY <1>1, CachedList, <2>1 DEF Docs!DocumentsAssumption, List
      <4> QED
        BY <1>2, <1>3, <3>2, <4>1, <4>2 DEF Unknown, AllInFile, Docs!Readable
    <3> QED
      BY <3>1, <3>2
  <2> QED
    BY <2>2, <2>3, <2>5, <2>6, <2>7
<1>6. Len(queue) + 1 \in DOMAIN queue' /\ queue'[Len(queue) + 1].by = by
      /\ queue'[Len(queue) + 1].call = "load"
  BY <1>2, <1>3
<1> QED
  BY <1>3, <1>4, <1>5, <1>6
LEMMA EnsuredDocs ==
    ASSUME Docs!DocumentsAssumption, DocsInv,
           Docs!EnsureLoaded \/ Docs!PanelOpens \/ Docs!SearchReadsHistory
    PROVE  DocsInv'
<1>1. CASE Docs!EnsureLoaded
  <2> DEFINE list == IF docLegacy # None THEN docLegacy ELSE << >>
             c == [call |-> "load", list |-> list, by |-> "another"]
  <2>1. queue = << >> /\ queue' = <<c>>
        /\ UNCHANGED <<kind, cache, panel, docShown, docFile, docLegacy, docEdits, docWanted,
                       known, docExcused>>
        /\ kind \in Docs!Hydrated
    BY <1>1 DEF Docs!EnsureLoaded, Docs!Call, Docs!window, Docs!ghosts
  <2>2. list \in List
    BY DEF DocsInv, DocsTyped, List
  <2>3. c \in Asked /\ c.call = "load" /\ c.by = "another" /\ c.list = list
    BY <2>2 DEF Asked
  <2> HIDE DEF c
  <2>4. queue' \in Seq(Asked) /\ DOMAIN queue' = {1} /\ queue'[1] = c
    BY <2>1, <2>3
  <2>5. DocsTyped'
    BY <2>1, <2>3, <2>4 DEF DocsInv, DocsTyped
  <2>6. ASSUME docExcused = {} PROVE DocsSettled'
    <3>1. DocsTyped /\ DocsSettled
      BY <2>6 DEF DocsInv
    <3>2. Docs!Stored = docWanted
      BY <2>1, <3>1 DEF DocsSettled, Clean
    <3>3. list = docWanted \/ (docLegacy = None /\ docFile = docWanted)
      BY <3>2 DEF Docs!Stored
    <3>4. QueueOrder' /\ QueueCarries'
      BY <2>1, <2>3, <2>4, <3>3 DEF QueueOrder, QueueCarries, AllInFile
    <3>5. Docs!Stored' = docWanted'
      BY <2>1, <3>2 DEF Docs!Stored, Docs!Readable
    <3>6. IF known' THEN cache' = docWanted' ELSE Unknown'
      BY <2>1, <2>3, <2>4, <3>1 DEF DocsSettled, Unknown, Docs!Readable
    <3>7. panel' => docShown' = docWanted'
      BY <2>1, <3>1 DEF DocsSettled
    <3> QED
      BY <3>4, <3>5, <3>6, <3>7 DEF DocsSettled
  <2> QED
    BY <2>1, <2>5, <2>6 DEF DocsInv
<1>2. CASE Docs!PanelOpens
  <2>1. /\ kind \notin Docs!Hydrated /\ Docs!EnsureListLoaded("panel") /\ known' = Docs!Knows
        /\ UNCHANGED <<kind, docFile, docLegacy, docWanted, docEdits, docExcused>>
         /\ docShown' = Docs!Cached
    BY <1>2 DEF Docs!PanelOpens, Docs!Listed, Docs!Hydrated
  <2>2. docShown' \in List
    BY <2>1, CachedList DEF DocsInv
  <2>3. /\ DocsTyped'
        /\ docExcused = {} =>
             /\ QueueOrder' /\ QueueCarries' /\ (Clean' => Docs!Stored' = docWanted')
             /\ IF known' THEN cache' = docWanted' ELSE Unknown'
             /\ \E i \in DOMAIN queue' : queue'[i].by = "panel" /\ queue'[i].call \in {"load", "save"}
    BY <2>1, <2>2, ListEnsured
  <2> QED
    BY <2>1, <2>3 DEF DocsInv, DocsSettled
<1>3. CASE Docs!SearchReadsHistory
  <2>1. /\ kind \notin Docs!Hydrated /\ Docs!EnsureListLoaded("another") /\ known' = Docs!Knows
        /\ UNCHANGED <<kind, docFile, docLegacy, docWanted, docEdits, docExcused, docShown, panel>>
    BY <1>3 DEF Docs!SearchReadsHistory, Docs!Hydrated
  <2>2. docShown' \in List
    BY <2>1 DEF DocsInv, DocsTyped
  <2>3. /\ DocsTyped'
        /\ docExcused = {} =>
             /\ QueueOrder' /\ QueueCarries' /\ (Clean' => Docs!Stored' = docWanted')
             /\ IF known' THEN cache' = docWanted' ELSE Unknown'
             /\ \A i \in DOMAIN queue : i \in DOMAIN queue' /\ queue'[i] = queue[i]
    BY <2>1, <2>2, ListEnsured
  <2>4. docExcused = {} => (panel' => \/ docShown' = docWanted'
                                   \/ \E i \in DOMAIN queue' : queue'[i].by = "panel"
                                                               /\ queue'[i].call \in {"load", "save"})
    BY <2>1, <2>3 DEF DocsInv, DocsSettled
  <2> QED
    BY <2>1, <2>3, <2>4 DEF DocsInv, DocsSettled
<1> QED
  BY <1>1, <1>2, <1>3

LEMMA ClosesDocs ==
    ASSUME DocsInv, Docs!PanelCloses
    PROVE  DocsInv'
<1>1. /\ panel' = FALSE
      /\ queue' = [i \in DOMAIN queue |-> IF queue[i].by = "panel"
                                          THEN [queue[i] EXCEPT !.by = "another"] ELSE queue[i]]
      /\ UNCHANGED <<kind, cache, docShown, docFile, docLegacy, docEdits, docWanted, known, docExcused>>
  BY DEF Docs!PanelCloses, Docs!ghosts
<1>2. /\ DOMAIN queue' = DOMAIN queue /\ queue \in Seq(Asked)
      /\ \A i \in DOMAIN queue : /\ queue'[i] \in Asked /\ queue'[i].call = queue[i].call
                                 /\ queue'[i].list = queue[i].list
                                 /\ queue'[i].by = "nobody" <=> queue[i].by = "nobody"
  <2>1. DOMAIN queue' = DOMAIN queue /\ queue \in Seq(Asked)
    BY <1>1 DEF DocsInv, DocsTyped
  <2>2. ASSUME NEW i \in DOMAIN queue
        PROVE  /\ queue'[i] \in Asked /\ queue'[i].call = queue[i].call
               /\ queue'[i].list = queue[i].list
               /\ queue'[i].by = "nobody" <=> queue[i].by = "nobody"
    <3>1. queue[i] \in Asked
      BY <2>1
    <3>2. CASE queue[i].by = "panel"
      BY <1>1, <3>1, <3>2 DEF Asked
    <3>3. CASE queue[i].by # "panel"
      BY <1>1, <3>1, <3>3 DEF Asked
    <3> QED
      BY <3>2, <3>3
  <2> QED
    BY <2>1, <2>2
<1>3. queue' \in Seq(Asked)
  BY <1>1, <1>2
<1>4. DocsTyped'
  BY <1>1, <1>2, <1>3 DEF DocsInv, DocsTyped
<1>5. ASSUME docExcused = {} PROVE DocsSettled'
  <2>1. DocsSettled
    BY <1>5 DEF DocsInv
  <2>2. QueueOrder'
    BY <1>1, <1>2, <2>1 DEF DocsSettled, QueueOrder
  <2>3. AllInFile => AllInFile'
    BY <1>1, <1>2 DEF AllInFile
  <2>4. QueueCarries'
    BY <1>1, <1>2, <2>1, <2>3 DEF DocsSettled, QueueCarries
  <2>5. Clean' => Docs!Stored' = docWanted'
    BY <1>1, <1>2, <2>1 DEF DocsSettled, Clean, Docs!Stored, Docs!Readable
  <2>6. queue = << >> => queue' = << >>
    BY <1>2, <1>3
  <2>7. IF known' THEN cache' = docWanted' ELSE Unknown'
    BY <1>1, <1>2, <2>1, <2>6 DEF DocsSettled, Unknown, Docs!Readable
  <2> QED
    BY <1>1, <2>2, <2>4, <2>5, <2>7 DEF DocsSettled
<1> QED
  BY <1>1, <1>4, <1>5 DEF DocsInv

LEMMA RenderedDocs ==
    ASSUME Docs!DocumentsAssumption, DocsInv, Docs!FirstRender
    PROVE  DocsInv'
<1>1. /\ kind \notin Docs!Hydrated /\ cache' = Docs!Cached /\ known' = Docs!Knows
      /\ UNCHANGED <<kind, panel, docShown, docFile, docLegacy, queue, docEdits, docWanted, docExcused>>
  BY DEF Docs!FirstRender, Docs!Hydrated, Docs!Values
<1>2. DocsTyped'
  <2>1. cache' # None /\ cache' \in List
    BY <1>1, CachedList DEF DocsInv, Docs!DocumentsAssumption, List
  <2> QED
    BY <1>1, <2>1 DEF DocsInv, DocsTyped
<1>3. ASSUME docExcused = {} PROVE DocsSettled'
  <2>1. DocsTyped /\ DocsSettled
    BY <1>3 DEF DocsInv
  <2>2. \/ Docs!Cached = docWanted /\ (Docs!Knows \/ (AllInFile /\ Docs!Readable))
        \/ ~known /\ ~Docs!Knows /\ AllInFile /\ Docs!Readable
    BY <1>1, <2>1, CachedCarries
  <2>3. QueueOrder' /\ QueueCarries' /\ (Clean' => Docs!Stored' = docWanted')
        /\ (panel' => \/ docShown' = docWanted'
                      \/ \E i \in DOMAIN queue' : queue'[i].by = "panel"
                                                  /\ queue'[i].call \in {"load", "save"})
    BY <1>1, <2>1 DEF DocsSettled, QueueOrder, QueueCarries, AllInFile, Clean, Docs!Stored, Docs!Readable
  <2>4. IF known' THEN cache' = docWanted' ELSE Unknown'
    <3>1. CASE known'
      <4>1. Docs!Cached = docWanted
        BY <1>1, <2>2, <3>1
      <4> QED
        BY <1>1, <3>1, <4>1
    <3>2. CASE ~known'
      <4>1. AllInFile /\ Docs!Readable
        BY <1>1, <2>2, <3>2
      <4>2. cache' # None
        BY <1>1, CachedList, <2>1 DEF Docs!DocumentsAssumption, List
      <4> QED
        BY <1>1, <3>2, <4>1, <4>2 DEF Unknown, AllInFile, Docs!Readable
    <3> QED
      BY <3>1, <3>2
  <2> QED
    BY <2>3, <2>4 DEF DocsSettled
<1> QED
  BY <1>1, <1>2, <1>3 DEF DocsInv
\* The first call is answered.
LEMMA TailShape ==
    ASSUME DocsTyped, queue # << >>, queue' = Tail(queue), docWanted' = docWanted, QueueOrder
    PROVE  QueueOrder'
<1>1. \A i \in DOMAIN queue' : i + 1 \in DOMAIN queue /\ queue'[i] = queue[i + 1] /\ i \in Nat \ {0}
  BY Taken DEF DocsTyped
<1> QED
  BY <1>1 DEF QueueOrder

LEMMA TailCarries ==
    ASSUME DocsTyped, queue # << >>, queue' = Tail(queue), docWanted' = docWanted, QueueCarries,
           AllInFile => AllInFile'
    PROVE  QueueCarries'
<1>1. /\ \A i \in DOMAIN queue' : i + 1 \in DOMAIN queue /\ queue'[i] = queue[i + 1] /\ i \in Nat \ {0}
      /\ \A i \in DOMAIN queue : i + 1 \in DOMAIN queue => i \in DOMAIN queue'
  BY Taken DEF DocsTyped
<1>2. \A i \in DOMAIN queue' : (queue'[i].call = "save" /\ queue'[i].by # "nobody" =>
                                  queue'[i].list = docWanted)
                               /\ (queue'[i].call = "load" => queue'[i].list = docWanted \/ AllInFile')
  BY <1>1 DEF QueueCarries
<1>3. ASSUME NEW i \in DOMAIN queue', queue'[i].by = "nobody", queue'[i].list # docWanted
      PROVE  i + 1 \in DOMAIN queue' /\ (queue'[i + 1].by = "nobody" \/ queue'[i + 1].call = "delete")
  <2>1. /\ i + 1 + 1 \in DOMAIN queue
        /\ queue[i + 1 + 1].by = "nobody" \/ queue[i + 1 + 1].call = "delete"
    BY <1>1, <1>3 DEF QueueCarries
  <2>2. i + 1 \in DOMAIN queue'
    BY <1>1, <1>3, <2>1
  <2> QED
    BY <1>1, <2>1, <2>2
<1> QED
  BY <1>2, <1>3 DEF QueueCarries

\* Behind a call that someone awaits there is no edit and no delete.
LEMMA Behind ==
    ASSUME DocsTyped, QueueOrder, queue # << >>, queue[1].call = "load"
    PROVE  Clean
<1>1. 1 \in DOMAIN queue /\ \A i \in DOMAIN queue : i = 1 \/ 1 < i
  BY DEF DocsTyped
<1> QED
  BY <1>1 DEF QueueOrder, Clean

LEMMA LoadAnsweredDocs ==
    ASSUME Docs!DocumentsAssumption, DocsInv, Docs!LoadAnswered
    PROVE  DocsInv'
<1>1. /\ queue # << >> /\ Head(queue).call = "load" /\ Docs!Readable
      /\ cache' = docFile /\ known' = TRUE /\ queue' = Tail(queue)
      /\ docShown' = (IF panel THEN docFile ELSE docShown)
      /\ docExcused' = (IF docLegacy # None THEN docExcused \cup {"backup"} ELSE docExcused)
      /\ UNCHANGED <<kind, panel, docFile, docLegacy, docEdits, docWanted>>
  BY DEF Docs!LoadAnswered, Docs!Takes, Docs!IsNext
<1>2. DocsTyped /\ docFile \in List /\ queue \in Seq(Asked)
  BY <1>1 DEF DocsInv, DocsTyped, Docs!Readable
<1>3. /\ queue' \in Seq(Asked) /\ queue[1].call = "load"
      /\ \A i \in DOMAIN queue' : i + 1 \in DOMAIN queue /\ queue'[i] = queue[i + 1]
  BY <1>1, <1>2, Taken
<1>4. DocsTyped'
  <2>1. cache' # None
    BY <1>1, <1>2 DEF Docs!Readable
  <2> QED
    BY <1>1, <1>2, <1>3, <2>1 DEF DocsTyped
<1>5. ASSUME docExcused' = {} PROVE DocsSettled'
  <2>1. DocsSettled /\ docLegacy = None
    BY <1>1, <1>5 DEF DocsInv
  <2>2. Clean
    BY <1>1, <1>2, <1>3, <2>1, Behind DEF DocsSettled
  <2>3. docFile = docWanted
    BY <1>1, <2>1, <2>2 DEF DocsSettled, Docs!Stored
  <2>4. QueueOrder'
    BY <1>1, <1>2, <2>1, TailShape DEF DocsSettled
  <2>5. AllInFile => AllInFile'
    BY <1>1, <1>3 DEF AllInFile
  <2>6. QueueCarries'
    BY <1>1, <1>2, <2>1, <2>5, TailCarries DEF DocsSettled
  <2>7. Docs!Stored' = docWanted'
    BY <1>1, <2>1, <2>3 DEF Docs!Stored, Docs!Readable
  <2> QED
    BY <1>1, <2>3, <2>4, <2>6, <2>7 DEF DocsSettled
<1> QED
  BY <1>4, <1>5 DEF DocsInv

LEMMA LoadFallsBackDocs ==
    ASSUME Docs!DocumentsAssumption, DocsInv, Docs!LoadFallsBack
    PROVE  DocsInv'
<1> DEFINE c == Head(queue)
           s == [call |-> "save", list |-> c.list, by |-> c.by]
<1>1. /\ queue # << >> /\ c.call = "load" /\ cache' = c.list /\ known' = TRUE
      /\ queue' = Append(Tail(queue), s)
      /\ docExcused' = {} => docExcused = {} /\ ~Docs!Readable
      /\ UNCHANGED <<kind, panel, docShown, docFile, docLegacy, docEdits, docWanted>>
  BY DEF Docs!LoadFallsBack, Docs!Takes, Docs!IsNext, Docs!Call
<1>2. DocsTyped /\ queue \in Seq(Asked)
  BY DEF DocsInv, DocsTyped
<1>3. /\ Tail(queue) \in Seq(Asked) /\ 1 \in DOMAIN queue /\ c = queue[1] /\ c \in Asked
      /\ \A i \in DOMAIN Tail(queue) : i + 1 \in DOMAIN queue /\ Tail(queue)[i] = queue[i + 1]
      /\ \A i \in DOMAIN queue : i # 1 => i - 1 \in DOMAIN Tail(queue)
  BY <1>1, <1>2, Taken
<1>4. s \in Asked /\ s.call = "save" /\ s.list = c.list /\ s.by = c.by
  BY <1>3 DEF Asked
<1> DEFINE n == Len(Tail(queue))
<1> HIDE DEF s, c
<1>5. /\ queue' \in Seq(Asked) /\ n \in Nat /\ DOMAIN queue' = 1 .. n + 1
      /\ \A i \in 1 .. n : i + 1 \in DOMAIN queue /\ queue'[i] = queue[i + 1]
      /\ queue'[n + 1] = s
      /\ \A i \in DOMAIN queue : i # 1 => i - 1 \in 1 .. n /\ queue'[i - 1] = queue[i]
  <2>1. /\ queue' \in Seq(Asked) /\ n \in Nat /\ DOMAIN queue' = 1 .. n + 1
        /\ DOMAIN Tail(queue) = 1 .. n
        /\ \A i \in 1 .. n : queue'[i] = Tail(queue)[i]
        /\ queue'[n + 1] = s
    BY <1>1, <1>3, <1>4, Added
  <2>2. \A i \in DOMAIN queue : i - 1 + 1 = i
    BY <1>2
  <2> HIDE DEF n
  <2> QED
    BY <1>3, <2>1, <2>2
<1> HIDE DEF n
<1>6. DocsTyped'
  <2>1. c.list \in List
    BY <1>3 DEF Asked
  <2>2. cache' \in List /\ cache' # None
    BY <1>1, <2>1 DEF Docs!DocumentsAssumption, List
  <2> QED
    BY <1>1, <1>2, <1>5, <2>2 DEF DocsTyped
<1>7. ASSUME docExcused' = {} PROVE DocsSettled'
  <2>1. DocsSettled /\ ~Docs!Readable
    BY <1>1, <1>7 DEF DocsInv
  <2>2. Clean
    BY <1>1, <1>2, <1>3, <2>1, Behind DEF DocsSettled
  <2>3. ~AllInFile
    BY <1>2, <2>1 DEF AllInFile, DocsTyped, Docs!Readable, Docs!DocumentsAssumption, List
  <2>4. c.list = docWanted /\ c.by # "nobody"
    BY <1>1, <1>3, <2>1, <2>2, <2>3 DEF DocsSettled, QueueCarries, Clean
  <2>5. \A i \in DOMAIN queue' : queue'[i].by # "nobody" /\ queue'[i].call # "delete"
    BY <1>4, <1>5, <2>2, <2>4 DEF Clean
  <2>6. QueueOrder'
    BY <2>5 DEF QueueOrder
  <2>7. \A i \in DOMAIN queue' : queue'[i].list = docWanted
    <3>1. ASSUME NEW i \in DOMAIN queue PROVE queue[i].list = docWanted
      <4>1. queue[i].call \in {"load", "save"} /\ queue[i].by # "nobody"
        <5>1. queue[i] \in Asked
          BY <1>2
        <5> QED
          BY <2>2, <5>1 DEF Clean, Asked
      <4> QED
        BY <2>1, <2>3, <4>1 DEF DocsSettled, QueueCarries
    <3> QED
      BY <1>4, <1>5, <2>4, <3>1
  <2>8. QueueCarries'
    BY <1>1, <2>5, <2>7 DEF QueueCarries
  <2>9. Docs!Stored' = docWanted'
    BY <1>1, <2>1, <2>2 DEF DocsSettled, Docs!Stored, Docs!Readable
  <2>10. ASSUME panel', docShown' # docWanted'
         PROVE  \E i \in DOMAIN queue' : queue'[i].by = "panel" /\ queue'[i].call \in {"load", "save"}
    <3>1. PICK i \in DOMAIN queue : queue[i].by = "panel" /\ queue[i].call \in {"load", "save"}
      BY <1>1, <2>1, <2>10 DEF DocsSettled
    <3>2. CASE i = 1
      BY <1>3, <1>4, <1>5, <3>1, <3>2
    <3>3. CASE i # 1
      BY <1>5, <3>1, <3>3
    <3> QED
      BY <3>2, <3>3
  <2> QED
    BY <1>1, <2>4, <2>6, <2>8, <2>9, <2>10 DEF DocsSettled
<1> QED
  BY <1>6, <1>7 DEF DocsInv

LEMMA SavedDocs ==
    ASSUME Docs!DocumentsAssumption, DocsInv, Docs!SaveAnswered \/ Docs!SaveFails
    PROVE  DocsInv'
<1>1. /\ queue # << >> /\ Head(queue).call = "save" /\ queue' = Tail(queue) /\ Docs!PanelHears
      /\ \/ docFile' = Head(queue).list /\ docLegacy' = None
         \/ docFile' \in {docFile, Torn} /\ docLegacy' = Head(queue).list
      /\ UNCHANGED <<kind, cache, panel, docEdits, docWanted, known, docExcused>>
  BY DEF Docs!SaveAnswered, Docs!SaveFails, Docs!IsNext, Docs!ghosts
<1>2. DocsTyped /\ queue \in Seq(Asked)
  BY DEF DocsInv, DocsTyped
<1>3. /\ queue' \in Seq(Asked) /\ 1 \in DOMAIN queue /\ Head(queue) = queue[1] /\ queue[1] \in Asked
      /\ \A i \in DOMAIN queue' : i + 1 \in DOMAIN queue /\ queue'[i] = queue[i + 1]
      /\ \A i \in DOMAIN queue : i # 1 => i - 1 \in DOMAIN queue'
      /\ 2 \in DOMAIN queue => 1 \in DOMAIN queue'
  BY <1>1, <1>2, Taken
<1>4. queue[1].list \in List /\ queue[1].by \in {"panel", "another", "nobody"}
  BY <1>3 DEF Asked
<1>5. None \notin List /\ Torn \notin List
  BY DEF Docs!DocumentsAssumption, List
<1>6. Docs!Stored' = queue[1].list
  BY <1>1, <1>3, <1>4, <1>5 DEF Docs!Stored, Docs!Readable
<1>7. queue[1].by = "another" => cache \in List
  BY <1>1, <1>2, <1>3 DEF DocsTyped
<1>8. DocsTyped'
  <2>1. docShown' \in List
    BY <1>1, <1>2, <1>3, <1>4, <1>7 DEF Docs!PanelHears, DocsTyped
  <2>2. \A i \in DOMAIN queue' : queue'[i].call = "save" => cache' # None
    BY <1>1, <1>2, <1>3 DEF DocsTyped
  <2> QED
    BY <1>1, <1>2, <1>3, <1>4, <2>1, <2>2 DEF DocsTyped
<1>9. ASSUME docExcused' = {} PROVE DocsSettled'
  <2>1. DocsSettled
    BY <1>1, <1>9 DEF DocsInv
  <2>2. ~AllInFile
    BY <1>1, <1>3 DEF AllInFile
  <2>3. QueueOrder' /\ QueueCarries'
    BY <1>1, <1>2, <2>1, <2>2, TailShape, TailCarries DEF DocsSettled
  <2>4. known /\ cache' = docWanted'
    BY <1>1, <1>3, <2>1 DEF DocsSettled, Unknown
  <2>5. ASSUME Clean' PROVE Docs!Stored' = docWanted'
    <3>1. CASE queue[1].by # "nobody"
      BY <1>1, <1>3, <1>6, <2>1, <3>1 DEF DocsSettled, QueueCarries
    <3>2. CASE queue[1].by = "nobody"
      <4>1. 2 \in DOMAIN queue => queue'[1] = queue[2] /\ 1 \in DOMAIN queue'
        BY <1>3
      <4>2. ~(2 \in DOMAIN queue /\ (queue[2].by = "nobody" \/ queue[2].call = "delete"))
        BY <2>5, <4>1 DEF Clean
      <4>3. queue[1].list = docWanted
        BY <1>3, <2>1, <3>2, <4>2 DEF DocsSettled, QueueCarries
      <4> QED
        BY <1>1, <1>6, <4>3
    <3> QED
      BY <3>1, <3>2
  <2>6. ASSUME panel', docShown' # docWanted'
        PROVE  \E i \in DOMAIN queue' : queue'[i].by = "panel" /\ queue'[i].call \in {"load", "save"}
    <3>1. queue[1].by = "nobody" /\ docShown' = docShown
      <4>1. queue[1].by # "nobody" => queue[1].list = docWanted
        BY <1>1, <1>3, <2>1 DEF DocsSettled, QueueCarries
      <4> QED
        BY <1>1, <1>3, <1>4, <2>4, <2>6, <4>1 DEF Docs!PanelHears
    <3>2. PICK i \in DOMAIN queue : queue[i].by = "panel" /\ queue[i].call \in {"load", "save"}
      BY <1>1, <2>1, <2>6, <3>1 DEF DocsSettled
    <3>3. i - 1 \in DOMAIN queue' /\ queue'[i - 1] = queue[i]
      <4>1. i # 1 /\ i - 1 + 1 = i
        BY <1>2, <3>1, <3>2
      <4> QED
        BY <1>3, <4>1
    <3> QED
      BY <3>2, <3>3
  <2> QED
    BY <1>1, <2>3, <2>4, <2>5, <2>6 DEF DocsSettled
<1> QED
  BY <1>8, <1>9 DEF DocsInv
LEMMA EditedList ==
    ASSUME Docs!DocumentsAssumption, DocsTyped, NEW list \in List, NEW e \in Docs!Edit
    PROVE  Docs!Edited(list, e) \in List
<1>1. docEdits + 1 \in Nat /\ MaxHistory \in Nat
  BY DEF DocsTyped, Docs!DocumentsAssumption
<1>2. CASE e.do = "add"
  <2>1. /\ Append(list, docEdits + 1) \in List /\ <<docEdits + 1>> \o list \in List
        /\ Len(<<docEdits + 1>> \o list) = Len(list) + 1
    BY <1>1 DEF List
  <2>2. SubSeq(<<docEdits + 1>> \o list, 1, IF Len(list) < MaxHistory THEN Len(list) + 1 ELSE MaxHistory)
          \in List
    BY <1>1, <2>1 DEF List
  <2>3. Docs!Puts(list, docEdits + 1) \in List
    BY <2>1, <2>2 DEF Docs!Puts
  <2> QED
    BY <1>2, <2>3 DEF Docs!Edited
<1>3. CASE e.do = "remove"
  <2>1. CASE Docs!Has(list, e.at)
    <3>1. PICK k \in DOMAIN list : k = CHOOSE j \in DOMAIN list : list[j] = e.at
      BY <2>1 DEF Docs!Has
    <3>2. SubSeq(list, 1, k - 1) \in List /\ SubSeq(list, k + 1, Len(list)) \in List
      <4>1. list \in Seq(Nat) /\ Len(list) \in Nat /\ k \in 1 .. Len(list)
        BY <3>1 DEF List
      <4>2. \A i \in 1 .. k - 1 : list[i] \in Nat
        BY <4>1
      <4>3. \A i \in k + 1 .. Len(list) : list[i] \in Nat
        BY <4>1
      <4> QED
        BY <4>1, <4>2, <4>3, SubSeqProperties DEF List
    <3>3. SubSeq(list, 1, k - 1) \o SubSeq(list, k + 1, Len(list)) \in List
      BY <3>2 DEF List
    <3>4. Docs!Edited(list, e) = SubSeq(list, 1, k - 1) \o SubSeq(list, k + 1, Len(list))
      BY <1>3, <2>1, <3>1 DEF Docs!Edited, Docs!Without, Docs!RemoveAt
    <3> QED
      BY <3>3, <3>4
  <2>2. CASE ~Docs!Has(list, e.at)
    BY <1>3, <2>2 DEF Docs!Edited, Docs!Without
  <2> QED
    BY <2>1, <2>2
<1>4. CASE e.do = "change"
  <2>1. [k \in DOMAIN list |-> IF list[k] = e.at THEN docEdits + 1 ELSE list[k]] \in List
    BY <1>1 DEF List
  <2> QED
    BY <1>4, <2>1 DEF Docs!Edited
<1> QED
  BY <1>2, <1>3, <1>4 DEF Docs!Edit

\* An edit that nothing excuses starts from what is wanted.
LEMMA BaseWanted ==
    ASSUME Docs!DocumentsAssumption, DocsTyped, DocsSettled, Docs!Hurried = {},
           kind \in {"presets", "starred"} => panel
    PROVE  /\ Docs!Base = docWanted /\ Docs!Knows
           /\ \A i \in DOMAIN queue : queue[i].by = "nobody"
<1>1. Docs!Knows /\ \A i \in DOMAIN queue : queue[i].by = "nobody"
  BY DEF Docs!Hurried
<1>2. None \notin List
  BY DEF Docs!DocumentsAssumption, List
<1>3. kind \in {"presets", "starred"} => docShown = docWanted
  BY <1>1 DEF DocsSettled
<1>4. CASE known
  <2>1. Docs!Cached = docWanted
    BY <1>2, <1>4 DEF DocsSettled, DocsTyped, Docs!Cached
  <2> QED
    BY <1>1, <1>3, <2>1 DEF Docs!Base
<1>5. CASE ~known
  <2>1. cache = None /\ ~Docs!Readable /\ queue = << >>
    BY <1>1, <1>5 DEF Docs!Knows
  <2>2. Docs!Stored = docWanted
    BY <2>1 DEF DocsSettled, Clean
  <2>3. Docs!Cached = docWanted
    BY <2>1, <2>2 DEF Docs!Cached, Docs!Stored
  <2> QED
    BY <1>1, <1>3, <2>3 DEF Docs!Base
<1> QED
  BY <1>4, <1>5

\* A call of an edit is queued behind those of other edits.
LEMMA Queued ==
    ASSUME DocsTyped, NEW c \in Asked, queue' = Append(queue, c),
           \/ c.by = "nobody" /\ c.call = "save" /\ c.list = docWanted'
           \/ c.by # "nobody" /\ c.call = "delete" /\ docWanted' = << >>,
           \A i \in DOMAIN queue : queue[i].by = "nobody" /\ queue[i].call = "save"
    PROVE  QueueOrder' /\ QueueCarries' /\ ~Clean'
<1>1. /\ Len(queue) \in Nat
      /\ DOMAIN queue = 1 .. Len(queue) /\ DOMAIN queue' = 1 .. Len(queue) + 1
      /\ \A i \in 1 .. Len(queue) : queue'[i] = queue[i]
      /\ queue'[Len(queue) + 1] = c
  BY Added DEF DocsTyped
<1>2. /\ \A i \in 1 .. Len(queue) : queue'[i].by = "nobody" /\ queue'[i].call = "save"
      /\ \A i \in DOMAIN queue' : i \in 1 .. Len(queue) \/ (i = Len(queue) + 1 /\ queue'[i] = c)
  BY <1>1
<1>3. QueueOrder'
  BY <1>1, <1>2 DEF QueueOrder
<1>4. QueueCarries'
  <2>1. \A i \in DOMAIN queue' : /\ queue'[i].call # "load"
                              /\ queue'[i].call = "save" => queue'[i].by = "nobody"
    BY <1>1, <1>2
  <2>2. ASSUME NEW i \in DOMAIN queue', queue'[i].by = "nobody"
        PROVE  \/ queue'[i].list = docWanted'
               \/ i + 1 \in DOMAIN queue' /\ queue'[i + 1].by = "nobody"
               \/ i + 1 \in DOMAIN queue' /\ queue'[i + 1].call = "delete"
    BY <1>1, <1>2, <2>2
  <2> QED
    BY <2>1, <2>2 DEF QueueCarries
<1>5. ~Clean'
  BY <1>1 DEF Clean
<1> QED
  BY <1>3, <1>4, <1>5

LEMMA EditsDocs ==
    ASSUME Docs!DocumentsAssumption, DocsInv, NEW e \in Docs!Edit, Docs!Edits(e)
    PROVE  DocsInv'
<1> DEFINE c == [call |-> "save", list |-> Docs!Edited(Docs!Base, e), by |-> "nobody"]
<1>1. /\ docEdits' = docEdits + 1 /\ cache' = Docs!Edited(Docs!Base, e)
      /\ docShown' = (IF panel THEN Docs!Edited(Docs!Base, e) ELSE docShown)
      /\ queue' = Append(queue, c) /\ docWanted' = Docs!Edited(docWanted, e) /\ known' = Docs!Knows
      /\ docExcused' = docExcused \cup Docs!Hurried /\ (kind \in {"presets", "starred"} => panel)
      /\ UNCHANGED <<kind, panel, docFile, docLegacy>>
  BY DEF Docs!Edits, Docs!MayEdit, Docs!SaveOf, Docs!Call
<1>2. DocsTyped /\ Docs!Base \in List
  BY CachedList DEF DocsInv, DocsTyped, Docs!Base
<1>3. Docs!Edited(Docs!Base, e) \in List /\ Docs!Edited(docWanted, e) \in List
  BY <1>2, EditedList DEF DocsTyped
<1>4. c \in Asked /\ c.by = "nobody" /\ c.call = "save" /\ c.list = Docs!Edited(Docs!Base, e)
  BY <1>3 DEF Asked
<1> HIDE DEF c
<1>5. DocsTyped'
  <2>1. queue' \in Seq(Asked)
    BY <1>1, <1>2, <1>4, Added DEF DocsTyped
  <2>2. cache' # None /\ cache' \in List
    BY <1>1, <1>3 DEF Docs!DocumentsAssumption, List
  <2> QED
    BY <1>1, <1>2, <1>3, <2>1, <2>2 DEF DocsTyped
<1>6. ASSUME docExcused' = {} PROVE DocsSettled'
  <2>1. DocsSettled /\ Docs!Hurried = {}
    BY <1>1, <1>6 DEF DocsInv
  <2>2. Docs!Base = docWanted /\ Docs!Knows /\ \A i \in DOMAIN queue : queue[i].by = "nobody"
    BY <1>1, <1>2, <2>1, BaseWanted
  <2>3. \A i \in DOMAIN queue : queue[i].by = "nobody" /\ queue[i].call = "save"
    BY <2>1, <2>2 DEF DocsSettled, QueueOrder
  <2>4. QueueOrder' /\ QueueCarries' /\ ~Clean'
    <3>1. c.list = docWanted'
      BY <1>1, <1>4, <2>2
    <3> QED
      BY <1>1, <1>2, <1>4, <2>3, <3>1, Queued
  <2>5. known' /\ cache' = docWanted' /\ (panel' => docShown' = docWanted')
    BY <1>1, <2>2
  <2> QED
    BY <2>4, <2>5 DEF DocsSettled
<1> QED
  BY <1>5, <1>6 DEF DocsInv

LEMMA ClearsDocs ==
    ASSUME Docs!DocumentsAssumption, DocsInv, Docs!ClearHistory
    PROVE  DocsInv'
<1> DEFINE c == [call |-> "delete", list |-> << >>, by |-> "panel"]
<1>1. /\ docEdits' = docEdits + 1 /\ cache' = << >> /\ docShown' = << >> /\ docWanted' = << >>
      /\ queue' = Append(queue, c) /\ known' = TRUE
      /\ docExcused' = docExcused \cup (Docs!Hurried \ {"early"})
      /\ UNCHANGED <<kind, panel, docFile, docLegacy>>
  BY DEF Docs!ClearHistory, Docs!Call
<1>2. << >> \in List /\ << >> # None
  <2>1. << >> \in Seq(Nat)
    OBVIOUS
  <2> QED
    BY <2>1 DEF List, Docs!DocumentsAssumption
<1>3. c \in Asked /\ c.call = "delete" /\ c.by = "panel"
  BY <1>2 DEF Asked
<1> HIDE DEF c
<1>4. DocsTyped'
  <2>1. queue' \in Seq(Asked)
    BY <1>1, <1>3, Added DEF DocsInv, DocsTyped
  <2> QED
    BY <1>1, <1>2, <2>1 DEF DocsInv, DocsTyped
<1>5. ASSUME docExcused' = {} PROVE DocsSettled'
  <2>1. DocsSettled /\ DocsTyped
    BY <1>1, <1>5 DEF DocsInv
  <2>2. \A i \in DOMAIN queue : queue[i].by = "nobody"
    <3>1. "raced" \notin Docs!Hurried
      BY <1>1, <1>5
    <3> QED
      BY <3>1 DEF Docs!Hurried
  <2>3. \A i \in DOMAIN queue : queue[i].by = "nobody" /\ queue[i].call = "save"
    BY <2>1, <2>2 DEF DocsSettled, QueueOrder
  <2>4. QueueOrder' /\ QueueCarries' /\ ~Clean'
    BY <1>1, <1>3, <2>1, <2>3, Queued
  <2> QED
    BY <1>1, <2>4 DEF DocsSettled
<1> QED
  BY <1>4, <1>5 DEF DocsInv

LEMMA DeletedDocs ==
    ASSUME Docs!DocumentsAssumption, DocsInv, Docs!DeleteAnswered
    PROVE  DocsInv'
<1>1. /\ queue # << >> /\ Head(queue).call = "delete" /\ queue' = Tail(queue)
      /\ docFile' \in {docFile, None} /\ docLegacy' = None
      /\ docShown' = (IF panel /\ Head(queue).by = "panel" THEN << >> ELSE docShown)
      /\ docExcused' = {} => docExcused = {} /\ docFile' = None
      /\ UNCHANGED <<kind, cache, panel, docEdits, docWanted, known>>
  BY DEF Docs!DeleteAnswered, Docs!IsNext
<1>2. DocsTyped /\ queue \in Seq(Asked) /\ << >> \in List
  BY DEF DocsInv, DocsTyped, List
<1>3. /\ queue' \in Seq(Asked) /\ 1 \in DOMAIN queue /\ Head(queue) = queue[1]
      /\ \A i \in DOMAIN queue' : i + 1 \in DOMAIN queue /\ queue'[i] = queue[i + 1]
      /\ \A i \in DOMAIN queue : i # 1 => i - 1 \in DOMAIN queue'
  BY <1>1, <1>2, Taken
<1>4. DocsTyped'
  <2>1. \A i \in DOMAIN queue' : queue'[i].call = "save" => cache' # None
    BY <1>1, <1>2, <1>3 DEF DocsTyped
  <2> QED
    BY <1>1, <1>2, <1>3, <2>1 DEF DocsTyped
<1>5. ASSUME docExcused' = {} PROVE DocsSettled'
  <2>1. DocsSettled /\ docFile' = None
    BY <1>1, <1>5 DEF DocsInv
  <2>2. ~AllInFile
    BY <1>1, <1>3 DEF AllInFile
  <2>3. QueueOrder' /\ QueueCarries'
    BY <1>1, <1>2, <2>1, <2>2, TailShape, TailCarries DEF DocsSettled
  <2>4. known /\ docWanted = << >> /\ cache' = docWanted'
    BY <1>1, <1>3, <2>1 DEF DocsSettled, Unknown, QueueOrder
  <2>5. Docs!Stored' = docWanted'
    BY <1>1, <2>1, <2>4 DEF Docs!Stored, Docs!Readable
  <2>6. ASSUME panel', docShown' # docWanted'
        PROVE  \E i \in DOMAIN queue' : queue'[i].by = "panel" /\ queue'[i].call \in {"load", "save"}
    <3>1. docShown' = docShown
      BY <1>1, <2>4, <2>6
    <3>2. PICK i \in DOMAIN queue : queue[i].by = "panel" /\ queue[i].call \in {"load", "save"}
      BY <1>1, <2>1, <2>6, <3>1 DEF DocsSettled
    <3>3. i - 1 \in DOMAIN queue' /\ queue'[i - 1] = queue[i]
      <4>1. i # 1 /\ i - 1 + 1 = i
        BY <1>1, <1>2, <1>3, <3>2
      <4> QED
        BY <1>3, <4>1
    <3> QED
      BY <3>2, <3>3
  <2> QED
    BY <1>1, <2>3, <2>4, <2>5, <2>6 DEF DocsSettled
<1> QED
  BY <1>4, <1>5 DEF DocsInv

LEMMA RestartDocs ==
    ASSUME Docs!DocumentsAssumption, DocsInv, Docs!Restart
    PROVE  DocsInv'
<1>1. /\ docFile' \in {docFile} \cup {Docs!Served(i) : i \in Docs!Pending({"save", "delete"})}
      /\ queue' = << >> /\ cache' = None /\ panel' = FALSE /\ docShown' = << >>
      /\ UNCHANGED <<kind, docLegacy, docEdits>> /\ known' = FALSE /\ docWanted' = Docs!Stored'
      /\ docExcused' = {} => ~(docLegacy # None /\ Docs!Readable')
  BY DEF Docs!Restart
<1>2. DocsTyped /\ << >> \in List /\ << >> \in Seq(Asked)
  BY DEF DocsInv, DocsTyped, List
<1>3. docFile' \in List \cup {None, Torn}
  <2>1. \A i \in Docs!Pending({"save", "delete"}) : Docs!Served(i) \in List \cup {None}
    <3> SUFFICES ASSUME NEW i \in Docs!Pending({"save", "delete"})
                 PROVE  Docs!Served(i) \in List \cup {None}
      OBVIOUS
    <3>1. queue[i] \in Asked
      BY <1>2 DEF Docs!Pending, DocsTyped
    <3> QED
      BY <3>1 DEF Docs!Served, Asked
  <2> QED
    BY <1>1, <1>2, <2>1 DEF DocsTyped
<1>4. Docs!Stored' \in List
  BY <1>1, <1>2, <1>3 DEF Docs!Stored, Docs!Readable, DocsTyped
<1>5. DocsTyped'
  BY <1>1, <1>2, <1>3, <1>4 DEF DocsTyped
<1>6. docExcused' = {} => DocsSettled'
  BY <1>1 DEF DocsSettled, QueueOrder, QueueCarries, Unknown
<1> QED
  BY <1>5, <1>6 DEF DocsInv

LEMMA NextDocs == Docs!DocumentsAssumption /\ DocsInv /\ [Docs!Next]_Docs!vars => DocsInv'
<1> SUFFICES ASSUME Docs!DocumentsAssumption, DocsInv, [Docs!Next]_Docs!vars PROVE DocsInv'
  OBVIOUS
<1>1. ASSUME UNCHANGED Docs!vars PROVE DocsInv'
  BY <1>1 DEF Docs!vars, Docs!window, Docs!ghosts, DocsInv, DocsTyped, DocsSettled, QueueOrder,
              QueueCarries, AllInFile, Clean, Unknown, Docs!Stored, Docs!Readable
<1> QED
  BY <1>1, EnsuredDocs, ClosesDocs, RenderedDocs, LoadAnsweredDocs, LoadFallsBackDocs, SavedDocs,
     EditsDocs, ClearsDocs, DeletedDocs, RestartDocs DEF Docs!Next

\* A list is kept (persistence.rs 400-427, WorkspaceRuleStore.ts and the modules like it): when
\* every call is answered the file or its backup has every edit, and a module that has loaded
\* works on that list, with the exceptions that ListIsKept names.
THEOREM ListsKept == Docs!Spec => []ListIsKept
<1> Docs!DocumentsAssumption
  BY StoresAssumption
<1>1. Docs!Init => DocsInv
  BY InitDocs
<1>2. DocsInv /\ [Docs!Next]_Docs!vars => DocsInv'
  BY NextDocs
<1>3. DocsInv => ListIsKept
  <2>1. DocsInv /\ queue = << >> /\ docExcused = {} =>
          Docs!Stored = docWanted /\ (known => cache = docWanted)
    BY DEF DocsInv, DocsSettled, Clean
  <2> QED
    BY <2>1 DEF ListIsKept, Docs!ListIsKept
<1> QED
  BY <1>1, <1>2, <1>3, PTL DEF Docs!Spec

-----------------------------------------------------------------------------
(* The memory.                                                             *)

\* A set of numbers has a least one.
LEMMA NatMin ==
    ASSUME NEW T, T \subseteq Nat, T # {}
    PROVE  \E n \in T : \A m \in T : n <= m
<1>1. PICK n \in T : \A m \in T : <<m, n>> \notin OpToRel(<, Nat)
  BY NatLessThanWellFounded, WFMin
<1>2. \A m \in T : ~(m < n)
  BY <1>1 DEF OpToRel
<1> QED
  BY <1>2

LEMMA SumChoice ==
    ASSUME NEW s
    PROVE  Sum(s) = (CHOOSE g : g = [i \in 0 .. Len(s) |-> IF i = 0 THEN 0 ELSE g[i - 1] + s[i]])[Len(s)]
  BY Zenon DEF Sum

\* The sums of what a sequence begins with, up to n.
Sums(f, s, n) ==
    f \in [0 .. n -> Nat] /\ f[0] = 0 /\ \A i \in 1 .. n : f[i] = f[i - 1] + s[i]

LEMMA SumsThere ==
    ASSUME NEW s \in Seq(Nat)
    PROVE  \E f : Sums(f, s, Len(s))
<1> DEFINE T == {n \in 0 .. Len(s) : ~\E f : Sums(f, s, n)}
<1>1. ASSUME NEW n \in T, \A m \in T : n <= m PROVE FALSE
  <2>1. CASE n = 0
    <3>1. Sums([i \in 0 .. 0 |-> 0], s, 0)
      BY DEF Sums
    <3> QED
      BY <2>1, <3>1, <1>1
  <2>2. CASE n # 0
    <3>1. n \in 1 .. Len(s) /\ n - 1 \in 0 .. Len(s) /\ n - 1 \notin T
      BY <1>1, <2>2
    <3>2. PICK f : Sums(f, s, n - 1)
      BY <3>1
    <3> DEFINE g == [i \in 0 .. n |-> IF i = n THEN f[n - 1] + s[n] ELSE f[i]]
    <3>3. s[n] \in Nat
      BY <3>1
    <3>4. Sums(g, s, n)
      <4>1. g \in [0 .. n -> Nat]
        BY <3>1, <3>2, <3>3 DEF Sums
      <4>2. ASSUME NEW i \in 1 .. n PROVE g[i] = g[i - 1] + s[i]
        BY <3>1, <3>2, <3>3, <4>2 DEF Sums
      <4> QED
        BY <3>1, <3>2, <4>1, <4>2 DEF Sums
    <3> QED
      BY <3>4, <1>1
  <2> QED
    BY <2>1, <2>2
<1>2. T \subseteq Nat
  OBVIOUS
<1> HIDE DEF T
<1>3. T = {}
  BY <1>1, <1>2, NatMin, Zenon
<1>4. Len(s) \in 0 .. Len(s) /\ Len(s) \notin T
  BY <1>3
<1> QED
  BY <1>4 DEF T

\* Two sequences that begin alike have the same sums up to there.
LEMMA SumsAlike ==
    ASSUME NEW s, NEW t, NEW f, NEW g, NEW m \in Nat, NEW n \in Nat, NEW k \in Nat,
           Sums(f, s, m), Sums(g, t, n), k <= m, k <= n, \A i \in 1 .. k : s[i] = t[i]
    PROVE  f[k] = g[k]
<1> DEFINE T == {i \in 0 .. k : f[i] # g[i]}
<1>1. ASSUME NEW i \in T, \A j \in T : i <= j PROVE FALSE
  <2>1. i # 0 /\ i \in 1 .. k /\ i - 1 \in 0 .. k /\ i - 1 \notin T
    BY <1>1 DEF Sums
  <2>2. f[i - 1] = g[i - 1] /\ s[i] = t[i]
    BY <2>1
  <2>3. f[i] = f[i - 1] + s[i] /\ g[i] = g[i - 1] + t[i]
    BY <2>1 DEF Sums
  <2> QED
    BY <2>2, <2>3, <1>1
<1>2. T \subseteq Nat
  OBVIOUS
<1> HIDE DEF T
<1>3. T = {}
  BY <1>1, <1>2, NatMin, Zenon
<1>4. k \in 0 .. k /\ k \notin T
  BY <1>3
<1> QED
  BY <1>4 DEF T

LEMMA SumIsLast ==
    ASSUME NEW s \in Seq(Nat), NEW f, Sums(f, s, Len(s))
    PROVE  Sum(s) = f[Len(s)] /\ Sum(s) \in Nat
<1> DEFINE Recursive(h) == h = [i \in 0 .. Len(s) |-> IF i = 0 THEN 0 ELSE h[i - 1] + s[i]]
           g == CHOOSE h : Recursive(h)
<1>1. Recursive(f)
  BY DEF Sums
<1>2. Recursive(g)
  <2> HIDE DEF Recursive
  <2> QED
    BY <1>1
<1>3. Sum(s) = g[Len(s)]
  BY SumChoice
<1> HIDE DEF g
<1> DEFINE T == {i \in 0 .. Len(s) : f[i] # g[i]}
<1>4. ASSUME NEW i \in T, \A j \in T : i <= j PROVE FALSE
  <2>1. i # 0
    BY <1>1, <1>2, <1>4
  <2>2. i \in 1 .. Len(s) /\ i - 1 \in 0 .. Len(s) /\ i - 1 \notin T
    BY <2>1, <1>4
  <2>3. f[i] = f[i - 1] + s[i] /\ g[i] = g[i - 1] + s[i]
    BY <1>1, <1>2, <2>2
  <2> QED
    BY <2>2, <2>3, <1>4
<1>5. T \subseteq Nat
  OBVIOUS
<1> HIDE DEF T
<1>6. T = {}
  BY <1>4, <1>5, NatMin, Zenon
<1>7. Len(s) \in 0 .. Len(s) /\ Len(s) \notin T
  BY <1>6
<1> QED
  BY <1>3, <1>7 DEF T, Sums

LEMMA SumOfNone == Sum(<< >>) = 0
<1>1. << >> \in Seq(Nat) /\ Len(<< >>) = 0
  OBVIOUS
<1>2. PICK f : Sums(f, << >>, Len(<< >>))
  BY <1>1, SumsThere
<1> QED
  BY <1>1, <1>2, SumIsLast DEF Sums

LEMMA SumAppend ==
    ASSUME NEW s \in Seq(Nat), NEW n \in Nat
    PROVE  Sum(Append(s, n)) = Sum(s) + n
<1> DEFINE t == Append(s, n)
<1>1. t \in Seq(Nat) /\ Len(t) = Len(s) + 1 /\ Len(s) \in Nat /\ t[Len(s) + 1] = n
      /\ \A i \in 1 .. Len(s) : s[i] = t[i]
  OBVIOUS
<1> HIDE DEF t
<1>2. PICK f : Sums(f, s, Len(s))
  BY SumsThere
<1>3. PICK g : Sums(g, t, Len(s) + 1)
  BY <1>1, SumsThere
<1>4. f[Len(s)] = g[Len(s)]
  <2>1. Len(s) \in Nat /\ Len(s) + 1 \in Nat /\ Len(s) <= Len(s) + 1
    BY <1>1
  <2>2. \A i \in 1 .. Len(s) : s[i] = t[i]
    BY <1>1
  <2> QED
    BY <2>1, <2>2, <1>2, <1>3, SumsAlike
<1>5. g[Len(s) + 1] = g[Len(s)] + n
  BY <1>1, <1>3 DEF Sums
<1>6. Sum(s) = f[Len(s)]
  BY <1>2, SumIsLast
<1>7. Sum(t) = g[Len(s) + 1]
  BY <1>1, <1>3, SumIsLast
<1> QED
  BY <1>4, <1>5, <1>6, <1>7 DEF t

LEMMA SumHeavier ==
    ASSUME NEW s \in Seq(Nat), NEW k \in 1 .. Len(s)
    PROVE  Sum(Heavier(s, k)) = Sum(s) + 1
<1> DEFINE t == Heavier(s, k)
<1>1. t \in Seq(Nat) /\ Len(t) = Len(s) /\ Len(s) \in Nat
      /\ \A i \in 1 .. Len(s) : s[i] \in Nat /\ t[i] = IF i = k THEN s[i] + 1 ELSE s[i]
  BY DEF Heavier
<1> HIDE DEF t
<1>2. PICK f : Sums(f, s, Len(s))
  BY SumsThere
<1>3. PICK g : Sums(g, t, Len(s))
  BY <1>1, SumsThere
<1> DEFINE T == {i \in 0 .. Len(s) : g[i] # f[i] + (IF i < k THEN 0 ELSE 1)}
<1>4. ASSUME NEW i \in T, \A j \in T : i <= j PROVE FALSE
  <2>1. i # 0
    BY <1>2, <1>3, <1>4 DEF Sums
  <2>2. i \in 1 .. Len(s) /\ i - 1 \in 0 .. Len(s) /\ i - 1 \notin T
    BY <2>1, <1>1, <1>4
  <2>3. f[i] = f[i - 1] + s[i] /\ g[i] = g[i - 1] + t[i] /\ f[i - 1] \in Nat
    BY <1>2, <1>3, <2>2 DEF Sums
  <2>4. g[i - 1] = f[i - 1] + (IF i - 1 < k THEN 0 ELSE 1)
    BY <2>2
  <2>5. s[i] \in Nat /\ t[i] = IF i = k THEN s[i] + 1 ELSE s[i]
    BY <1>1, <2>2
  <2>6. g[i] # f[i] + (IF i < k THEN 0 ELSE 1)
    BY <1>4
  <2>7. i \in Nat /\ k \in Nat
    BY <1>1, <2>2
  <2>8. CASE i < k
    BY <2>3, <2>4, <2>5, <2>6, <2>7, <2>8
  <2>9. CASE i = k
    BY <2>3, <2>4, <2>5, <2>6, <2>7, <2>9
  <2>10. CASE i > k
    BY <2>3, <2>4, <2>5, <2>6, <2>7, <2>10
  <2> QED
    BY <2>7, <2>8, <2>9, <2>10
<1>5. T \subseteq Nat
  BY <1>1
<1> HIDE DEF T
<1>6. g[Len(s)] = f[Len(s)] + 1
  <2>1. T = {}
    BY <1>4, <1>5, NatMin, Zenon
  <2>2. Len(s) \in 0 .. Len(s) /\ Len(s) \notin T
    BY <1>1, <2>1
  <2> QED
    BY <2>2 DEF T
<1>7. Sum(s) = f[Len(s)] /\ Sum(t) = g[Len(s)]
  BY <1>1, <1>2, <1>3, SumIsLast
<1> QED
  BY <1>6, <1>7 DEF t

\* The newest entries, as many as the history keeps.
Latest(s) == SubSeq(s, IF Len(s) > KeepHistory THEN Len(s) - KeepHistory + 1 ELSE 1, Len(s))

CallTypes ==
    [do : {"insert"}, episode : Episode]
    \cup [do : {"clear"}, n : Nat, step : {1, 2}]
    \cup [do : {"outcome"}, episode : Episode, status : {"pending", "resolved"}, n : Nat,
          step : {1, 2, 3}, read : Seq(Nat)]
    \cup [do : {"edge"}, key : Session \X {"queried", "produced"} \X Nat, edge : Edge,
          step : {1, 2}, row : Nat]

MemoryTyped ==
    /\ episodes \subseteq Episode
    /\ outcomes \in [Episode -> {None, "pending", "resolved"}]
    /\ history \in Seq(Nat) /\ applied \in Seq(Nat)
    /\ edges \in [Edge -> Seq(Nat)]
    /\ recorded \in [Edge -> Nat]
    /\ calls \subseteq CallTypes

\* What the screen and the sessions give to a call.
SessionsTyped ==
    /\ used \in [Session -> Seq(Tool)]
    /\ shown \subseteq Episode
    /\ updates \in Nat /\ clears \in Nat

Clearing(c) == c.do = "clear" /\ c.step = 2
Updating(c) == c.do = "outcome" /\ c.step = 3

\* Between the two statements of a clear every episode there is was inserted meanwhile.
EpisodesKept ==
    /\ EpisodesHaveOutcomes
    /\ (\E c \in calls : Clearing(c)) => episodes \subseteq excused

\* An update that has read the profile is the only one, and has read what is there.
HistoryKept ==
    ~overlapped => /\ history = Latest(applied)
                   /\ \A c \in calls : Updating(c) => c.read = history
                   /\ \A c, d \in calls : Updating(c) /\ Updating(d) => c = d

\* A call that found a row finds it again: rows are only added.
RowsKept ==
    /\ WeightsAddUp
    /\ \A c \in calls : c.do = "edge" => c.row <= Len(edges[c.edge])

MemoryInv == MemoryTyped /\ SessionsTyped /\ EpisodesKept /\ HistoryKept /\ RowsKept

\* Latest, without and with entries to drop.
LEMMA LatestCases ==
    ASSUME NEW s \in Seq(Nat)
    PROVE  /\ Len(s) <= KeepHistory => Latest(s) = s
           /\ Len(s) >= KeepHistory => Latest(s) = SubSeq(s, Len(s) - KeepHistory + 1, Len(s))
           /\ \A n : Appended(s, n) = Latest(Append(s, n))
<1> DEFINE L == Len(s)
           K == KeepHistory
           from == IF L > K THEN L - K + 1 ELSE 1
<1>1. K \in Nat \ {0} /\ L \in Nat
  BY MemoryDbAssumption
<1>2. SubSeq(s, 1, L) = s
  BY SubSeqFull
<1>3. Latest(s) = SubSeq(s, from, L)
  BY DEF Latest
<1>4. (L <= K => from = 1) /\ (L >= K => from = L - K + 1)
  BY <1>1
<1>5. \A n : Appended(s, n) = Latest(Append(s, n))
  BY DEF Appended, Latest
<1> HIDE DEF from
<1>6. L <= K => Latest(s) = s
  BY <1>2, <1>3, <1>4
<1>7. L >= K => Latest(s) = SubSeq(s, L - K + 1, L)
  BY <1>3, <1>4
<1> QED
  BY <1>5, <1>6, <1>7

LEMMA InitMemory == Init => MemoryInv
<1> SUFFICES ASSUME Init PROVE MemoryInv
  OBVIOUS
<1>1. MemoryTyped /\ SessionsTyped
  BY DEF Init, MemoryInit, MemoryTyped, SessionsTyped
<1>2. EpisodesKept
  BY DEF Init, MemoryInit, EpisodesKept, EpisodesHaveOutcomes
<1>3. HistoryKept
  <2>1. << >> \in Seq(Nat) /\ Len(<< >>) <= KeepHistory
    BY MemoryDbAssumption
  <2>2. \A s \in Seq(Nat) : Len(s) <= KeepHistory => Latest(s) = s
    BY LatestCases
  <2>3. Latest(<< >>) = << >>
    BY <2>1, <2>2, Zenon
  <2> QED
    BY <2>3 DEF Init, MemoryInit, HistoryKept
<1>4. RowsKept
  BY SumOfNone DEF Init, MemoryInit, RowsKept, WeightsAddUp
<1> QED
  BY <1>1, <1>2, <1>3, <1>4 DEF MemoryInv

\* The history keeps of what it kept, and one more, what it would keep of all.
LEMMA LatestAppended ==
    ASSUME NEW s \in Seq(Nat), NEW n \in Nat
    PROVE  Appended(Latest(s), n) = Latest(Append(s, n)) /\ Latest(s) \in Seq(Nat)
<1> DEFINE L == Len(s)
           K == KeepHistory
<1>0. K \in Nat \ {0} /\ L \in Nat
  BY MemoryDbAssumption
<1>1. CASE L < K
  <2>1. Latest(s) = s
    BY <1>0, <1>1, LatestCases
  <2> QED
    BY <2>1, LatestCases
<1>2. CASE L >= K
  <2> DEFINE kept == Latest(s)
             all == Append(s, n)
  <2>1. kept = SubSeq(s, L - K + 1, L)
    BY <1>2, LatestCases
  <2>2. kept \in Seq(Nat) /\ Len(kept) = K /\ \A i \in 1 .. K : kept[i] = s[L - K + i]
    BY <1>0, <1>2, <2>1
  <2> HIDE DEF kept
  <2> DEFINE longer == Append(kept, n)
  <2>3. longer \in Seq(Nat) /\ Len(longer) = K + 1 /\ longer[K + 1] = n
        /\ \A i \in 1 .. K : longer[i] = s[L - K + i]
    BY <1>0, <2>2
  <2>4. all \in Seq(Nat) /\ Len(all) = L + 1 /\ all[L + 1] = n /\ \A i \in 1 .. L : all[i] = s[i]
    BY <1>0
  <2>5. Appended(kept, n) = Latest(longer)
    BY <2>2, LatestCases
  <2> HIDE DEF longer, all
  <2>6. Latest(longer) = SubSeq(longer, 2, K + 1) /\ Latest(all) = SubSeq(all, L - K + 2, L + 1)
    <3>1. K + 1 - K + 1 = 2 /\ L + 1 - K + 1 = L - K + 2 /\ K + 1 >= K /\ L + 1 >= K
      BY <1>0, <1>2
    <3>2. Len(longer) >= K /\ Len(all) >= K
      BY <2>3, <2>4, <3>1
    <3>3. Latest(longer) = SubSeq(longer, Len(longer) - K + 1, Len(longer))
      BY <2>3, <3>2, LatestCases
    <3>4. Latest(all) = SubSeq(all, Len(all) - K + 1, Len(all))
      BY <2>4, <3>2, LatestCases
    <3>5. Len(longer) - K + 1 = 2 /\ Len(longer) = K + 1
      BY <1>0, <2>3
    <3>6. Len(all) - K + 1 = L - K + 2 /\ Len(all) = L + 1
      BY <1>0, <2>4
    <3> QED
      BY <3>3, <3>4, <3>5, <3>6
  <2>7. SubSeq(longer, 2, K + 1) = [i \in 1 .. K |-> longer[i + 1]]
    BY <1>0, <2>3
  <2>8. SubSeq(all, L - K + 2, L + 1) = [i \in 1 .. K |-> all[i + L - K + 1]]
    BY <1>0, <1>2, <2>4
  <2>9. \A i \in 1 .. K : longer[i + 1] = all[i + L - K + 1]
    <3> TAKE i \in 1 .. K
    <3>1. CASE i = K
      BY <1>0, <1>2, <2>3, <2>4, <3>1
    <3>2. CASE i # K
      <4>1. i + 1 \in 1 .. K /\ i + L - K + 1 \in 1 .. L
        BY <1>0, <1>2, <3>2
      <4>2. longer[i + 1] = s[L - K + (i + 1)] /\ all[i + L - K + 1] = s[i + L - K + 1]
        BY <2>3, <2>4, <4>1
      <4>3. L - K + (i + 1) = i + L - K + 1
        BY <1>0
      <4> QED
        BY <4>2, <4>3
    <3> QED
      BY <3>1, <3>2
  <2> QED
    BY <2>2, <2>5, <2>6, <2>7, <2>8, <2>9 DEF kept, all
<1> QED
  BY <1>0, <1>1, <1>2

LEMMA LatestTyped ==
    ASSUME NEW s \in Seq(Nat)
    PROVE  Latest(s) \in Seq(Nat)
<1>1. KeepHistory \in Nat \ {0} /\ Len(s) \in Nat
  BY MemoryDbAssumption
<1>2. CASE Len(s) <= KeepHistory
  BY <1>2, LatestCases
<1>3. CASE Len(s) > KeepHistory
  <2>1. Latest(s) = SubSeq(s, Len(s) - KeepHistory + 1, Len(s))
    BY <1>1, <1>3, LatestCases
  <2>2. Len(s) - KeepHistory + 1 \in Int /\ \A i \in Len(s) - KeepHistory + 1 .. Len(s) : s[i] \in Nat
    BY <1>1, <1>3
  <2> QED
    BY <1>1, <2>1, <2>2, SubSeqProperties
<1> QED
  BY <1>1, <1>2, <1>3

\* New calls, or calls that failed: no row, no episode and no number is written.
LEMMA CallsCome ==
    ASSUME MemoryInv, NEW new \in SUBSET CallTypes, SessionsTyped',
           UNCHANGED <<tables, notes>>, calls' \subseteq calls \cup new,
           \A c \in new : ~Clearing(c) /\ ~Updating(c) /\ (c.do = "edge" => c.row = 0)
    PROVE  MemoryInv'
<1>1. UNCHANGED <<episodes, outcomes, history, edges, applied, recorded, excused, overlapped>>
  BY DEF tables, notes
<1>2. MemoryTyped'
  BY <1>1 DEF MemoryInv, MemoryTyped
<1>3. EpisodesKept'
  BY <1>1 DEF MemoryInv, EpisodesKept, EpisodesHaveOutcomes
<1>4. HistoryKept'
  BY <1>1 DEF MemoryInv, HistoryKept
<1>5. RowsKept'
  <2>1. ASSUME NEW c \in calls', c.do = "edge" PROVE c.row <= Len(edges'[c.edge])
    <3>1. CASE c \in calls
      BY <1>1, <2>1, <3>1 DEF MemoryInv, RowsKept
    <3>2. CASE c \in new
      <4>1. c.row = 0 /\ c.edge \in Edge
        BY <2>1, <3>2 DEF CallTypes
      <4>2. edges[c.edge] \in Seq(Nat)
        BY <4>1 DEF MemoryInv, MemoryTyped
      <4> QED
        BY <1>1, <4>1, <4>2
    <3> QED
      BY <3>1, <3>2
  <2> QED
    BY <1>1, <2>1 DEF MemoryInv, RowsKept, WeightsAddUp
<1> QED
  BY <1>2, <1>3, <1>4, <1>5 DEF MemoryInv

\* The three parts do not share a table; each step leaves two of them alone, but for the calls.
LEMMA EpisodesAside ==
    ASSUME EpisodesKept, UNCHANGED <<episodes, outcomes, excused>>,
           \A c \in calls' : Clearing(c) => c \in calls
    PROVE  EpisodesKept'
BY DEF EpisodesKept, EpisodesHaveOutcomes

LEMMA HistoryAside ==
    ASSUME HistoryKept, UNCHANGED <<history, applied, overlapped>>,
           \A c \in calls' : Updating(c) => c \in calls
    PROVE  HistoryKept'
BY DEF HistoryKept

LEMMA RowsAside ==
    ASSUME RowsKept, UNCHANGED <<edges, recorded>>,
           \A c \in calls' : c.do = "edge" => c \in calls
    PROVE  RowsKept'
BY DEF RowsKept, WeightsAddUp

LEMMA InsertEpisodeKeeps ==
    ASSUME MemoryInv, NEW c \in calls, InsertEpisode(c), SessionsTyped'
    PROVE  MemoryInv'
<1>1. c \in CallTypes /\ c.do = "insert" /\ c.episode \in Episode /\ calls' = calls \ {c}
  BY DEF InsertEpisode, Ends, MemoryInv, MemoryTyped, CallTypes
<1>2. /\ episodes' = episodes \cup {c.episode}
      /\ outcomes' = [outcomes EXCEPT ![c.episode] = IF @ = None THEN "pending" ELSE @]
      /\ excused' = excused \cup {e \in {c.episode} : \E d \in calls : Clearing(d)}
      /\ UNCHANGED <<history, edges, applied, recorded, overlapped>>
  BY DEF InsertEpisode, InsertRows, Clearing
<1>3. MemoryTyped'
  BY <1>1, <1>2 DEF MemoryInv, MemoryTyped
<1>4. EpisodesKept'
  <2>1. ASSUME NEW e \in Episode PROVE (e \in episodes') = (outcomes'[e] # None) \/ e \in excused'
    <3>1. outcomes'[e] = IF e = c.episode /\ outcomes[e] = None THEN "pending" ELSE outcomes[e]
      BY <1>1, <1>2 DEF MemoryInv, MemoryTyped
    <3>2. "pending" # None
      BY MemoryDbAssumption
    <3>3. (e \in episodes) = (outcomes[e] # None) \/ e \in excused
      BY DEF MemoryInv, EpisodesKept, EpisodesHaveOutcomes
    <3> QED
      BY <1>2, <3>1, <3>2, <3>3
  <2>2. (\E d \in calls' : Clearing(d)) => episodes' \subseteq excused'
    BY <1>1, <1>2 DEF MemoryInv, EpisodesKept
  <2> QED
    BY <2>1, <2>2 DEF EpisodesKept, EpisodesHaveOutcomes
<1> QED
  BY <1>1, <1>2, <1>3, <1>4, HistoryAside, RowsAside DEF MemoryInv

LEMMA ClearsKeep ==
    ASSUME MemoryInv, NEW c \in calls, ClearsEpisodes(c) \/ ClearsOutcomes(c), SessionsTyped'
    PROVE  MemoryInv'
<1>1. c \in CallTypes /\ c.do = "clear"
  BY DEF ClearsEpisodes, ClearsOutcomes, MemoryInv, MemoryTyped
<1>2. UNCHANGED <<history, edges, applied, recorded, overlapped>>
  BY DEF ClearsEpisodes, ClearsOutcomes
<1>3. CASE ClearsEpisodes(c)
  <2> DEFINE d == [c EXCEPT !.step = 2]
  <2>1. d \in CallTypes /\ d.do = "clear"
    BY <1>1 DEF CallTypes
  <2>2. /\ calls' = (calls \ {c}) \cup {d} /\ episodes' = {} /\ outcomes' = outcomes
        /\ excused' = excused \cup {e \in Episode : outcomes[e] # None}
    BY <1>3 DEF ClearsEpisodes, Goes
  <2> HIDE DEF d
  <2>3. MemoryTyped'
    BY <1>2, <2>1, <2>2 DEF MemoryInv, MemoryTyped
  <2>4. EpisodesKept'
    BY <2>2 DEF EpisodesKept, EpisodesHaveOutcomes
  <2>5. \A x \in calls' : Updating(x) \/ x.do = "edge" => x \in calls
    BY <2>1, <2>2 DEF Updating
  <2> QED
    BY <1>2, <2>3, <2>4, <2>5, HistoryAside, RowsAside DEF MemoryInv
<1>4. CASE ClearsOutcomes(c)
  <2>1. /\ calls' = calls \ {c} /\ Clearing(c) /\ episodes' = episodes
        /\ outcomes' = [e \in Episode |-> None] /\ excused' = excused \cap episodes
    BY <1>4 DEF ClearsOutcomes, Ends, Clearing
  <2>2. episodes \subseteq excused
    BY <2>1 DEF MemoryInv, EpisodesKept
  <2>3. MemoryTyped'
    BY <1>2, <2>1 DEF MemoryInv, MemoryTyped
  <2>4. EpisodesKept'
    BY <2>1, <2>2 DEF EpisodesKept, EpisodesHaveOutcomes
  <2> QED
    BY <1>2, <2>1, <2>3, <2>4, HistoryAside, RowsAside DEF MemoryInv
<1> QED
  BY <1>3, <1>4

LEMMA ReplacesOutcomeKeeps ==
    ASSUME MemoryInv, NEW c \in calls, ReplacesOutcome(c), SessionsTyped'
    PROVE  MemoryInv'
<1> DEFINE d == [c EXCEPT !.step = 2]
<1>1. c \in CallTypes /\ c.do = "outcome"
  BY DEF ReplacesOutcome, MemoryInv, MemoryTyped
<1>2. /\ c.episode \in Episode /\ c.status \in {"pending", "resolved"}
      /\ d \in CallTypes /\ d.do = "outcome" /\ d.step = 2
  BY <1>1 DEF CallTypes
<1>3. /\ calls' = (calls \ {c}) \cup {d} /\ outcomes' = [outcomes EXCEPT ![c.episode] = c.status]
      /\ excused' = excused \cup ({c.episode} \ episodes)
      /\ UNCHANGED <<episodes, history, edges, applied, recorded, overlapped>>
  BY DEF ReplacesOutcome, Goes
<1> HIDE DEF d
<1>4. MemoryTyped'
  BY <1>2, <1>3 DEF MemoryInv, MemoryTyped
<1>5. EpisodesKept'
  <2>1. ASSUME NEW e \in Episode PROVE (e \in episodes') = (outcomes'[e] # None) \/ e \in excused'
    <3>1. outcomes'[e] = IF e = c.episode THEN c.status ELSE outcomes[e]
      BY <1>2, <1>3 DEF MemoryInv, MemoryTyped
    <3>2. c.status # None
      BY <1>2, MemoryDbAssumption
    <3>3. (e \in episodes) = (outcomes[e] # None) \/ e \in excused
      BY DEF MemoryInv, EpisodesKept, EpisodesHaveOutcomes
    <3> QED
      BY <1>3, <3>1, <3>2, <3>3
  <2>2. (\E x \in calls' : Clearing(x)) => episodes' \subseteq excused'
    BY <1>2, <1>3 DEF MemoryInv, EpisodesKept, Clearing
  <2> QED
    BY <2>1, <2>2 DEF EpisodesKept, EpisodesHaveOutcomes
<1>6. \A x \in calls' : Updating(x) \/ x.do = "edge" => x \in calls
  BY <1>2, <1>3 DEF Updating
<1> QED
  BY <1>3, <1>4, <1>5, <1>6, HistoryAside, RowsAside DEF MemoryInv

LEMMA ReadsProfileKeeps ==
    ASSUME MemoryInv, NEW c \in calls, ReadsProfile(c), SessionsTyped'
    PROVE  MemoryInv'
<1> DEFINE d == [c EXCEPT !.step = 3, !.read = history]
<1>1. c \in CallTypes /\ c.do = "outcome"
  BY DEF ReadsProfile, MemoryInv, MemoryTyped
<1>2. d \in CallTypes /\ d.do = "outcome" /\ d.step = 3 /\ d.read = history
  BY <1>1 DEF CallTypes, MemoryInv, MemoryTyped
<1>3. /\ calls' = (calls \ {c}) \cup {d}
      /\ overlapped' = (overlapped \/ \E x \in calls : Updating(x))
      /\ UNCHANGED <<episodes, outcomes, history, edges, applied, recorded, excused>>
  BY DEF ReadsProfile, Goes, Updating, tables
<1> HIDE DEF d
<1>4. MemoryTyped'
  BY <1>2, <1>3 DEF MemoryInv, MemoryTyped
<1>5. HistoryKept'
  <2> SUFFICES ASSUME ~overlapped' PROVE HistoryKept'
    BY DEF HistoryKept
  <2>1. ~overlapped /\ \A x \in calls : ~Updating(x)
    BY <1>3
  <2>2. \A x \in calls' : Updating(x) => x = d
    BY <1>3, <2>1
  <2> QED
    BY <1>2, <1>3, <2>1, <2>2 DEF MemoryInv, HistoryKept
<1>6. \A x \in calls' : Clearing(x) \/ x.do = "edge" => x \in calls
  BY <1>2, <1>3 DEF Clearing
<1> QED
  BY <1>3, <1>4, <1>5, <1>6, EpisodesAside, RowsAside DEF MemoryInv

LEMMA WritesProfileKeeps ==
    ASSUME MemoryInv, NEW c \in calls, WritesProfile(c), SessionsTyped'
    PROVE  MemoryInv'
<1>1. c \in CallTypes /\ c.do = "outcome" /\ Updating(c) /\ c.n \in Nat /\ c.read \in Seq(Nat)
  BY DEF WritesProfile, MemoryInv, MemoryTyped, Updating, CallTypes
<1>2. /\ calls' = calls \ {c} /\ history' = Appended(c.read, c.n) /\ applied' = Append(applied, c.n)
      /\ UNCHANGED <<episodes, outcomes, edges, recorded, excused, overlapped>>
  BY DEF WritesProfile, Ends
<1>3. MemoryTyped'
  <2>1. Append(c.read, c.n) \in Seq(Nat) /\ Append(applied, c.n) \in Seq(Nat)
    BY <1>1 DEF MemoryInv, MemoryTyped
  <2>2. history' \in Seq(Nat)
    BY <1>1, <1>2, <2>1, LatestCases, LatestTyped
  <2> QED
    BY <1>2, <2>1, <2>2 DEF MemoryInv, MemoryTyped
<1>4. HistoryKept'
  <2> SUFFICES ASSUME ~overlapped PROVE HistoryKept'
    BY <1>2 DEF HistoryKept
  <2>1. c.read = Latest(applied) /\ applied \in Seq(Nat)
    BY <1>1 DEF MemoryInv, MemoryTyped, HistoryKept
  <2>2. history' = Latest(applied')
    BY <1>1, <1>2, <2>1, LatestAppended
  <2>3. \A x \in calls' : ~Updating(x)
    BY <1>1, <1>2 DEF MemoryInv, HistoryKept
  <2> QED
    BY <2>2, <2>3 DEF HistoryKept
<1> QED
  BY <1>2, <1>3, <1>4, EpisodesAside, RowsAside DEF MemoryInv

LEMMA FindsEdgeKeeps ==
    ASSUME MemoryInv, NEW c \in calls, FindsEdge(c), SessionsTyped'
    PROVE  MemoryInv'
<1>1. c \in CallTypes /\ c.do = "edge" /\ c.step = 1
  BY DEF FindsEdge, MemoryInv, MemoryTyped
<1>2. c.edge \in Edge /\ edges[c.edge] \in Seq(Nat)
  BY <1>1 DEF CallTypes, MemoryInv, MemoryTyped
<1>3. UNCHANGED <<episodes, outcomes, history, edges, applied, recorded, excused, overlapped>>
  BY DEF FindsEdge, tables, notes
<1>4. PICK d : /\ calls' = (calls \ {c}) \cup {d} /\ d \in CallTypes /\ d.do = "edge"
               /\ d.edge = c.edge /\ d.row <= Len(edges[c.edge])
  <2>1. CASE edges[c.edge] = << >>
    <3> DEFINE d == [c EXCEPT !.step = 2]
    <3>1. d \in CallTypes /\ d.do = "edge" /\ d.edge = c.edge /\ d.row = c.row
      BY <1>1 DEF CallTypes
    <3>2. calls' = (calls \ {c}) \cup {d}
      BY <2>1 DEF FindsEdge, Goes
    <3>3. c.row <= Len(edges[c.edge])
      BY <1>1 DEF MemoryInv, RowsKept
    <3> QED
      BY <3>1, <3>2, <3>3
  <2>2. CASE edges[c.edge] # << >>
    <3>1. PICK i \in DOMAIN edges[c.edge] : Goes(c, [c EXCEPT !.step = 2, !.row = i])
      BY <2>2 DEF FindsEdge
    <3> DEFINE d == [c EXCEPT !.step = 2, !.row = i]
    <3>2. i \in Nat /\ i <= Len(edges[c.edge])
      BY <1>2
    <3>3. d \in CallTypes /\ d.do = "edge" /\ d.edge = c.edge /\ d.row = i
      BY <1>1, <3>2 DEF CallTypes
    <3> QED
      BY <3>1, <3>2, <3>3 DEF Goes
  <2> QED
    BY <2>1, <2>2
<1>5. MemoryTyped'
  BY <1>3, <1>4 DEF MemoryInv, MemoryTyped
<1>6. RowsKept'
  BY <1>3, <1>4 DEF MemoryInv, RowsKept, WeightsAddUp
<1>7. \A x \in calls' : Clearing(x) \/ Updating(x) => x \in calls
  BY <1>4 DEF Clearing, Updating
<1> QED
  BY <1>3, <1>5, <1>6, <1>7, EpisodesAside, HistoryAside DEF MemoryInv

LEMMA RecordsEdgeKeeps ==
    ASSUME MemoryInv, NEW c \in calls, RecordsEdge(c), SessionsTyped'
    PROVE  MemoryInv'
<1> DEFINE g == c.edge
           rows == edges[g]
           after == IF c.row = 0 THEN Append(rows, 1) ELSE Heavier(rows, c.row)
<1>1. c \in CallTypes /\ c.do = "edge"
  BY DEF RecordsEdge, MemoryInv, MemoryTyped
<1>2. g \in Edge /\ rows \in Seq(Nat) /\ c.row \in Nat /\ c.row <= Len(rows) /\ recorded[g] \in Nat
  BY <1>1 DEF CallTypes, MemoryInv, MemoryTyped, RowsKept
<1>3. /\ calls' = calls \ {c} /\ edges' = [edges EXCEPT ![g] = after]
      /\ recorded' = [recorded EXCEPT ![g] = @ + 1]
      /\ UNCHANGED <<episodes, outcomes, history, applied, excused, overlapped>>
  BY DEF RecordsEdge, Weigh, Ends
<1>4. after \in Seq(Nat) /\ Len(after) >= Len(rows) /\ Sum(after) = Sum(rows) + 1
  <2>1. CASE c.row = 0
    BY <1>2, <2>1, SumAppend
  <2>2. CASE c.row # 0
    <3>1. c.row \in 1 .. Len(rows)
      BY <1>2, <2>2
    <3>2. after = Heavier(rows, c.row)
      BY <2>2
    <3>3. after \in Seq(Nat) /\ Len(after) = Len(rows)
      BY <1>2, <3>1, <3>2 DEF Heavier
    <3> QED
      BY <1>2, <3>1, <3>2, <3>3, SumHeavier
  <2> QED
    BY <2>1, <2>2
<1> HIDE DEF after
<1>5. MemoryTyped'
  BY <1>2, <1>3, <1>4 DEF MemoryInv, MemoryTyped
<1>6. RowsKept'
  <2>1. ASSUME NEW h \in Edge PROVE Sum(edges'[h]) = recorded'[h] /\ Len(edges'[h]) >= Len(edges[h])
    <3>1. Sum(edges[h]) = recorded[h] /\ edges[h] \in Seq(Nat)
      BY DEF MemoryInv, MemoryTyped, RowsKept, WeightsAddUp
    <3>2. edges'[h] = (IF h = g THEN after ELSE edges[h])
          /\ recorded'[h] = (IF h = g THEN recorded[h] + 1 ELSE recorded[h])
      BY <1>2, <1>3 DEF MemoryInv, MemoryTyped
    <3>3. CASE h = g
      BY <1>4, <3>1, <3>2, <3>3
    <3>4. CASE h # g
      BY <3>1, <3>2, <3>4
    <3> QED
      BY <3>3, <3>4
  <2>2. ASSUME NEW x \in calls', x.do = "edge" PROVE x.row <= Len(edges'[x.edge])
    <3>1. x \in calls /\ x.edge \in Edge /\ x.row \in Nat /\ x.row <= Len(edges[x.edge])
      BY <1>3, <2>2 DEF MemoryInv, MemoryTyped, RowsKept, CallTypes
    <3>2. edges[x.edge] \in Seq(Nat) /\ edges'[x.edge] \in Seq(Nat)
      BY <1>5, <3>1 DEF MemoryInv, MemoryTyped
    <3> QED
      BY <2>1, <3>1, <3>2
  <2> QED
    BY <2>1, <2>2 DEF RowsKept, WeightsAddUp
<1> QED
  BY <1>3, <1>5, <1>6, EpisodesAside, HistoryAside DEF MemoryInv

\* What a session or the screen does comes down to new calls.
LEMMA Asks ==
    ASSUME MemoryInv, NEW new \in SUBSET CallTypes, SessionsTyped', MakesCalls(new),
           \A c \in new : ~Clearing(c) /\ ~Updating(c) /\ (c.do = "edge" => c.row = 0)
    PROVE  MemoryInv'
<1>1. UNCHANGED <<tables, notes>> /\ calls' \subseteq calls \cup new
  BY DEF MakesCalls
<1> QED
  BY <1>1, CallsCome

LEMMA AsksNothing ==
    ASSUME MemoryInv, SessionsTyped', NoCall
    PROVE  MemoryInv'
<1> DEFINE new == {}
<1>1. UNCHANGED <<tables, notes>> /\ calls' \subseteq calls \cup new
  BY DEF NoCall, memory
<1>2. new \in SUBSET CallTypes
      /\ \A c \in new : ~Clearing(c) /\ ~Updating(c) /\ (c.do = "edge" => c.row = 0)
  OBVIOUS
<1> HIDE DEF new
<1> QED
  BY <1>1, <1>2, CallsCome

LEMMA EdgeCallTyped ==
    ASSUME NEW s \in Session, NEW which \in {"queried", "produced"}, NEW i \in Nat, NEW t \in Tool,
           NEW what \in {"queried", "success", "failure"}
    PROVE  LET c == EdgeCall(<<s, which, i>>, <<t, what>>)
           IN  c \in CallTypes /\ c.do = "edge" /\ c.row = 0
BY HarnessAssumption DEF EdgeCall, CallTypes

LEMMA InsertCallTyped ==
    ASSUME NEW s \in Session, NEW which \in {"stored", "inserted"}
    PROVE  InsertCall(<<s, which>>) \in CallTypes /\ InsertCall(<<s, which>>).do = "insert"
BY HarnessAssumption DEF InsertCall, CallTypes

LEMMA SessionSteps ==
    ASSUME MemoryInv, NEW s \in Session,
           \/ SessionStarts(s) \/ SessionThrows(s) \/ SessionCompletes(s)
           \/ \E t \in Tool : ToolRuns(s, t)
           \/ StoreThrows(s) \/ StoresAgain(s) \/ TraceRecorded(s) \/ Finalizes(s)
    PROVE  MemoryInv'
<1>1. CASE SessionStarts(s) \/ SessionThrows(s) \/ StoreThrows(s) \/ TraceRecorded(s)
  <2>1. SessionsTyped' /\ NoCall
    BY <1>1 DEF SessionStarts, SessionThrows, StoreThrows, TraceRecorded, screen, MemoryInv,
                SessionsTyped
  <2> QED
    BY <2>1, AsksNothing
<1>2. CASE SessionCompletes(s)
  <2>1. SessionsTyped' /\ MakesCalls({InsertCall(<<s, "stored">>)})
    BY <1>2 DEF SessionCompletes, screen, MemoryInv, SessionsTyped
  <2>2. InsertCall(<<s, "stored">>) \in CallTypes /\ InsertCall(<<s, "stored">>).do = "insert"
    BY InsertCallTyped
  <2> QED
    BY <2>1, <2>2, Asks DEF Clearing, Updating
<1>3. CASE StoresAgain(s)
  <2>1. SessionsTyped' /\ MakesCalls({InsertCall(<<s, "inserted">>)})
    BY <1>3 DEF StoresAgain, screen, MemoryInv, SessionsTyped
  <2>2. InsertCall(<<s, "inserted">>) \in CallTypes /\ InsertCall(<<s, "inserted">>).do = "insert"
    BY InsertCallTyped
  <2> QED
    BY <2>1, <2>2, Asks DEF Clearing, Updating
<1>4. ASSUME NEW t \in Tool, ToolRuns(s, t) PROVE MemoryInv'
  <2>1. used' = [used EXCEPT ![s] = Append(@, t)] /\ UNCHANGED screen
    BY <1>4 DEF ToolRuns
  <2>2. SessionsTyped' /\ Len(used'[s]) \in Nat
    BY <2>1 DEF screen, MemoryInv, SessionsTyped
  <2>3. CASE NoCall
    BY <2>2, <2>3, AsksNothing
  <2>4. CASE MakesCalls({EdgeCall(<<s, "queried", Len(used'[s])>>, <<t, "queried">>)})
    <3> DEFINE c == EdgeCall(<<s, "queried", Len(used'[s])>>, <<t, "queried">>)
    <3>1. c \in CallTypes /\ c.do = "edge" /\ c.row = 0
      BY <2>2, EdgeCallTyped
    <3> HIDE DEF c
    <3> QED
      BY <2>2, <2>4, <3>1, Asks DEF Clearing, Updating, c
  <2> QED
    BY <1>4, <2>3, <2>4 DEF ToolRuns
<1>5. CASE Finalizes(s)
  <2>1. SessionsTyped' /\ MakesCalls(EdgeCalls(s))
    BY <1>5 DEF Finalizes, screen, MemoryInv, SessionsTyped
  <2>2. ASSUME NEW c \in EdgeCalls(s) PROVE c \in CallTypes /\ c.do = "edge" /\ c.row = 0
    <3>1. PICK i \in DOMAIN used[s] :
            c = EdgeCall(<<s, "produced", i>>,
                         <<used[s][i], IF success[s] THEN "success" ELSE "failure">>)
      BY <2>2 DEF EdgeCalls
    <3>2. used[s][i] \in Tool /\ i \in Nat
      BY <3>1 DEF MemoryInv, SessionsTyped
    <3> QED
      BY <3>1, <3>2, EdgeCallTyped
  <2> QED
    BY <2>1, <2>2, Asks DEF Clearing, Updating
<1> QED
  BY <1>1, <1>2, <1>3, <1>4, <1>5

LEMMA ScreenSteps ==
    ASSUME MemoryInv, Opens \/ Clears \/ \E e \in Episode : SetsStatus(e)
    PROVE  MemoryInv'
<1>1. CASE Opens
  <2>1. SessionsTyped' /\ NoCall
    BY <1>1 DEF Opens, sessions, Pending, MemoryInv, SessionsTyped
  <2> QED
    BY <2>1, AsksNothing
<1>2. CASE Clears
  <2>1. SessionsTyped' /\ MakesCalls({ClearCall(clears + 1)}) /\ clears + 1 \in Nat
    BY <1>2 DEF Clears, sessions, MemoryInv, SessionsTyped
  <2>2. LET c == ClearCall(clears + 1) IN c \in CallTypes /\ c.do = "clear" /\ c.step = 1
    BY <2>1 DEF ClearCall, CallTypes
  <2> QED
    BY <2>1, <2>2, Asks DEF Clearing, Updating
<1>3. ASSUME NEW e \in Episode, SetsStatus(e) PROVE MemoryInv'
  <2>1. PICK status \in {"pending", "resolved"} : MakesCalls({OutcomeCall(e, status, updates + 1)})
    BY <1>3 DEF SetsStatus
  <2>2. SessionsTyped' /\ updates + 1 \in Nat
    BY <1>3 DEF SetsStatus, sessions, MemoryInv, SessionsTyped
  <2>3. LET c == OutcomeCall(e, status, updates + 1) IN c \in CallTypes /\ c.do = "outcome" /\ c.step = 1
    BY <2>2 DEF OutcomeCall, CallTypes
  <2> QED
    BY <2>1, <2>2, <2>3, Asks DEF Clearing, Updating
<1> QED
  BY <1>1, <1>2, <1>3

LEMMA NextMemory == MemoryInv /\ [Next]_vars => MemoryInv'
<1> SUFFICES ASSUME MemoryInv, [Next]_vars PROVE MemoryInv'
  OBVIOUS
<1>1. ASSUME NEW c \in calls, Runs(c), UNCHANGED <<sessions, screen>> PROVE MemoryInv'
  <2>1. SessionsTyped'
    BY <1>1 DEF sessions, screen, MemoryInv, SessionsTyped
  <2>2. CASE StatementFails(c)
    <3> DEFINE new == {}
    <3>1. UNCHANGED <<tables, notes>> /\ calls' \subseteq calls \cup new
      BY <2>2 DEF StatementFails, Ends
    <3>2. new \in SUBSET CallTypes
          /\ \A x \in new : ~Clearing(x) /\ ~Updating(x) /\ (x.do = "edge" => x.row = 0)
      OBVIOUS
    <3> HIDE DEF new
    <3> QED
      BY <2>1, <3>1, <3>2, CallsCome
  <2> QED
    BY <1>1, <2>1, <2>2, InsertEpisodeKeeps, ClearsKeep, ReplacesOutcomeKeeps, ReadsProfileKeeps,
       WritesProfileKeeps, FindsEdgeKeeps, RecordsEdgeKeeps DEF Runs
<1>2. CASE UNCHANGED vars
  <2>1. SessionsTyped' /\ NoCall
    BY <1>2 DEF vars, sessions, screen, NoCall, MemoryInv, SessionsTyped
  <2> QED
    BY <2>1, AsksNothing
<1> QED
  BY <1>1, <1>2, SessionSteps, ScreenSteps DEF Next

\* Episodes and outcomes come and go together, the history has the last updates and the weights
\* add up (memory.rs 257-310, 334-434 and 1189-1234), through clears that stop half way, updates
\* and records that overlap and statements that fail, with the exceptions that the parts of
\* MemoryAgrees name.
THEOREM MemoryKept == Spec => []MemoryAgrees
<1>1. MemoryInv => MemoryAgrees
  BY DEF MemoryInv, EpisodesKept, HistoryKept, RowsKept, Latest, MemoryAgrees, HistoryIsLatest
<1> QED
  BY <1>1, InitMemory, NextMemory, PTL DEF Spec

-----------------------------------------------------------------------------
(* Together.                                                               *)

\* The stores share no file and no call: what the five do together is, for each of them, what it
\* does alone or nothing, so that each keeps its promise whatever the others do.
THEOREM StoresKept ==
    StoresSpec => [](MemoryAgrees /\ SavedReconnects /\ ListIsKept /\ SignedInStays /\ KeyIsFound)
<1>1. StoresInit => Init /\ Saved!Init /\ Docs!Init /\ Google!Init /\ Keys!Init
  BY DEF StoresInit
<1>2. ASSUME [StoresNext]_<<store, vars, saved, documents, signIn, keys>>
      PROVE  /\ [Next]_vars
             /\ [Saved!Next]_Saved!vars
             /\ [Docs!Next]_Docs!vars
             /\ [Google!Next]_Google!vars
             /\ [Keys!Next]_Keys!vars
  <2>1. /\ Next \/ UNCHANGED vars
        /\ Saved!Next \/ UNCHANGED saved
        /\ Docs!Next \/ UNCHANGED documents
        /\ Google!Next \/ UNCHANGED signIn
        /\ Keys!Next \/ UNCHANGED keys
    BY <1>2, Zenon DEF StoresNext
  <2>2. UNCHANGED saved => UNCHANGED Saved!vars
    BY DEF saved, Saved!vars, Saved!disk, Saved!counters, Saved!ghosts
  <2>3. UNCHANGED documents => UNCHANGED Docs!vars
    BY DEF documents, Docs!vars, Docs!window, Docs!ghosts
  <2>4. UNCHANGED signIn => UNCHANGED Google!vars
    BY DEF signIn, Google!vars, Google!stores, Google!counters, Google!ghosts
  <2>5. UNCHANGED keys => UNCHANGED Keys!vars
    BY DEF keys, Keys!vars, Keys!counters
  <2> QED
    BY <2>1, <2>2, <2>3, <2>4, <2>5
<1>3. StoresSpec => Spec /\ Saved!Spec /\ Docs!Spec /\ Google!Spec /\ Keys!Spec
  BY <1>1, <1>2, PTL DEF StoresSpec, Spec, Saved!Spec, Docs!Spec, Google!Spec, Keys!Spec
<1> QED
  BY <1>3, MemoryKept, SavedOpens, ListsKept, SignInStays, KeyFound, PTL
=============================================================================
