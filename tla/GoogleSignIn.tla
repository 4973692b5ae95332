---------------------------- MODULE GoogleSignIn ----------------------------
(***************************************************************************)
(* The sign-in at Google and the tokens it leaves (lib/auth/googleOAuth.ts,*)
(* commands/oauth.rs, ConnectScreen.tsx, ProviderSettingsDialog.tsx).      *)
(*                                                                         *)
(* A flow starts a one-shot server, learns its port from an event that     *)
(* every listener of the window hears, opens a page that will call the     *)
(* port, waits for the server's answer, exchanges the code it was given    *)
(* and stores three values, one native call after the other.  Loading the  *)
(* token reads the values the same way and may refresh them; disconnecting *)
(* stores empty ones.                                                      *)
(*                                                                         *)
(* A server and the state its page must show are named by the number of    *)
(* the attempt.  Of a stored value only its presence is kept.  One action  *)
(* is the code between two awaits.                                         *)
(***************************************************************************)
EXTENDS Naturals, Sequences

CONSTANTS
    Place,          \* where a sign-in is started: the welcome screen, the dialog
    Loader,         \* who loads the token: the start of the window, the dialog
    MaxAttempts,    \* bound: sign-ins started
    MaxLoads,       \* bound: loads of the token
    MaxFaults,      \* bound: keychain calls that fail
    MaxStray,       \* bound: connections of others to a server's port
    MaxRestarts     \* bound: restarts

Disconnect == "disconnect"

SignInAssumption ==
    /\ Place \cap Loader = {} /\ Disconnect \notin Place \cup Loader
    /\ {MaxAttempts, MaxLoads, MaxFaults, MaxStray, MaxRestarts} \subseteq Nat

VARIABLES
    flow,       \* a sign-in: what it awaits, its attempt, the port it was told
    server,     \* the one-shot server of each attempt
    pages,      \* pages of the browser that were opened and not answered
    reader,     \* a load of the token: what it awaits, what it found
    writes,     \* the values each writer has still to store; of the first the call is out
    keychain,   \* the fields the keychain has
    backup,     \* the fields localStorage has
    attempts, loads, faults, strays, restarts,  \* numbers of what is bounded
    signedIn,   \* ghost: a sign-in was stored, and no disconnect has begun since
    mixed       \* ghost: sign-ins stored while a disconnect was

Attempt == 1 .. MaxAttempts
Field == {"access", "refresh", "expiry"}
Writer == Place \cup Loader \cup {Disconnect}

counters == <<attempts, loads, faults, strays, restarts>>
ghosts == <<signedIn, mixed>>
stores == <<writes, keychain, backup, ghosts>>
vars == <<flow, server, pages, reader, stores, counters>>

NoFlow == [awaits |-> "nothing", attempt |-> 0, port |-> 0]
NoReader == [awaits |-> "nothing", found |-> {}]

-----------------------------------------------------------------------------
\* Starting.

\* The listener is there before the server is asked for.
Starts(p) ==
    /\ flow[p].awaits = "nothing" /\ writes[p] = << >> /\ attempts < MaxAttempts
    /\ attempts' = attempts + 1
    /\ flow' = [flow EXCEPT ![p] = [awaits |-> "port", attempt |-> attempts', port |-> 0]]
    /\ server' = [server EXCEPT ![attempts'] = "binding"]
    /\ UNCHANGED <<pages, reader, writes, keychain, backup, signedIn, mixed, loads, faults, strays, restarts>>

\* The event: every flow that listens takes the port for its own, and opens its page.
Listening == {p \in Place : flow[p].awaits = "port"}

Binds(n) ==
    /\ server[n] = "binding"
    /\ server' = [server EXCEPT ![n] = "ready"]
    /\ flow' = [p \in Place |-> IF p \in Listening THEN [flow[p] EXCEPT !.awaits = "code", !.port = n]
                                                  ELSE flow[p]]
    /\ pages' = pages \cup {[state |-> flow[p].attempt, port |-> n] : p \in Listening}
    /\ UNCHANGED <<reader, stores, counters>>

\* No server: the timer is cleared and the listener removed, and the flow goes on waiting
\* for the port.
BindFails(n) ==
    /\ server[n] = "binding"
    /\ server' = [server EXCEPT ![n] = "closed"]
    /\ flow' = [p \in Place |->
                  CASE flow[p].attempt = n /\ flow[p].awaits = "port" -> [flow[p] EXCEPT !.awaits = "no port"]
                    [] flow[p].attempt = n /\ flow[p].awaits = "code" -> NoFlow
                    [] OTHER -> flow[p]]
    /\ UNCHANGED <<pages, reader, stores, counters>>

\* Five seconds.
PortTimesOut(p) ==
    /\ flow[p].awaits = "port"
    /\ flow' = [flow EXCEPT ![p] = NoFlow]
    /\ UNCHANGED <<server, pages, reader, stores, counters>>

-----------------------------------------------------------------------------
\* The server takes one connection, and its flow hears how that went.

Closes(n) == server' = [server EXCEPT ![n] = "closed"]
Waiting(n) == {p \in Place : flow[p].attempt = n /\ flow[p].awaits = "code"}
Hears(n, then) == [p \in Place |-> IF p \in Waiting(n) THEN then ELSE flow[p]]
Refused(n) == Closes(n) /\ flow' = Hears(n, NoFlow)

\* The user consents, and the page calls the port it was opened with.  (From here port is
\* the attempt whose code the flow has.)
Redirects(page) ==
    /\ pages' = pages \ {page}
    /\ IF server[page.port] # "ready" THEN UNCHANGED <<flow, server>>
       ELSE IF page.state # page.port THEN Refused(page.port)
       ELSE /\ Closes(page.port)
            /\ flow' = [p \in Place |-> IF p \in Waiting(page.port)
                                          THEN [flow[p] EXCEPT !.awaits = "tokens", !.port = page.state]
                                          ELSE flow[p]]
    /\ UNCHANGED <<reader, stores, counters>>

\* The user refuses, in the page, or leaves it.
Declines(page) ==
    /\ pages' = pages \ {page}
    /\ IF server[page.port] = "ready" THEN Refused(page.port) ELSE UNCHANGED <<flow, server>>
    /\ UNCHANGED <<reader, stores, counters>>

Leaves(page) ==
    /\ pages' = pages \ {page}
    /\ UNCHANGED <<flow, server, reader, stores, counters>>

\* The first connection is of another, without a code.
StrayConnects(n) ==
    /\ strays < MaxStray /\ strays' = strays + 1
    /\ server[n] = "ready" /\ Refused(n)
    /\ UNCHANGED <<pages, reader, stores, attempts, loads, faults, restarts>>

\* Five minutes.
ServerTimesOut(n) ==
    /\ server[n] = "ready" /\ Refused(n)
    /\ UNCHANGED <<pages, reader, stores, counters>>

-----------------------------------------------------------------------------
\* Storing.

Put(fields, value, f) == IF value THEN fields \cup {f} ELSE fields \ {f}

\* Mutant: the backup is only taken away.
BeginsWithoutBackup(w, values) ==
    /\ writes' = [writes EXCEPT ![w] = values]
    /\ backup' = IF values = << >> \/ values[1][2] THEN backup ELSE backup \ {values[1][1]}

\* storeOAuthValue up to its await, for the first of the values: the backup is written.
Begins(w, values) ==
    /\ writes' = [writes EXCEPT ![w] = values]
    /\ backup' = IF values = << >> THEN backup ELSE Put(backup, values[1][2], values[1][1])

\* The tokens; a refresh token is not in every answer.
Exchanges(p) ==
    /\ flow[p].awaits = "tokens"
    /\ \/ Begins(p, << <<"access", TRUE>>, <<"refresh", TRUE>>, <<"expiry", TRUE>> >>)
       \/ Begins(p, << <<"access", TRUE>>, <<"expiry", TRUE>> >>)
    /\ flow' = [flow EXCEPT ![p].awaits = "stored"]
    /\ mixed' = IF writes[Disconnect] # << >> THEN mixed \cup {p} ELSE mixed \ {p}
    /\ UNCHANGED <<server, pages, reader, keychain, signedIn, counters>>

ExchangeFails(p) ==
    /\ flow[p].awaits = "tokens"
    /\ flow' = [flow EXCEPT ![p] = NoFlow]
    /\ UNCHANGED <<server, pages, reader, stores, counters>>

\* The first value of a writer is stored, or the keychain fails and nobody hears; the
\* next one follows, or the flow or the load ends.
Stores(w) ==
    /\ writes[w] # << >>
    /\ \/ keychain' = Put(keychain, writes[w][1][2], writes[w][1][1]) /\ UNCHANGED faults
       \/ faults < MaxFaults /\ faults' = faults + 1 /\ UNCHANGED keychain
    /\ Begins(w, Tail(writes[w]))
    /\ LET last == Len(writes[w]) = 1
       IN  /\ flow' = IF w \in Place /\ last THEN [flow EXCEPT ![w] = NoFlow] ELSE flow
           /\ reader' = IF w \in Loader /\ last THEN [reader EXCEPT ![w] = NoReader] ELSE reader
           /\ signedIn' = (signedIn \/ (w \in Place \ mixed /\ last))
    /\ UNCHANGED <<server, pages, mixed, attempts, loads, strays, restarts>>

\* The dialog's button.
Disconnects ==
    /\ writes[Disconnect] = << >>
    /\ "access" \in keychain \cup backup
    /\ Begins(Disconnect, << <<"access", FALSE>>, <<"refresh", FALSE>>, <<"expiry", FALSE>> >>)
    /\ signedIn' = FALSE
    /\ mixed' = mixed \cup {p \in Place : writes[p] # << >>}
    /\ UNCHANGED <<flow, server, pages, reader, keychain, counters>>

-----------------------------------------------------------------------------
\* Loading the token: the three fields, one after the other.

Loads(r) ==
    /\ reader[r].awaits = "nothing" /\ loads < MaxLoads /\ loads' = loads + 1
    /\ reader' = [reader EXCEPT ![r] = [awaits |-> "access", found |-> {}]]
    /\ UNCHANGED <<flow, server, pages, stores, attempts, faults, strays, restarts>>

After(f) == CASE f = "access" -> "refresh" [] f = "refresh" -> "expiry" [] f = "expiry" -> "answer"

\* loadOAuthValue: the keychain, and the backup if it has nothing or fails.
Reads(r) ==
    /\ reader[r].awaits \in Field
    /\ LET f == reader[r].awaits
       IN  \E found \in {f \in keychain \cup backup} \cup (IF faults < MaxFaults THEN {f \in backup} ELSE {}) :
             /\ faults' = IF found = (f \in keychain \cup backup) THEN faults ELSE faults + 1
             /\ reader' = [reader EXCEPT ![r] =
                  IF f = "access" /\ ~found THEN NoReader
                  ELSE [awaits |-> After(f), found |-> Put(@.found, found, f)]]
    /\ UNCHANGED <<flow, server, pages, stores, attempts, loads, strays, restarts>>

\* The token is not near its end, or cannot be refreshed: it is the answer.
Answers(r) ==
    /\ reader[r].awaits = "answer"
    /\ reader' = [reader EXCEPT ![r] = NoReader]
    /\ UNCHANGED <<flow, server, pages, stores, counters>>

\* It is, and Google is asked.
Refreshes(r) ==
    /\ reader[r].awaits = "answer" /\ {"refresh", "expiry"} \subseteq reader[r].found
    /\ reader' = [reader EXCEPT ![r].awaits = "refreshed"]
    /\ UNCHANGED <<flow, server, pages, stores, counters>>

Refreshed(r) ==
    /\ reader[r].awaits = "refreshed"
    /\ \/ /\ Begins(r, << <<"access", TRUE>>, <<"expiry", TRUE>> >>)
          /\ reader' = [reader EXCEPT ![r].awaits = "stored"]
       \/ reader' = [reader EXCEPT ![r] = NoReader] /\ UNCHANGED <<writes, backup>>
    /\ UNCHANGED <<flow, server, pages, keychain, ghosts, counters>>

-----------------------------------------------------------------------------
\* The application is stopped; of the calls that are out, any may have been served.
Restart ==
    /\ restarts < MaxRestarts /\ restarts' = restarts + 1
    /\ \E served \in SUBSET {w \in Writer : writes[w] # << >>} :
         keychain' = {f \in Field : \/ f \in keychain /\ ~\E w \in served : writes[w][1] = <<f, FALSE>>
                                    \/ \E w \in served : writes[w][1] = <<f, TRUE>>}
    /\ flow' = [p \in Place |-> NoFlow] /\ reader' = [r \in Loader |-> NoReader]
    /\ writes' = [w \in Writer |-> << >>]
    /\ server' = [n \in Attempt |-> IF n <= attempts THEN "closed" ELSE "none"]
    /\ UNCHANGED <<pages, backup, ghosts, attempts, loads, faults, strays>>

Init ==
    /\ flow = [p \in Place |-> NoFlow]
    /\ server = [n \in Attempt |-> "none"] /\ pages = {}
    /\ reader = [r \in Loader |-> NoReader]
    /\ writes = [w \in Writer |-> << >>]
    /\ keychain = {} /\ backup = {}
    /\ attempts = 0 /\ loads = 0 /\ faults = 0 /\ strays = 0 /\ restarts = 0
    /\ signedIn = FALSE /\ mixed = {}

Next ==
    \/ \E p \in Place : Starts(p) \/ PortTimesOut(p) \/ Exchanges(p) \/ ExchangeFails(p)
    \/ \E n \in Attempt : Binds(n) \/ BindFails(n) \/ StrayConnects(n) \/ ServerTimesOut(n)
    \/ \E page \in pages : Redirects(page) \/ Declines(page) \/ Leaves(page)
    \/ \E w \in Writer : Stores(w)
    \/ \E r \in Loader : Loads(r) \/ Reads(r) \/ Answers(r) \/ Refreshes(r) \/ Refreshed(r)
    \/ Disconnects
    \/ Restart

Spec == Init /\ [][Next]_vars

-----------------------------------------------------------------------------
\* Properties.

\* After a sign-in, and until a disconnect, a token and its expiry can be found: whatever
\* the keychain does, whoever else refreshes or signs in, and after a restart.
SignedInStays == signedIn => {"access", "expiry"} \subseteq keychain \cup backup
=============================================================================
