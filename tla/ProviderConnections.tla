------------------------- MODULE ProviderConnections -------------------------
(***************************************************************************)
(* Mutations of the app-owned provider connections (ui.ProviderController  *)
(* behind provider_commands and the settings window): one configuration    *)
(* file that is loaded and saved whole, and one to three keychain entries  *)
(* per connection.  There is no lock, and the macOS app ends a mutation    *)
(* that takes more than thirty seconds.  Reading the old entries is one    *)
(* step with loading the file; mutations that are refused change nothing   *)
(* and are left out, as are the contents of a configuration.               *)
(***************************************************************************)
CONSTANTS
    Writers,      \* processes that mutate connections
    Connections,  \* provider identifiers, each of one kind
    StepPlans,    \* those of Step Plans, which have a web session besides the key
    Configs,      \* public configurations of a connection
    Credentials,
    Nothing       \* no row, no credential, no promise

ASSUME ConnectionAssumption ==
    /\ StepPlans \subseteq Connections
    /\ Nothing \notin Configs \cup Credentials

VARIABLES
    providers,  \* the rows of the configuration file
    secrets,    \* the keychain
    mutation,   \* what each writer does
    promised    \* history: what the last mutation that answered ok left of each
                \* connection; Nothing once a fault left something else

connectionVars == <<providers, secrets, mutation, promised>>

Parts == {"key", "token", "webid"}

PartsOf(c) == IF c \in StepPlans THEN Parts ELSE {"key"}

\* Entries are written and restored in this order.
First(parts) ==
    IF "key" \in parts THEN "key" ELSE IF "token" \in parts THEN "token" ELSE "webid"

NoSecrets == [p \in Parts |-> Nothing]

NoMutation == [at |-> "none"]

ConnectionInit ==
    /\ providers = [c \in Connections |-> Nothing]
    /\ secrets = [c \in Connections |-> NoSecrets]
    /\ mutation = [w \in Writers |-> NoMutation]
    /\ promised = [c \in Connections |-> [row |-> Nothing, secrets |-> NoSecrets]]

\* What a request brings: an API key, a web session of two parts, or both.
Given(c, key, session) ==
    [p \in {q \in PartsOf(c) : IF q = "key" THEN key # Nothing ELSE session # Nothing} |->
        IF p = "key" THEN key ELSE session]

HasSecret(c) == \E p \in PartsOf(c) : secrets[c][p] # Nothing

Begins(w, verb, c, row, writes) ==
    /\ mutation[w].at = "none"
    /\ mutation' = [mutation EXCEPT ![w] =
           [at |-> IF DOMAIN writes = {} THEN "saving" ELSE "writing", verb |-> verb,
            connection |-> c, row |-> row, loaded |-> providers, previous |-> secrets[c],
            writes |-> writes, todo |-> DOMAIN writes]]
    /\ UNCHANGED <<providers, secrets, promised>>

AddConnection(w, c, row, key, session) ==
    /\ providers[c] = Nothing
    /\ DOMAIN Given(c, key, session) # {}
    /\ Begins(w, "add", c, row, Given(c, key, session))

UpdateConnection(w, c, row, key, session) ==
    /\ providers[c] # Nothing
    /\ session # Nothing => c \in StepPlans
    /\ DOMAIN Given(c, key, session) # {} \/ HasSecret(c)
    /\ Begins(w, "update", c, row, Given(c, key, session))

RemoveConnection(w, c) ==
    /\ providers[c] # Nothing
    /\ Begins(w, "remove", c, Nothing, [p \in PartsOf(c) |-> Nothing])

(***************************************************************************)
(* The keychain, entry by entry, and then the file.                        *)
(***************************************************************************)
Ends(w) == mutation' = [mutation EXCEPT ![w] = NoMutation]

AsPromised(c) == promised[c] = [row |-> providers[c], secrets |-> secrets[c]]

BreaksPromise(c) == promised' = [promised EXCEPT ![c] = Nothing]

Put(w, p, value) == secrets' = [secrets EXCEPT ![mutation[w].connection][p] = value]

\* Mutant: only the API key is restored.
UndoneKeyAlone(w) == DOMAIN mutation[w].writes \cap {"key"}

\* The entries a failed mutation writes back: a removal those there were.
Undone(w) ==
    LET m == mutation[w] IN
    {p \in DOMAIN m.writes : m.verb = "remove" => m.previous[p] # Nothing}

\* Adding any other connection than a Step Plan deletes its key again, whatever
\* it found.
UndoValue(w, p) ==
    LET m == mutation[w] IN
    IF m.verb = "add" /\ m.connection \notin StepPlans THEN Nothing ELSE m.previous[p]

\* What is left to undo; a removal saves the list it loaded behind it.
Undoes(w, todo) ==
    IF todo # {} THEN mutation' = [mutation EXCEPT ![w].at = "undoing", ![w].todo = todo]
    ELSE IF mutation[w].verb = "remove" THEN mutation' = [mutation EXCEPT ![w].at = "restoring"]
    ELSE Ends(w)

WriteSecret(w) ==
    LET m == mutation[w]
        p == First(m.todo) IN
    /\ m.at = "writing"
    /\ Put(w, p, m.writes[p])
    /\ mutation' = [mutation EXCEPT ![w].todo = @ \ {p},
                                    ![w].at = IF m.todo = {p} THEN "saving" ELSE @]
    /\ UNCHANGED <<providers, promised>>

\* The keychain raises, having done its work or not.  Only the addition of
\* another connection than a Step Plan leaves it at that.
WriteSecretFails(w) ==
    LET m == mutation[w]
        p == First(m.todo)
        Undo == m.verb # "add" \/ m.connection \in StepPlans IN
    /\ m.at = "writing"
    /\ \/ UNCHANGED <<secrets, promised>>
       \/ /\ Put(w, p, m.writes[p])
          /\ IF Undo THEN UNCHANGED promised ELSE BreaksPromise(m.connection)
    /\ IF Undo THEN Undoes(w, Undone(w)) ELSE Ends(w)
    /\ UNCHANGED providers

\* What the connection is to be when the mutation answers ok.
Outcome(w) ==
    LET m == mutation[w]
        before == promised[m.connection] IN
    IF before = Nothing /\ DOMAIN m.writes # PartsOf(m.connection) THEN Nothing
    ELSE [row |-> m.row,
          secrets |-> [p \in Parts |->
                          IF p \in DOMAIN m.writes THEN m.writes[p]
                          ELSE IF p \in PartsOf(m.connection) THEN before.secrets[p]
                          ELSE Nothing]]

\* The whole list as it was loaded, but for the row of the connection.
SaveProviders(w) ==
    LET m == mutation[w] IN
    /\ m.at = "saving"
    /\ providers' = [m.loaded EXCEPT ![m.connection] = m.row]
    /\ promised' = [promised EXCEPT ![m.connection] = Outcome(w)]
    /\ Ends(w)
    /\ UNCHANGED secrets

\* Writing or replacing the file fails and leaves it.
SaveProvidersFails(w) ==
    /\ mutation[w].at = "saving"
    /\ Undoes(w, Undone(w))
    /\ UNCHANGED <<providers, secrets, promised>>

\* A failure to restore one entry is swallowed.
UndoSecret(w) ==
    LET m == mutation[w]
        p == First(m.todo)
        value == UndoValue(w, p) IN
    /\ m.at = "undoing"
    /\ \/ Put(w, p, value) /\ UNCHANGED promised
       \/ /\ UNCHANGED secrets
          /\ IF secrets[m.connection][p] = value THEN UNCHANGED promised
             ELSE BreaksPromise(m.connection)
    /\ Undoes(w, m.todo \ {p})
    /\ UNCHANGED providers

RestoreProviders(w) ==
    /\ mutation[w].at = "restoring"
    /\ providers' \in {mutation[w].loaded, providers}
    /\ Ends(w)
    /\ UNCHANGED <<secrets, promised>>

\* The app ends the process, or it dies.
MutationKilled(w) ==
    /\ mutation[w].at # "none"
    /\ Ends(w)
    /\ IF AsPromised(mutation[w].connection) THEN UNCHANGED promised
       ELSE BreaksPromise(mutation[w].connection)
    /\ UNCHANGED <<providers, secrets>>

ConnectionNext ==
    \E w \in Writers :
        \/ \E c \in Connections, row \in Configs, key, session \in Credentials \cup {Nothing} :
              AddConnection(w, c, row, key, session) \/ UpdateConnection(w, c, row, key, session)
        \/ \E c \in Connections : RemoveConnection(w, c)
        \/ WriteSecret(w) \/ WriteSecretFails(w)
        \/ SaveProviders(w) \/ SaveProvidersFails(w)
        \/ UndoSecret(w) \/ RestoreProviders(w)
        \/ MutationKilled(w)

ConnectionSpec == ConnectionInit /\ [][ConnectionNext]_connectionVars

(***************************************************************************)
(* Properties.                                                             *)
(***************************************************************************)

\* Rows are configurations, entries credentials, and a mutation is somewhere
\* in its code.
ConnectionTypeOK ==
    /\ providers \in [Connections -> Configs \cup {Nothing}]
    /\ \A c \in Connections :
          /\ DOMAIN secrets[c] = Parts
          /\ \A p \in DOMAIN secrets[c] :
                secrets[c][p] \in Credentials \cup {Nothing} /\ (secrets[c][p] # Nothing => p \in PartsOf(c))
    /\ \A w \in Writers : mutation[w].at \in {"none", "writing", "saving", "undoing", "restoring"}

\* With one writer, a connection nobody is working on is what the last mutation
\* of it that answered ok made it, its row, its key and its web session alike,
\* whatever failed since and was undone; and a connection that has a row has a
\* credential.
ConnectionsAsPromised ==
    \A c \in Connections :
        promised[c] # Nothing /\ (\A w \in Writers : mutation[w].at # "none" => mutation[w].connection # c) =>
            /\ AsPromised(c)
            /\ providers[c] # Nothing => HasSecret(c)

\* Saving a connection preserves the existing ones: a step changes only the row
\* of a connection its writer was asked to change.
EditsPreserveOthers ==
    [][\A c \in Connections : providers'[c] # providers[c] =>
          \E w \in Writers : mutation[w].at # "none" /\ mutation'[w] # mutation[w] /\ mutation[w].connection = c
      ]_connectionVars
=============================================================================
