--------------------------- MODULE AccountCommands ---------------------------
(***************************************************************************)
(* Commands that change the gateway's accounts and pools                   *)
(* (gateway/commands.py): the configuration file and the keychain, which   *)
(* have no common transaction.  One lock over processes and threads admits *)
(* one command at a time (GatewayConfigStore.transaction); between two     *)
(* steps of it the process may die, and the operating system lets go of    *)
(* the lock.  A command that does not get the lock changes nothing.        *)
(***************************************************************************)
EXTENDS Integers, FiniteSets

CONSTANTS
    Accounts,    \* account identifiers; those of new accounts are drawn
    Aliases,
    Secrets,
    Pools,
    Absent,
    MaxRevision  \* bound: the revision of a pool

ASSUME AccountAssumption ==
    /\ Absent \notin Accounts \cup Aliases \cup Secrets
    /\ MaxRevision \in Nat \ {0}

VARIABLES
    file,      \* the configuration file
    keychain,  \* the credential of each account, or Absent
    command,   \* the command that holds the lock and where it stands
    accepted,  \* history: the credential the last command answered with ok left
    troubled   \* history: accounts whose two places a fault left unequal

accountVars == <<file, keychain, command, accepted, troubled>>

PoolRows == [revision : 1 .. MaxRevision, members : SUBSET Accounts]

Files == [accounts : [Accounts -> Aliases \cup {Absent}],
          pools : [Pools -> PoolRows \cup {Absent}]]

Configured == {a \in Accounts : file.accounts[a] # Absent}

\* NoAccount stands in commands on pools, which touch no credential.
NoAccount == Absent

Idle == [at |-> "idle"]

Commands == [at : {"set", "delete", "save", "restore"}, account : Accounts \cup {NoAccount},
             updated : Files, secret : Secrets \cup {Absent}, old : Secrets \cup {Absent}]

Command(at, account, updated, secret, old) ==
    [at |-> at, account |-> account, updated |-> updated, secret |-> secret, old |-> old]

AccountInit ==
    /\ file = [accounts |-> [a \in Accounts |-> Absent], pools |-> [p \in Pools |-> Absent]]
    /\ keychain = [a \in Accounts |-> Absent]
    /\ command = Idle
    /\ accepted = [a \in Accounts |-> Absent]
    /\ troubled = {}

(***************************************************************************)
(* Taking the lock, loading the file and looking at the credential.  A     *)
(* refusal, and a keychain that cannot be read, change nothing.            *)
(***************************************************************************)
Ask(next) ==
    /\ command = Idle
    /\ command' = next
    /\ UNCHANGED <<file, keychain, accepted, troubled>>

WithAccount(a, alias) == [file EXCEPT !.accounts[a] = alias]
WithPool(p, row) == [file EXCEPT !.pools[p] = row]

CreateAccount(a, alias, secret) ==
    /\ a \notin Configured
    /\ keychain[a] = Absent
    /\ Ask(Command("set", a, WithAccount(a, alias), secret, Absent))

EditAccount(a, alias, secret) ==
    /\ a \in Configured
    /\ Ask(Command("set", a, WithAccount(a, alias), secret, keychain[a]))

RenameAccount(a, alias) ==
    /\ a \in Configured
    /\ Ask(Command("save", NoAccount, WithAccount(a, alias), Absent, Absent))

\* Mutant: only the pools of one member are looked at.
ReferencedAlone(a) == \E p \in Pools : file.pools[p] # Absent /\ file.pools[p].members = {a}

Referenced(a) == \E p \in Pools : file.pools[p] # Absent /\ a \in file.pools[p].members

RemoveAccount(a) ==
    /\ a \in Configured
    /\ ~Referenced(a)
    /\ Ask(Command(IF keychain[a] = Absent THEN "save" ELSE "delete",
                   a, WithAccount(a, Absent), Absent, keychain[a]))

SavePool(p, row) == Ask(Command("save", NoAccount, WithPool(p, row), Absent, Absent))

CreatePool(p, members) ==
    /\ file.pools[p] = Absent
    /\ members \subseteq Configured
    /\ SavePool(p, [revision |-> 1, members |-> members])

EditPool(p, members, expected) ==
    /\ file.pools[p] # Absent
    /\ file.pools[p].revision = expected
    /\ expected < MaxRevision
    /\ members \subseteq Configured
    /\ SavePool(p, [revision |-> expected + 1, members |-> members])

RemovePool(p, expected) ==
    /\ file.pools[p] # Absent
    /\ file.pools[p].revision = expected
    /\ SavePool(p, Absent)

(***************************************************************************)
(* The steps of the command that holds the lock.                           *)
(***************************************************************************)
Continue(at) == command' = [command EXCEPT !.at = at]
Keep(secret) == keychain' = [keychain EXCEPT ![command.account] = secret]

\* A call to the keychain that raises may have done its work nevertheless.
Refused(secret) ==
    /\ command' = Idle
    /\ \/ UNCHANGED <<keychain, troubled>>
       \/ Keep(secret) /\ troubled' = troubled \cup {command.account}

SetCredential ==
    /\ command.at = "set"
    /\ \/ Keep(command.secret) /\ Continue("save") /\ UNCHANGED troubled
       \/ Refused(command.secret)
    /\ UNCHANGED <<file, accepted>>

DeleteCredential ==
    /\ command.at = "delete"
    /\ \/ Keep(Absent) /\ Continue("save") /\ UNCHANGED troubled
       \/ Refused(Absent)
    /\ UNCHANGED <<file, accepted>>

TouchesKeychain == command.account # NoAccount

\* The account and its credential are in order again once a command said so.
Save ==
    /\ command.at = "save"
    /\ file' = command.updated
    /\ command' = Idle
    /\ accepted' = IF TouchesKeychain
                   THEN [accepted EXCEPT ![command.account] = command.secret] ELSE accepted
    /\ troubled' = troubled \ {command.account}
    /\ UNCHANGED keychain

\* Mutant: only what was there before is put back.
RestoresOld == TouchesKeychain /\ command.old # Absent

\* A removal restores only a credential it has deleted.
Restores ==
    /\ TouchesKeychain
    /\ command.secret # Absent \/ command.old # Absent

AfterFailedSave == command' = IF Restores THEN [command EXCEPT !.at = "restore"] ELSE Idle

SaveFails ==
    /\ command.at = "save"
    /\ AfterFailedSave
    /\ UNCHANGED <<file, keychain, accepted, troubled>>

\* The look at the new file, or the sync of its directory, raises after the
\* file was replaced.
SaveFailsLate ==
    /\ command.at = "save"
    /\ file' = command.updated
    /\ AfterFailedSave
    /\ troubled' = troubled \cup (IF TouchesKeychain THEN {command.account} ELSE {})
    /\ UNCHANGED <<keychain, accepted>>

RestoreCredential ==
    /\ command.at = "restore"
    /\ command' = Idle
    /\ \/ Keep(command.old) /\ UNCHANGED troubled
       \/ /\ keychain' \in {keychain, [keychain EXCEPT ![command.account] = command.old]}
          /\ troubled' = troubled \cup {command.account}
    /\ UNCHANGED <<file, accepted>>

\* The file is replaced in one step: the process dies before or after it.
Die ==
    /\ command # Idle
    /\ command' = Idle
    /\ file' \in {file} \cup (IF command.at = "save" THEN {command.updated} ELSE {})
    /\ troubled' = troubled \cup (IF TouchesKeychain THEN {command.account} ELSE {})
    /\ UNCHANGED <<keychain, accepted>>

AccountNext ==
    \/ \E a \in Accounts :
        \/ \E alias \in Aliases, secret \in Secrets :
            CreateAccount(a, alias, secret) \/ EditAccount(a, alias, secret)
        \/ \E alias \in Aliases : RenameAccount(a, alias)
        \/ RemoveAccount(a)
    \/ \E p \in Pools :
        \/ \E members \in SUBSET Accounts \ {{}} : CreatePool(p, members)
        \/ \E members \in SUBSET Accounts \ {{}}, expected \in 1 .. MaxRevision :
            EditPool(p, members, expected)
        \/ \E expected \in 1 .. MaxRevision : RemovePool(p, expected)
    \/ SetCredential \/ DeleteCredential
    \/ Save \/ SaveFails \/ SaveFailsLate
    \/ RestoreCredential
    \/ Die

AccountSpec == AccountInit /\ [][AccountNext]_accountVars

(***************************************************************************)
(* Properties.                                                             *)
(***************************************************************************)

\* The file, the keychain and the command have their shape.
AccountTypeOK ==
    /\ file \in Files
    /\ keychain \in [Accounts -> Secrets \cup {Absent}]
    /\ command \in Commands \cup {Idle}
    /\ accepted \in [Accounts -> Secrets \cup {Absent}]
    /\ troubled \subseteq Accounts

\* File and keychain agree between commands: an account is configured exactly
\* if a command that answered ok left it a credential, and it is that one that
\* is in the keychain, whichever steps of later commands failed and were
\* compensated.  Excepted are accounts a fault between the two places hit,
\* until a later command on them succeeds.
CredentialsAgree ==
    command = Idle => \A a \in Accounts \ troubled :
        /\ keychain[a] = accepted[a]
        /\ a \in Configured <=> accepted[a] # Absent

\* No pool ever names an account that is not configured: the check for
\* references and the removal of an account, and the lookup of members and the
\* save of a pool, are under one lock, and a save replaces the whole file.
PoolsReferenceAccounts ==
    \A p \in Pools : file.pools[p] # Absent => file.pools[p].members \subseteq Configured
=============================================================================
