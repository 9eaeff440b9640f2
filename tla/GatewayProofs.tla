--------------------------- MODULE GatewayProofs ---------------------------
(***************************************************************************)
(* Theorems about the Gateway's configuration: the configuration file and  *)
(* the keychain agree between commands and pools name configured accounts, *)
(* for any accounts, credentials and pools and whatever fails or dies; the *)
(* probes of a circuit are an interval apart, for any times; with one      *)
(* writer at a time, a provider connection is what the last mutation that  *)
(* answered ok made it; a burn rate leaves no request out; and the gateway *)
(* keeps every promise of its parts.                                       *)
(***************************************************************************)
EXTENDS Gateway, AnswerProofs

(* The commands that may be asked for.                                     *)
Asked ==
    \/ \E a \in Accounts :
        \/ \E alias \in Aliases, secret \in Secrets :
            CreateAccount(a, alias, secret) \/ EditAccount(a, alias, secret)
        \/ \E alias \in Aliases : RenameAccount(a, alias)
        \/ RemoveAccount(a)
    \/ \E p \in Pools :
        \/ \E members \in SUBSET Accounts \ {{}} : CreatePool(p, members)
        \/ \E members \in SUBSET Accounts \ {{}}, expected \in 1 .. MaxRevision :
            EditPool(p, members, expected)
        \/ \E expected \in 1 .. MaxRevision : RemovePool(p, expected)

LEMMA FileUpdates ==
    ASSUME file \in Files
    PROVE  /\ \A a \in Accounts, alias \in Aliases \cup {Absent} :
                /\ WithAccount(a, alias) \in Files
                /\ WithAccount(a, alias).pools = file.pools
                /\ \A b \in Accounts : WithAccount(a, alias).accounts[b] =
                        IF b = a THEN alias ELSE file.accounts[b]
           /\ \A p \in Pools, row \in PoolRows \cup {Absent} :
                /\ WithPool(p, row) \in Files
                /\ WithPool(p, row).accounts = file.accounts
                /\ \A q \in Pools : WithPool(p, row).pools[q] =
                        IF q = p THEN row ELSE file.pools[q]
BY DEF Files, WithAccount, WithPool

LEMMA CommandTyped ==
    ASSUME NEW at \in {"set", "delete", "save", "restore"},
           NEW account \in Accounts \cup {NoAccount}, NEW updated \in Files,
           NEW secret \in Secrets \cup {Absent}, NEW old \in Secrets \cup {Absent}
    PROVE  /\ Command(at, account, updated, secret, old) \in Commands
           /\ Command(at, account, updated, secret, old) # Idle
BY DEF Command, Commands, Idle

LEMMA NotIdle == ASSUME NEW c \in Commands PROVE c # Idle /\ c.at # "idle"
BY DEF Commands, Idle

-----------------------------------------------------------------------------
(* What a command that was asked for looks like: one on a pool or an alias *)
(* leaves the credentials alone, one on an account knows the old one.      *)
Starts(c) ==
    /\ c \in Commands
    /\ \/ /\ c.at = "save" /\ c.account = NoAccount
          /\ \A b \in Accounts : c.updated.accounts[b] # Absent <=> b \in Configured
       \/ /\ c.account \in Accounts
          /\ c.old = keychain[c.account]
          /\ c.updated.accounts[c.account] # Absent <=> c.secret # Absent
          /\ \A b \in Accounts \ {c.account} : c.updated.accounts[b] = file.accounts[b]
          /\ \/ c.at = "set"
             \/ c.at \in {"save", "delete"} /\ c.secret = Absent
          /\ c.at = "save" => keychain[c.account] = Absent

LEMMA AskedStarts ==
    ASSUME AccountTypeOK, Asked
    PROVE  /\ command = Idle /\ Starts(command')
           /\ UNCHANGED <<file, keychain, accepted, troubled>>
<1> USE AccountAssumption DEF Ask
<1>f. file \in Files /\ keychain \in [Accounts -> Secrets \cup {Absent}]
      BY DEF AccountTypeOK
<1>1. ASSUME NEW a \in Accounts, NEW alias \in Aliases, NEW secret \in Secrets,
             CreateAccount(a, alias, secret) \/ EditAccount(a, alias, secret)
      PROVE  /\ command = Idle /\ Starts(command')
             /\ UNCHANGED <<file, keychain, accepted, troubled>>
      <2>1. command' = Command("set", a, WithAccount(a, alias), secret, keychain[a])
            BY <1>1 DEF CreateAccount, EditAccount
      <2>2. command' \in Commands
            BY <2>1, <1>f, FileUpdates, CommandTyped
      <2> QED BY <1>1, <1>f, <2>1, <2>2, FileUpdates
              DEF CreateAccount, EditAccount, Starts, Command
<1>2. ASSUME NEW a \in Accounts, NEW alias \in Aliases, RenameAccount(a, alias)
      PROVE  /\ command = Idle /\ Starts(command')
             /\ UNCHANGED <<file, keychain, accepted, troubled>>
      <2>1. command' = Command("save", NoAccount, WithAccount(a, alias), Absent, Absent)
            BY <1>2 DEF RenameAccount
      <2>2. command' \in Commands
            BY <2>1, <1>f, FileUpdates, CommandTyped
      <2> QED BY <1>2, <1>f, <2>1, <2>2, FileUpdates
              DEF RenameAccount, Starts, Command, Configured
<1>3. ASSUME NEW a \in Accounts, RemoveAccount(a)
      PROVE  /\ command = Idle /\ Starts(command')
             /\ UNCHANGED <<file, keychain, accepted, troubled>>
      <2>1. command' = Command(IF keychain[a] = Absent THEN "save" ELSE "delete",
                               a, WithAccount(a, Absent), Absent, keychain[a])
            BY <1>3 DEF RemoveAccount
      <2>2. command' \in Commands
            BY <2>1, <1>f, FileUpdates, CommandTyped
      <2> QED BY <1>3, <1>f, <2>1, <2>2, FileUpdates
              DEF RemoveAccount, Starts, Command
<1>4. ASSUME NEW p \in Pools, NEW row \in PoolRows \cup {Absent}, SavePool(p, row)
      PROVE  /\ command = Idle /\ Starts(command')
             /\ UNCHANGED <<file, keychain, accepted, troubled>>
      <2>1. command' = Command("save", NoAccount, WithPool(p, row), Absent, Absent)
            BY <1>4 DEF SavePool
      <2>2. command' \in Commands
            BY <2>1, <1>f, FileUpdates, CommandTyped
      <2> QED BY <1>4, <1>f, <2>1, <2>2, FileUpdates
              DEF SavePool, Starts, Command, Configured
<1>5. ASSUME NEW p \in Pools, NEW members \in SUBSET Accounts, CreatePool(p, members)
      PROVE  \E row \in PoolRows \cup {Absent} : SavePool(p, row)
      <2>1. [revision |-> 1, members |-> members] \in PoolRows
            BY DEF PoolRows
      <2> QED BY <1>5, <2>1 DEF CreatePool
<1>6. ASSUME NEW p \in Pools, NEW members \in SUBSET Accounts,
             NEW expected \in 1 .. MaxRevision, EditPool(p, members, expected)
      PROVE  \E row \in PoolRows \cup {Absent} : SavePool(p, row)
      <2>1. expected + 1 \in 1 .. MaxRevision
            BY <1>6 DEF EditPool
      <2>2. [revision |-> expected + 1, members |-> members] \in PoolRows
            BY <2>1 DEF PoolRows
      <2> QED BY <1>6, <2>2 DEF EditPool
<1>7. ASSUME NEW p \in Pools, NEW expected \in 1 .. MaxRevision, RemovePool(p, expected)
      PROVE  \E row \in PoolRows \cup {Absent} : SavePool(p, row)
      BY <1>7 DEF RemovePool
<1> QED BY <1>1, <1>2, <1>3, <1>4, <1>5, <1>6, <1>7 DEF Asked

-----------------------------------------------------------------------------
(* One step of the command that holds the lock.                            *)
Steps ==
    \/ SetCredential \/ DeleteCredential
    \/ Save \/ SaveFails \/ SaveFailsLate
    \/ RestoreCredential
    \/ Die

LEMMA NextCases == AccountNext <=> Asked \/ Steps
BY DEF AccountNext, Asked, Steps

(* What the steps do to the command itself.                                *)
LEMMA GoesOnTyped ==
    ASSUME NEW c \in Commands, NEW at \in {"set", "delete", "save", "restore"}
    PROVE  /\ [c EXCEPT !.at = at] \in Commands
           /\ [c EXCEPT !.at = at].at = at
           /\ [c EXCEPT !.at = at].account = c.account
           /\ [c EXCEPT !.at = at].updated = c.updated
           /\ [c EXCEPT !.at = at].secret = c.secret
           /\ [c EXCEPT !.at = at].old = c.old
BY DEF Commands

LEMMA Running ==
    ASSUME AccountTypeOK, Steps
    PROVE  command # Idle /\ command \in Commands
BY DEF AccountTypeOK, Steps, SetCredential, DeleteCredential, Save, SaveFails,
       SaveFailsLate, RestoreCredential, Die, Idle

(* The command is done, goes on to the file, or to the compensation.       *)
LEMMA Moves ==
    ASSUME Steps
    PROVE  \/ command' = Idle
           \/ Continue("save")
           \/ Restores /\ command' = [command EXCEPT !.at = "restore"]
BY DEF Steps, SetCredential, DeleteCredential, Save, SaveFails, SaveFailsLate,
       RestoreCredential, Die, Refused, AfterFailedSave

(* The keychain after the credential of the command's account was kept.    *)
LEMMA Kept ==
    ASSUME AccountTypeOK, command \in Commands,
           NEW secret \in Secrets \cup {Absent}
    PROVE  /\ [keychain EXCEPT ![command.account] = secret] \in [Accounts -> Secrets \cup {Absent}]
           /\ \A a \in Accounts : [keychain EXCEPT ![command.account] = secret][a] =
                    IF a = command.account THEN secret ELSE keychain[a]
BY DEF AccountTypeOK

(* A credential is touched only by a command on an account.                *)
AccountAtStake ==
    command # Idle => (command.account = NoAccount => command.at = "save")

LEMMA TypeStep ==
    ASSUME AccountTypeOK, AccountAtStake, [AccountNext]_accountVars
    PROVE  AccountTypeOK' /\ AccountAtStake'
<1> USE AccountAssumption
<1>1. CASE UNCHANGED accountVars
      BY <1>1 DEF accountVars, AccountTypeOK, AccountAtStake
<1>2. CASE Asked
      <2>1. Starts(command') /\ UNCHANGED <<file, keychain, accepted, troubled>>
            BY <1>2, AskedStarts
      <2> QED BY <2>1 DEF Starts, AccountTypeOK, AccountAtStake, NoAccount
<1>3. CASE Steps
      <2>1. command # Idle /\ command \in Commands
            BY <1>3, Running
      <2>c. /\ command.at \in {"set", "delete", "save", "restore"}
            /\ command.account \in Accounts \cup {NoAccount}
            /\ command.updated \in Files
            /\ command.secret \in Secrets \cup {Absent}
            /\ command.old \in Secrets \cup {Absent}
            /\ command.at # "save" => command.account \in Accounts
            BY <2>1 DEF Commands, AccountAtStake
      <2>2. file' \in Files
            BY <1>3, <2>c DEF Steps, AccountTypeOK, SetCredential, DeleteCredential, Save,
               SaveFails, SaveFailsLate, RestoreCredential, Die
      <2>3. keychain' \in [Accounts -> Secrets \cup {Absent}]
            BY <1>3, <2>1, <2>c, Kept DEF Steps, AccountTypeOK, SetCredential, DeleteCredential,
               Save, SaveFails, SaveFailsLate, RestoreCredential, Die, Refused, Keep
      <2>4. command' \in Commands \cup {Idle} /\ AccountAtStake'
            <3>1. CASE command' = Idle
                  BY <3>1 DEF AccountAtStake
            <3>2. CASE Continue("save")
                  BY <3>2, <2>1, GoesOnTyped DEF Continue, AccountAtStake
            <3>3. CASE Restores /\ command' = [command EXCEPT !.at = "restore"]
                  BY <3>3, <2>1, GoesOnTyped DEF Restores, TouchesKeychain, AccountAtStake
            <3> QED BY <1>3, <3>1, <3>2, <3>3, Moves
      <2>5. accepted' \in [Accounts -> Secrets \cup {Absent}]
            BY <1>3, <2>c DEF Steps, AccountTypeOK, SetCredential, DeleteCredential, Save,
               SaveFails, SaveFailsLate, RestoreCredential, Die
      <2>6. troubled' \subseteq Accounts
            BY <1>3, <2>c DEF Steps, AccountTypeOK, SetCredential, DeleteCredential, Save,
               SaveFails, SaveFailsLate, RestoreCredential, Die, Refused, TouchesKeychain
      <2> QED BY <2>2, <2>3, <2>4, <2>5, <2>6 DEF AccountTypeOK
<1> QED BY <1>1, <1>2, <1>3, NextCases

LEMMA TypeInit == AccountInit => AccountTypeOK /\ AccountAtStake
BY AccountAssumption DEF AccountInit, AccountTypeOK, AccountAtStake, Files

(* The file, the keychain and the command keep their shape.                *)
THEOREM AccountsTyped == AccountSpec => []AccountTypeOK
<1>1. AccountTypeOK /\ AccountAtStake /\ [AccountNext]_accountVars
        => AccountTypeOK' /\ AccountAtStake'
      BY TypeStep
<1> QED BY <1>1, TypeInit, PTL DEF AccountSpec

-----------------------------------------------------------------------------
(* Pools: the file in place is sound, and so is the one a command is about *)
(* to put there, which was made from the file under the same lock.         *)
PoolsSound(f) ==
    \A p \in Pools : f.pools[p] # Absent =>
        \A a \in f.pools[p].members : a \in Accounts /\ f.accounts[a] # Absent

PoolInv ==
    /\ PoolsSound(file)
    /\ command # Idle => PoolsSound(command.updated)

LEMMA AskedPools ==
    ASSUME AccountTypeOK, PoolsSound(file), Asked
    PROVE  PoolsSound(command'.updated)
<1> USE AccountAssumption
<1>f. file \in Files
      BY DEF AccountTypeOK
<1>1. ASSUME NEW a \in Accounts, NEW alias \in Aliases \cup {Absent},
             command'.updated = WithAccount(a, alias),
             alias = Absent => ~Referenced(a)
      PROVE  PoolsSound(command'.updated)
      BY <1>1, <1>f, FileUpdates DEF PoolsSound, Referenced
<1>2. ASSUME NEW p \in Pools, NEW row \in PoolRows \cup {Absent},
             SavePool(p, row), row # Absent => row.members \subseteq Configured
      PROVE  PoolsSound(command'.updated)
      <2>1. command'.updated = WithPool(p, row)
            BY <1>2 DEF SavePool, Ask, Command
      <2> QED BY <2>1, <1>2, <1>f, FileUpdates DEF PoolsSound, Configured
<1>3. ASSUME NEW p \in Pools, NEW members \in SUBSET Accounts, CreatePool(p, members)
      PROVE  PoolsSound(command'.updated)
      <2>1. [revision |-> 1, members |-> members] \in PoolRows
            BY DEF PoolRows
      <2> QED BY <1>2, <1>3, <2>1 DEF CreatePool
<1>4. ASSUME NEW p \in Pools, NEW members \in SUBSET Accounts,
             NEW expected \in 1 .. MaxRevision, EditPool(p, members, expected)
      PROVE  PoolsSound(command'.updated)
      <2>1. expected + 1 \in 1 .. MaxRevision
            BY <1>4 DEF EditPool
      <2>2. [revision |-> expected + 1, members |-> members] \in PoolRows
            BY <2>1 DEF PoolRows
      <2> QED BY <1>2, <1>4, <2>2 DEF EditPool
<1>5. ASSUME NEW p \in Pools, NEW expected \in 1 .. MaxRevision, RemovePool(p, expected)
      PROVE  PoolsSound(command'.updated)
      BY <1>2, <1>5 DEF RemovePool
<1>6. ASSUME NEW a \in Accounts, NEW alias \in Aliases,
             \/ \E secret \in Secrets : CreateAccount(a, alias, secret) \/ EditAccount(a, alias, secret)
             \/ RenameAccount(a, alias)
      PROVE  PoolsSound(command'.updated)
      <2>1. command'.updated = WithAccount(a, alias)
            BY <1>6 DEF CreateAccount, EditAccount, RenameAccount, Ask, Command
      <2> QED BY <1>1, <2>1
<1>7. ASSUME NEW a \in Accounts, RemoveAccount(a)
      PROVE  PoolsSound(command'.updated)
      <2>1. command'.updated = WithAccount(a, Absent) /\ ~Referenced(a)
            BY <1>7 DEF RemoveAccount, Ask, Command
      <2> QED BY <1>1, <2>1
<1> QED BY <1>3, <1>4, <1>5, <1>6, <1>7 DEF Asked

LEMMA PoolStep ==
    ASSUME AccountTypeOK, PoolInv, [AccountNext]_accountVars
    PROVE  PoolInv'
<1>1. CASE UNCHANGED accountVars
      BY <1>1 DEF accountVars, PoolInv, PoolsSound
<1>2. CASE Asked
      BY <1>2, AskedStarts, AskedPools DEF PoolInv, PoolsSound
<1>3. CASE Steps
      <2>1. command # Idle /\ command \in Commands
            BY <1>3, Running
      <2>2. file' = file \/ file' = command.updated
            BY <1>3 DEF Steps, SetCredential, DeleteCredential, Save, SaveFails,
               SaveFailsLate, RestoreCredential, Die
      <2>3. command' = Idle \/ command'.updated = command.updated
            <3>1. CASE Continue("save")
                  BY <3>1, <2>1, GoesOnTyped DEF Continue
            <3>2. CASE command' = [command EXCEPT !.at = "restore"]
                  BY <3>2, <2>1, GoesOnTyped
            <3> QED BY <1>3, <3>1, <3>2, Moves
      <2> QED BY <2>1, <2>2, <2>3 DEF PoolInv, PoolsSound
<1> QED BY <1>1, <1>2, <1>3, NextCases

(* No pool ever names an account that is not configured.                   *)
THEOREM PoolsKeptWhole == AccountSpec => []PoolsReferenceAccounts
<1>1. AccountInit => PoolInv
      BY DEF AccountInit, PoolInv, PoolsSound
<1>2. AccountTypeOK /\ PoolInv /\ [AccountNext]_accountVars => PoolInv'
      BY PoolStep
<1>3. AccountTypeOK /\ PoolInv => PoolsReferenceAccounts
      BY DEF AccountTypeOK, Files, PoolRows, PoolInv, PoolsSound, PoolsReferenceAccounts, Configured
<1> QED BY <1>1, <1>2, <1>3, AccountsTyped, PTL DEF AccountSpec

-----------------------------------------------------------------------------
(* Credentials: between the two places a command changes they differ, but  *)
(* the command knows both, and the account is as its last success left it. *)
Agrees(a, f) ==
    /\ keychain[a] = accepted[a]
    /\ f.accounts[a] # Absent <=> accepted[a] # Absent

OthersAgree ==
    \A b \in Accounts \ troubled : b # command.account =>
        Agrees(b, file) /\ Agrees(b, command.updated)

AccountKnown ==
    LET a == command.account IN
    /\ command.updated.accounts[a] # Absent <=> command.secret # Absent
    /\ a \notin troubled =>
        /\ accepted[a] = command.old
        /\ file.accounts[a] # Absent <=> command.old # Absent
    /\ command.at \in {"set", "delete"} => keychain[a] = command.old
    /\ command.at = "delete" => command.secret = Absent
    /\ command.at = "save" => keychain[a] = command.secret

CredentialInv ==
    /\ command = Idle => \A a \in Accounts \ troubled : Agrees(a, file)
    /\ command # Idle =>
        /\ OthersAgree
        /\ command.account \in Accounts => AccountKnown

LEMMA AskedCredentials ==
    ASSUME AccountTypeOK, CredentialInv, Asked
    PROVE  CredentialInv'
<1> USE AccountAssumption
<1>1. /\ command = Idle /\ Starts(command')
      /\ UNCHANGED <<file, keychain, accepted, troubled>>
      BY AskedStarts
<1>2. command' # Idle
      BY <1>1, NotIdle DEF Starts
<1>3. \A a \in Accounts \ troubled : Agrees(a, file)
      BY <1>1 DEF CredentialInv
<1>4. OthersAgree'
      BY <1>1, <1>3 DEF Starts, OthersAgree, Agrees, Configured, NoAccount
<1>5. command'.account \in Accounts => AccountKnown'
      BY <1>1, <1>3 DEF Starts, AccountKnown, Agrees, NoAccount
<1> QED BY <1>2, <1>4, <1>5 DEF CredentialInv

(* When a command ends, everything agrees that a fault has not hit.        *)
LEMMA CommandEnds ==
    ASSUME AccountTypeOK, CredentialInv, command \in Commands, command # Idle,
           command' = Idle, UNCHANGED accepted,
           file' \in {file, command.updated},
           troubled \subseteq troubled',
           \A b \in Accounts : b # command.account => keychain'[b] = keychain[b],
           command.account \in Accounts =>
              \/ command.account \in troubled'
              \/ keychain'[command.account] = command.old /\ UNCHANGED file
    PROVE  CredentialInv'
<1>1. ASSUME NEW b \in Accounts \ troubled', b # command.account
      PROVE  Agrees(b, file)'
      BY <1>1 DEF CredentialInv, OthersAgree, Agrees
<1>2. ASSUME NEW b \in Accounts \ troubled', b = command.account
      PROVE  Agrees(b, file)'
      BY <1>2 DEF CredentialInv, AccountKnown, Agrees
<1> QED BY <1>1, <1>2 DEF CredentialInv, Agrees

LEMMA StepCredentials ==
    ASSUME AccountTypeOK, AccountAtStake, CredentialInv, Steps
    PROVE  CredentialInv'
<1> USE AccountAssumption
<1>0. command # Idle /\ command \in Commands
      BY Running
<1>c. /\ command.account \in Accounts \cup {NoAccount}
      /\ command.at # "save" => command.account \in Accounts
      /\ command.secret \in Secrets \cup {Absent} /\ command.old \in Secrets \cup {Absent}
      BY <1>0 DEF Commands, AccountAtStake
<1>k. ASSUME NEW secret \in Secrets \cup {Absent}, Keep(secret)
      PROVE  \A b \in Accounts : keychain'[b] = IF b = command.account THEN secret ELSE keychain[b]
      BY <1>0, <1>k, Kept DEF Keep
<1>1. ASSUME NEW secret \in Secrets \cup {Absent}, Keep(secret), Continue("save"),
             \/ command.at = "set" /\ secret = command.secret
             \/ command.at = "delete" /\ secret = Absent,
             UNCHANGED <<file, accepted, troubled>>
      PROVE  CredentialInv'
      <2>1. /\ command' # Idle /\ command'.at = "save" /\ command'.account = command.account
            /\ command'.updated = command.updated /\ command'.secret = command.secret
            /\ command'.old = command.old
            BY <1>1, <1>0, GoesOnTyped, NotIdle DEF Continue
      <2>2. OthersAgree'
            BY <1>0, <1>1, <1>k, <2>1 DEF CredentialInv, OthersAgree, Agrees
      <2>3. AccountKnown'
            BY <1>0, <1>c, <1>1, <1>k, <2>1 DEF CredentialInv, AccountKnown
      <2> QED BY <2>1, <2>2, <2>3 DEF CredentialInv
<1>2. ASSUME NEW secret \in Secrets \cup {Absent}, Refused(secret),
             command.at \in {"set", "delete"}, UNCHANGED <<file, accepted>>
      PROVE  CredentialInv'
      <2>1. keychain[command.account] = command.old
            BY <1>0, <1>c, <1>2 DEF CredentialInv, AccountKnown
      <2> QED BY <1>0, <1>c, <1>2, <1>k, <2>1, CommandEnds DEF Refused
<1>3. CASE SetCredential
      <2>1. CASE Keep(command.secret) /\ Continue("save") /\ UNCHANGED troubled
            <3>1. /\ command.at = "set" /\ command.secret \in Secrets \cup {Absent}
                  /\ UNCHANGED <<file, accepted, troubled>>
                  BY <1>c, <1>3, <2>1 DEF SetCredential
            <3>2. PICK secret \in Secrets \cup {Absent} : secret = command.secret
                  BY <3>1
            <3>3. Keep(secret)
                  BY <2>1, <3>2 DEF Keep
            <3>4. \/ command.at = "set" /\ secret = command.secret
                  \/ command.at = "delete" /\ secret = Absent
                  BY <3>1, <3>2
            <3>5. Continue("save") /\ UNCHANGED <<file, accepted, troubled>>
                  BY <2>1, <3>1
            <3> QED BY <1>1, <3>3, <3>4, <3>5, Zenon
      <2>2. CASE Refused(command.secret)
            BY <1>c, <1>2, <1>3, <2>2 DEF SetCredential
      <2> QED BY <1>3, <2>1, <2>2 DEF SetCredential
<1>4. CASE DeleteCredential
      BY <1>1, <1>2, <1>4 DEF DeleteCredential
<1>5. CASE Save
      <2>1. troubled \subseteq Accounts /\ accepted \in [Accounts -> Secrets \cup {Absent}]
            BY DEF AccountTypeOK
      <2>2. ASSUME NEW b \in Accounts \ troubled', b # command.account
            PROVE  Agrees(b, file)'
            BY <1>0, <1>5, <2>1, <2>2 DEF Save, CredentialInv, OthersAgree, Agrees
      <2>3. ASSUME NEW b \in Accounts, b = command.account
            PROVE  Agrees(b, file)'
            BY <1>0, <1>5, <2>1, <2>3 DEF Save, CredentialInv, AccountKnown, Agrees,
               TouchesKeychain, NoAccount
      <2> QED BY <1>5, <2>2, <2>3 DEF Save, CredentialInv, Agrees
<1>6. ASSUME command.at = "save", AfterFailedSave, UNCHANGED <<keychain, accepted>>,
             \/ UNCHANGED <<file, troubled>>
             \/ /\ file' = command.updated
                /\ troubled' = troubled \cup (IF TouchesKeychain THEN {command.account} ELSE {})
      PROVE  CredentialInv'
      <2>1. CASE Restores
            <3>1. /\ command' # Idle /\ command'.at = "restore" /\ command'.account = command.account
                  /\ command'.updated = command.updated /\ command'.secret = command.secret
                  /\ command'.old = command.old
                  BY <1>6, <1>0, <2>1, GoesOnTyped, NotIdle DEF AfterFailedSave
            <3>2. OthersAgree'
                  BY <1>0, <1>6, <3>1 DEF CredentialInv, OthersAgree, Agrees
            <3>3. AccountKnown'
                  BY <1>0, <1>c, <1>6, <2>1, <3>1
                     DEF CredentialInv, AccountKnown, Restores, TouchesKeychain
            <3> QED BY <3>1, <3>2, <3>3 DEF CredentialInv
      <2>2. CASE ~Restores
            <3>1. command.account \in Accounts =>
                    keychain[command.account] = command.old /\ command.secret = Absent
                  BY <1>0, <1>6, <2>2
                     DEF CredentialInv, AccountKnown, Restores, TouchesKeychain, NoAccount
            <3> QED BY <1>0, <1>c, <1>6, <2>2, <3>1, CommandEnds DEF AfterFailedSave, TouchesKeychain, NoAccount
      <2> QED BY <2>1, <2>2
<1>7. CASE SaveFails
      BY <1>6, <1>7 DEF SaveFails
<1>8. CASE SaveFailsLate
      BY <1>6, <1>8 DEF SaveFailsLate
<1>9. CASE RestoreCredential
      <2>1. CASE Keep(command.old) /\ UNCHANGED troubled
            BY <1>0, <1>c, <1>9, <1>k, <2>1, CommandEnds DEF RestoreCredential
      <2>2. CASE /\ keychain' \in {keychain, [keychain EXCEPT ![command.account] = command.old]}
                 /\ troubled' = troubled \cup {command.account}
            BY <1>0, <1>c, <1>9, <2>2, Kept, CommandEnds DEF RestoreCredential
      <2> QED BY <1>9, <2>1, <2>2 DEF RestoreCredential
<1>10. CASE Die
      BY <1>0, <1>c, <1>10, CommandEnds DEF Die, TouchesKeychain, NoAccount
<1> QED BY <1>3, <1>4, <1>5, <1>7, <1>8, <1>9, <1>10 DEF Steps

(* File and keychain agree between commands, but for accounts that a fault *)
(* between the two hit.                                                    *)
THEOREM CredentialsKept == AccountSpec => []CredentialsAgree
<1>1. AccountInit => CredentialInv
      BY DEF AccountInit, CredentialInv, Agrees
<1>2. AccountTypeOK /\ AccountAtStake /\ CredentialInv /\ [AccountNext]_accountVars
        => CredentialInv'
      <2>1. CASE UNCHANGED accountVars
            BY <2>1 DEF accountVars, CredentialInv, OthersAgree, AccountKnown, Agrees
      <2> QED BY <2>1, AskedCredentials, StepCredentials, NextCases
<1>3. AccountTypeOK /\ AccountAtStake /\ [AccountNext]_accountVars
        => AccountTypeOK' /\ AccountAtStake'
      BY TypeStep
<1>4. CredentialInv => CredentialsAgree
      BY DEF CredentialInv, CredentialsAgree, Agrees, Configured
<1> QED BY <1>1, <1>2, <1>3, <1>4, TypeInit, PTL DEF AccountSpec

-----------------------------------------------------------------------------
(* A circuit that has admitted a probe stays open until a success closes   *)
(* it, never since a time before that probe once the probe has been        *)
(* reported or forgotten, and time has not gone back since.                *)
ProbeInv ==
    /\ BreakerTypeOK
    /\ probedAt # Unset =>
          /\ breaker.openedAt # Unset
          /\ breaker.lastNow # Unset
          /\ probedAt <= breaker.lastNow
          /\ ~breaker.probing => probedAt <= breaker.openedAt

(* A time that is set is a number.                                         *)
LEMMA TimesAreNumbers == \A t \in BreakerTimes : t # Unset => t \in Nat
BY BreakerAssumption DEF BreakerTimes

(* What the clock does to the circuit before a method looks at it.         *)
LEMMA DistrustKeeps ==
    ASSUME ProbeInv, NEW time \in BreakerTimes, Distrust(time)
    PROVE  ProbeInv' /\ probedAt' = probedAt
<1> DEFINE Breakers == [failures : 0..Threshold, openedAt : BreakerTimes,
                        probing : BOOLEAN, lastNow : BreakerTimes]
<1>1. breaker \in Breakers /\ probedAt \in BreakerTimes
  BY DEF ProbeInv, BreakerTypeOK
<1>2. Threshold \in 0..Threshold /\ Unset \in BreakerTimes
  BY BreakerAssumption DEF BreakerTimes
<1>3. CASE breaker.lastNow # Unset
  <2>1. breaker' = [breaker EXCEPT !.failures = Threshold, !.openedAt = breaker.lastNow,
                                   !.probing = FALSE]
    BY <1>3 DEF Distrust, Distrusted, Opened
  <2>2. breaker' \in Breakers /\ breaker'.openedAt = breaker.lastNow
        /\ breaker'.lastNow = breaker.lastNow
    BY <1>1, <1>2, <2>1
  <2> QED
    BY <1>1, <1>3, <2>2 DEF ProbeInv, BreakerTypeOK, Distrust
<1>4. CASE breaker.lastNow = Unset
  <2>1. breaker' = [breaker EXCEPT !.failures = Threshold, !.openedAt = Unset, !.probing = TRUE]
    BY <1>4 DEF Distrust, Distrusted
  <2>2. breaker' \in Breakers
    BY <1>1, <1>2, <2>1
  <2> QED
    BY <1>1, <1>4, <2>2 DEF ProbeInv, BreakerTypeOK, Distrust
<1> QED
  BY <1>3, <1>4

(* A usable look at the clock moves no probe before the circuit's opening. *)
LEMMA SeenKeeps ==
    ASSUME ProbeInv, NEW time \in BreakerTimes, Usable(breaker, time)
    PROVE  LET seen == Seen(breaker, time)
           IN  /\ seen \in [failures : 0..Threshold, openedAt : BreakerTimes,
                            probing : BOOLEAN, lastNow : BreakerTimes]
               /\ time \in Nat /\ seen.lastNow = time
               /\ probedAt # Unset =>
                     /\ seen.openedAt # Unset
                     /\ probedAt <= time
                     /\ ~seen.probing => probedAt <= seen.openedAt
<1>1. /\ breaker \in [failures : 0..Threshold, openedAt : BreakerTimes,
                      probing : BOOLEAN, lastNow : BreakerTimes]
      /\ probedAt \in BreakerTimes
  BY DEF ProbeInv, BreakerTypeOK
<1>2. time \in Nat /\ (probedAt # Unset => probedAt \in Nat /\ breaker.lastNow \in Nat)
  BY <1>1, TimesAreNumbers DEF Usable, ProbeInv
<1>3. probedAt # Unset => probedAt <= time
  BY <1>1, <1>2 DEF Usable, ProbeInv
<1>4. probedAt # Unset => Seen(breaker, time) = [breaker EXCEPT !.lastNow = time]
  BY DEF Seen, ProbeInv
<1>5. /\ Seen(breaker, time) \in [failures : 0..Threshold, openedAt : BreakerTimes,
                                 probing : BOOLEAN, lastNow : BreakerTimes]
      /\ Seen(breaker, time).lastNow = time
  BY <1>1 DEF Seen
<1> QED
  BY <1>1, <1>2, <1>3, <1>4, <1>5 DEF ProbeInv

(* A circuit that opens does so after its last probe.                      *)
LEMMA OpenedKeeps ==
    ASSUME ProbeInv, NEW time \in BreakerTimes, Usable(breaker, time),
           breaker' = Opened(Seen(breaker, time), time), UNCHANGED probedAt
    PROVE  ProbeInv'
<1>1. /\ Seen(breaker, time) \in [failures : 0..Threshold, openedAt : BreakerTimes,
                                 probing : BOOLEAN, lastNow : BreakerTimes]
      /\ time \in Nat /\ Seen(breaker, time).lastNow = time
      /\ probedAt # Unset => probedAt <= time
  BY SeenKeeps
<1> DEFINE seen == Seen(breaker, time)
<1> HIDE DEF seen
<1>2. breaker' = [seen EXCEPT !.failures = Threshold, !.openedAt = time, !.probing = FALSE]
  BY DEF Opened, seen
<1>3. Threshold \in 0..Threshold
  BY BreakerAssumption
<1>4. /\ breaker' \in [failures : 0..Threshold, openedAt : BreakerTimes,
                       probing : BOOLEAN, lastNow : BreakerTimes]
      /\ breaker'.openedAt = time /\ breaker'.lastNow = time
  BY <1>1, <1>2, <1>3 DEF seen
<1>5. time # Unset /\ probedAt' = probedAt /\ probedAt \in BreakerTimes
  BY DEF Usable, ProbeInv, BreakerTypeOK
<1> QED
  BY <1>1, <1>4, <1>5 DEF ProbeInv, BreakerTypeOK

(* No method breaks the invariant, and a second probe waits its interval.  *)
LEMMA BreakerStep ==
    ASSUME ProbeInv, [BreakerNext]_breakerVars
    PROVE  /\ ProbeInv'
           /\ probedAt # Unset /\ probedAt' \notin {Unset, probedAt}
                 => probedAt' >= probedAt + Reset
<1>1. CASE UNCHANGED breakerVars
  BY <1>1 DEF breakerVars, ProbeInv, BreakerTypeOK
<1>2. CASE BreakerNext
  <2>1. PICK time \in BreakerTimes :
           Look(time) \/ AllowRequest(time) \/ RecordFailure(time) \/ RecordSuccess(time)
    BY <1>2 DEF BreakerNext
  <2>2. CASE Distrust(time)
    BY <2>2, DistrustKeeps
  <2> DEFINE seen == Seen(breaker, time)
  <2>3. ASSUME Usable(breaker, time)
        PROVE  /\ seen \in [failures : 0..Threshold, openedAt : BreakerTimes,
                            probing : BOOLEAN, lastNow : BreakerTimes]
               /\ time \in Nat /\ seen.lastNow = time /\ time # Unset
               /\ probedAt # Unset =>
                     /\ seen.openedAt # Unset
                     /\ probedAt <= time
                     /\ ~seen.probing => probedAt <= seen.openedAt
    BY <2>3, SeenKeeps DEF Usable
  <2>4. probedAt \in BreakerTimes /\ (probedAt # Unset => probedAt \in Nat)
    BY TimesAreNumbers DEF ProbeInv, BreakerTypeOK
  <2> HIDE DEF seen
  <2>5. ASSUME Usable(breaker, time), breaker' = seen, probedAt' = probedAt
        PROVE  ProbeInv'
    BY <2>3, <2>4, <2>5 DEF ProbeInv, BreakerTypeOK
  <2>6. CASE Usable(breaker, time) /\ Look(time)
    BY <2>2, <2>5, <2>6 DEF Look, seen
  <2>7. CASE Usable(breaker, time) /\ AllowRequest(time)
    <3> DEFINE probes == StateAt(seen, time) = "half_open" /\ ~seen.probing
    <3>1. /\ breaker' = [seen EXCEPT !.probing = seen.probing \/ probes]
          /\ probedAt' = IF probes THEN time ELSE probedAt
      BY <2>7 DEF AllowRequest, Distrust, seen
    <3>2. CASE probes
      <4>1. seen.openedAt # Unset /\ time - seen.openedAt >= Reset
        BY <3>2 DEF StateAt
      <4>2. seen.openedAt \in Nat /\ Reset \in Nat
        BY <2>3, <2>7, <4>1, TimesAreNumbers, BreakerAssumption
      <4>3. /\ breaker' \in [failures : 0..Threshold, openedAt : BreakerTimes,
                             probing : BOOLEAN, lastNow : BreakerTimes]
            /\ breaker'.openedAt = seen.openedAt /\ breaker'.lastNow = time /\ breaker'.probing
        BY <2>3, <2>7, <3>1, <3>2
      <4>4. probedAt' = time
        BY <3>1, <3>2
      <4>5. ProbeInv'
        BY <2>3, <2>7, <4>1, <4>3, <4>4 DEF ProbeInv, BreakerTypeOK
      <4>6. probedAt # Unset => probedAt' >= probedAt + Reset
        BY <2>3, <2>4, <2>7, <3>2, <4>1, <4>2, <4>4
      <4> QED
        BY <4>5, <4>6
    <3>3. CASE ~probes
      <4>1. breaker' = seen /\ probedAt' = probedAt
        BY <2>3, <2>7, <3>1, <3>3
      <4> QED
        BY <2>5, <2>7, <4>1
    <3> QED
      BY <3>2, <3>3
  <2>8. CASE Usable(breaker, time) /\ RecordFailure(time)
    <3>1. probedAt' = probedAt
      BY <2>8 DEF RecordFailure, Distrust
    <3>2. CASE breaker' = Opened(Seen(breaker, time), time)
      BY <2>8, <3>1, <3>2, OpenedKeeps
    <3>3. CASE /\ StateAt(seen, time) = "closed" /\ seen.failures + 1 < Threshold
               /\ breaker' = [seen EXCEPT !.failures = seen.failures + 1]
      <4>1. seen.openedAt = Unset
        BY <3>3 DEF StateAt
      <4>2. probedAt = Unset
        BY <2>3, <2>8, <4>1
      <4>3. seen.failures + 1 \in 0..Threshold
        BY <2>3, <2>8, <3>3, BreakerAssumption
      <4>4. breaker' \in [failures : 0..Threshold, openedAt : BreakerTimes,
                          probing : BOOLEAN, lastNow : BreakerTimes]
        BY <2>3, <2>8, <3>3, <4>3
      <4> QED
        BY <2>4, <3>1, <4>2, <4>4 DEF ProbeInv, BreakerTypeOK
    <3> QED
      BY <2>8, <3>1, <3>2, <3>3 DEF RecordFailure, Distrust, seen
  <2>9. CASE Usable(breaker, time) /\ RecordSuccess(time)
    <3>1. CASE breaker' = seen /\ probedAt' = probedAt
      BY <2>5, <2>9, <3>1
    <3>2. CASE /\ breaker' = [seen EXCEPT !.failures = 0, !.openedAt = Unset, !.probing = FALSE]
               /\ probedAt' = Unset
      <4>1. 0 \in 0..Threshold /\ Unset \in BreakerTimes
        BY BreakerAssumption DEF BreakerTimes
      <4>2. breaker' \in [failures : 0..Threshold, openedAt : BreakerTimes,
                          probing : BOOLEAN, lastNow : BreakerTimes]
        BY <2>3, <2>9, <3>2, <4>1
      <4> QED
        BY <3>2, <4>1, <4>2 DEF ProbeInv, BreakerTypeOK
    <3> QED
      BY <2>9, <3>1, <3>2 DEF RecordSuccess, Distrust, seen
  <2> QED
    BY <2>1, <2>2, <2>6, <2>7, <2>8, <2>9 DEF Look, AllowRequest, RecordFailure, RecordSuccess
<1> QED
  BY <1>1, <1>2

(* While no success closes a circuit, its probes are a whole interval      *)
(* apart, for any threshold, interval and times.                           *)
THEOREM ProbesKeepDistance == BreakerSpec => ProbesAreSpaced
<1>1. BreakerInit => ProbeInv
  BY BreakerAssumption DEF BreakerInit, ProbeInv, BreakerTypeOK, BreakerTimes
<1>2. ProbeInv /\ [BreakerNext]_breakerVars => ProbeInv'
  BY BreakerStep
<1>3. ProbeInv /\ [BreakerNext]_breakerVars =>
         [probedAt # Unset /\ probedAt' \notin {Unset, probedAt} => probedAt' >= probedAt + Reset]_breakerVars
  BY BreakerStep
<1> QED
  BY <1>1, <1>2, <1>3, PTL DEF BreakerSpec, ProbesAreSpaced

(***************************************************************************)
(* With one writer at a time a connection is what the last mutation of it  *)
(* that answered ok made it, whichever steps of later ones fail and are    *)
(* undone, for any connections and credentials.  The invariant compares    *)
(* every keychain entry with the promise, except those a mutation has      *)
(* written and not taken back.                                             *)
(***************************************************************************)
OneWriter == \A v, w \in Writers : v = w

ConnectionRows == Configs \cup {Nothing}
Values == Credentials \cup {Nothing}
Entries == [Parts -> Values]
Promise == [row : ConnectionRows, secrets : Entries]
Writes == UNION {[S -> Values] : S \in SUBSET Parts}

RunningMutation == [at : {"writing", "saving", "undoing", "restoring"}, verb : {"add", "update", "remove"},
            connection : Connections, row : ConnectionRows, loaded : [Connections -> ConnectionRows],
            previous : Entries, writes : Writes, todo : SUBSET Parts]

ConnectionsTyped ==
    /\ providers \in [Connections -> ConnectionRows]
    /\ secrets \in [Connections -> Entries]
    /\ mutation \in [Writers -> RunningMutation \cup {NoMutation}]
    /\ promised \in [Connections -> Promise \cup {Nothing}]

\* What a mutation is that runs: it loaded the file as it is, it brings what
\* its request may bring, and it has written what is not left to do.
Runs(m) ==
    LET c == m.connection IN
    /\ m.loaded = providers
    /\ m.todo \subseteq DOMAIN m.writes /\ DOMAIN m.writes \subseteq PartsOf(c)
    /\ m.verb = "remove" => /\ m.row = Nothing /\ DOMAIN m.writes = PartsOf(c)
                            /\ \A p \in DOMAIN m.writes : m.writes[p] = Nothing
    /\ m.verb # "remove" => m.row # Nothing /\ \A p \in DOMAIN m.writes : m.writes[p] # Nothing
    /\ m.verb = "add" => DOMAIN m.writes # {} /\ providers[c] = Nothing
    /\ m.verb = "update" => providers[c] # Nothing
    /\ m.at \in {"writing", "undoing"} => m.todo # {}
    /\ m.at = "saving" => m.todo = {}
    /\ m.at \in {"writing", "saving"} =>
          \A p \in DOMAIN m.writes \ m.todo : secrets[c][p] = m.writes[p]
    /\ promised[c] # Nothing => m.previous = promised[c].secrets

\* The entries a running mutation holds away from the promise.
Held(m, c, p) ==
    /\ m.connection = c
    /\ \/ m.at \in {"writing", "saving"} /\ p \in DOMAIN m.writes \ m.todo
       \/ m.at = "undoing" /\ p \in m.todo

PromiseKept(c) ==
    promised[c] # Nothing =>
        /\ providers[c] = promised[c].row
        /\ promised[c].row # Nothing => \E p \in PartsOf(c) : promised[c].secrets[p] # Nothing
        /\ promised[c].row = Nothing => \A p \in Parts : promised[c].secrets[p] = Nothing
        /\ \A p \in Parts : secrets[c][p] = promised[c].secrets[p]
              \/ \E w \in Writers : mutation[w].at # "none" /\ Held(mutation[w], c, p)

OnlyItsParts == \A c \in Connections, p \in Parts : p \notin PartsOf(c) => secrets[c][p] = Nothing

ConnectionInv ==
    /\ ConnectionsTyped
    /\ OnlyItsParts
    /\ \A w \in Writers : mutation[w].at # "none" => Runs(mutation[w])
    /\ \A c \in Connections : PromiseKept(c)

-----------------------------------------------------------------------------
LEMMA PartFacts ==
    /\ \A c \in Connections : PartsOf(c) \subseteq Parts /\ "key" \in PartsOf(c)
    /\ \A S \in SUBSET Parts : S # {} => First(S) \in S
BY DEF PartsOf, Parts, First

LEMMA WritesFacts ==
    /\ \A f \in Writes : DOMAIN f \in SUBSET Parts /\ \A p \in DOMAIN f : f[p] \in Values
    /\ \A S \in SUBSET Parts : [S -> Values] \subseteq Writes
BY DEF Writes

LEMMA RunningFacts ==
    /\ NoMutation.at = "none"
    /\ \A m \in RunningMutation : m.at # "none" /\ m # NoMutation
BY DEF RunningMutation, NoMutation

\* Nothing is held away from the promise: every entry is as promised.
LEMMA Quiet ==
    ASSUME ConnectionInv, NEW c \in Connections, promised[c] # Nothing,
           \A w \in Writers, p \in Parts : mutation[w].at # "none" => ~Held(mutation[w], c, p)
    PROVE  secrets[c] = promised[c].secrets
<1>1. \A p \in Parts : secrets[c][p] = promised[c].secrets[p]
      BY DEF ConnectionInv, PromiseKept
<1>2. secrets[c] \in Entries /\ promised[c].secrets \in Entries
      BY DEF ConnectionInv, ConnectionsTyped, Promise
<1> QED
    BY <1>1, <1>2 DEF Entries

LEMMA GivenFacts ==
    ASSUME NEW c \in Connections, NEW key \in Values, NEW session \in Values
    PROVE  /\ Given(c, key, session) \in Writes
           /\ DOMAIN Given(c, key, session) \subseteq PartsOf(c)
           /\ \A p \in DOMAIN Given(c, key, session) : Given(c, key, session)[p] # Nothing
<1> DEFINE S == {q \in PartsOf(c) : IF q = "key" THEN key # Nothing ELSE session # Nothing}
           f == [p \in S |-> IF p = "key" THEN key ELSE session]
<1>1. S \in SUBSET Parts /\ S \subseteq PartsOf(c)
      BY PartFacts
<1>2. f \in [S -> Values]
      OBVIOUS
<1>3. Given(c, key, session) = f
      BY DEF Given
<1>4. f \in Writes
      BY <1>1, <1>2, WritesFacts
<1>5. DOMAIN f = S /\ \A p \in S : f[p] # Nothing
      OBVIOUS
<1> HIDE DEF f
<1> QED
    BY <1>1, <1>3, <1>4, <1>5

\* A mutation begins.
LEMMA BeginKeeps ==
    ASSUME ConnectionInv, OneWriter, NEW w \in Writers, NEW verb \in {"add", "update", "remove"},
           NEW c \in Connections, NEW row \in ConnectionRows, NEW writes \in Writes,
           Begins(w, verb, c, row, writes),
           DOMAIN writes \subseteq PartsOf(c),
           verb = "remove" => /\ row = Nothing /\ DOMAIN writes = PartsOf(c)
                              /\ \A p \in DOMAIN writes : writes[p] = Nothing,
           verb # "remove" => row # Nothing /\ \A p \in DOMAIN writes : writes[p] # Nothing,
           verb = "add" => DOMAIN writes # {} /\ providers[c] = Nothing,
           verb = "update" => providers[c] # Nothing
    PROVE  ConnectionInv'
<1> DEFINE n == [at |-> IF DOMAIN writes = {} THEN "saving" ELSE "writing", verb |-> verb,
                 connection |-> c, row |-> row, loaded |-> providers, previous |-> secrets[c],
                 writes |-> writes, todo |-> DOMAIN writes]
<1>0. ConnectionsTyped /\ DOMAIN writes \in SUBSET Parts
      BY WritesFacts DEF ConnectionInv
<1>1. n \in RunningMutation
      BY <1>0 DEF RunningMutation, ConnectionsTyped
<1>2. mutation[w].at = "none" /\ \A v \in Writers : v = w
      BY DEF OneWriter, Begins
<1>3. mutation' = [mutation EXCEPT ![w] = n] /\ UNCHANGED <<providers, secrets, promised>>
      BY DEF Begins
<1>4. mutation'[w] = n
      BY <1>0, <1>3 DEF ConnectionsTyped
<1>5. /\ n.connection = c /\ n.loaded = providers /\ n.previous = secrets[c] /\ n.writes = writes
      /\ n.todo = DOMAIN writes /\ n.verb = verb /\ n.row = row
      /\ n.at = IF DOMAIN writes = {} THEN "saving" ELSE "writing"
      OBVIOUS
<1> HIDE DEF n
<1>6. \A d \in Connections : promised[d] # Nothing => secrets[d] = promised[d].secrets
      BY <1>2, Quiet
<1>7. ConnectionsTyped'
      BY <1>0, <1>1, <1>3 DEF ConnectionsTyped
<1>8. OnlyItsParts'
      BY <1>3 DEF ConnectionInv, OnlyItsParts
<1>9. Runs(mutation[w])'
      BY <1>3, <1>4, <1>5, <1>6 DEF Runs
<1>10. \A d \in Connections : PromiseKept(d)'
       BY <1>3, <1>6 DEF ConnectionInv, PromiseKept
<1> QED
    BY <1>2, <1>7, <1>8, <1>9, <1>10 DEF ConnectionInv

\* What a mutation that goes on keeps of itself.
SameRequest(n, m) ==
    /\ n.verb = m.verb /\ n.connection = m.connection /\ n.row = m.row
    /\ n.loaded = m.loaded /\ n.previous = m.previous /\ n.writes = m.writes

LEMMA UndoesFacts ==
    ASSUME ConnectionsTyped, NEW w \in Writers, mutation[w] \in RunningMutation,
           NEW todo \in SUBSET Parts, Undoes(w, todo)
    PROVE  \E n \in RunningMutation \cup {NoMutation} :
              /\ mutation' = [mutation EXCEPT ![w] = n]
              /\ mutation'[w] = n
              /\ todo # {} => n \in RunningMutation /\ n.at = "undoing" /\ n.todo = todo
              /\ todo = {} => n = NoMutation
                    \/ (n \in RunningMutation /\ n.at = "restoring" /\ n.todo = mutation[w].todo)
              /\ n \in RunningMutation => SameRequest(n, mutation[w])
<1> DEFINE m == mutation[w]
<1>1. CASE todo # {}
  <2> DEFINE n == [m EXCEPT !.at = "undoing", !.todo = todo]
  <2>1. /\ n \in RunningMutation /\ n.at = "undoing" /\ n.todo = todo /\ SameRequest(n, m)
        BY DEF RunningMutation, SameRequest
  <2>2. mutation' = [mutation EXCEPT ![w] = n] /\ mutation'[w] = n
        BY <1>1 DEF Undoes, ConnectionsTyped
  <2> HIDE DEF n
  <2> QED
      BY <1>1, <2>1, <2>2
<1>2. CASE todo = {} /\ m.verb = "remove"
  <2> DEFINE n == [m EXCEPT !.at = "restoring"]
  <2>1. /\ n \in RunningMutation /\ n.at = "restoring" /\ n.todo = m.todo /\ SameRequest(n, m)
        BY DEF RunningMutation, SameRequest
  <2>2. mutation' = [mutation EXCEPT ![w] = n] /\ mutation'[w] = n
        BY <1>2 DEF Undoes, ConnectionsTyped
  <2> HIDE DEF n
  <2> QED
      BY <1>2, <2>1, <2>2
<1>3. CASE todo = {} /\ m.verb # "remove"
  <2>1. mutation' = [mutation EXCEPT ![w] = NoMutation] /\ mutation'[w] = NoMutation
        BY <1>3 DEF Undoes, Ends, ConnectionsTyped
  <2>2. NoMutation \notin RunningMutation
        BY RunningFacts
  <2> WITNESS NoMutation \in RunningMutation \cup {NoMutation}
  <2> QED
      BY <1>3, <2>1, <2>2
<1> QED
    BY <1>1, <1>2, <1>3

\* A failed mutation that has todo left to undo holds nothing else.
LEMMA UndoingKeeps ==
    ASSUME ConnectionInv, OneWriter, NEW w \in Writers, mutation[w] \in RunningMutation,
           NEW todo \in SUBSET Parts, Undoes(w, todo), todo \subseteq DOMAIN mutation[w].writes,
           UNCHANGED providers, (secrets \in [Connections -> Entries])',
           (promised \in [Connections -> Promise \cup {Nothing}])', OnlyItsParts',
           \A d \in Connections : promised'[d] \in {promised[d], Nothing},
           \A d \in Connections \ {mutation[w].connection} : secrets'[d] = secrets[d],
           promised'[mutation[w].connection] # Nothing =>
              \A p \in Parts \ todo : secrets'[mutation[w].connection][p]
                                        = promised[mutation[w].connection].secrets[p]
    PROVE  ConnectionInv'
<1> DEFINE m == mutation[w]
           c == m.connection
<1>1. PICK n \in RunningMutation \cup {NoMutation} :
              /\ mutation' = [mutation EXCEPT ![w] = n]
              /\ mutation'[w] = n
              /\ todo # {} => n \in RunningMutation /\ n.at = "undoing" /\ n.todo = todo
              /\ todo = {} => n = NoMutation
                    \/ (n \in RunningMutation /\ n.at = "restoring" /\ n.todo = mutation[w].todo)
              /\ n \in RunningMutation => SameRequest(n, mutation[w])
      BY UndoesFacts DEF ConnectionInv
<1>2. c \in Connections /\ Runs(m) /\ (\A v \in Writers : v = w) /\ m.at # "none"
      BY RunningFacts DEF ConnectionInv, OneWriter, RunningMutation
<1>3. ConnectionsTyped'
      BY <1>1 DEF ConnectionInv, ConnectionsTyped
<1>4. ASSUME mutation'[w].at # "none" PROVE Runs(mutation[w])'
  <2>1. n \in RunningMutation /\ SameRequest(n, m) /\ n.at \in {"undoing", "restoring"}
        BY <1>1, <1>4, RunningFacts
  <2>2. n.todo \subseteq DOMAIN n.writes /\ (n.at = "undoing" => n.todo # {})
        BY <1>1, <1>2, <2>1, RunningFacts DEF Runs, SameRequest
  <2>3. promised'[c] # Nothing => promised'[c] = promised[c]
        BY <1>2
  <2> QED
      BY <1>1, <1>2, <2>1, <2>2, <2>3 DEF Runs, SameRequest
<1>5. ASSUME NEW d \in Connections PROVE PromiseKept(d)'
  <2> SUFFICES ASSUME promised'[d] # Nothing
               PROVE /\ providers'[d] = promised'[d].row
                     /\ promised'[d].row # Nothing =>
                           \E p \in PartsOf(d) : promised'[d].secrets[p] # Nothing
                     /\ promised'[d].row = Nothing => \A p \in Parts : promised'[d].secrets[p] = Nothing
                     /\ \A p \in Parts : secrets'[d][p] = promised'[d].secrets[p]
                           \/ \E v \in Writers : mutation'[v].at # "none" /\ Held(mutation'[v], d, p)
      BY DEF PromiseKept
  <2>1. promised'[d] = promised[d] /\ promised[d] # Nothing
        OBVIOUS
  <2>2. /\ providers'[d] = promised'[d].row
        /\ promised'[d].row # Nothing => \E p \in PartsOf(d) : promised'[d].secrets[p] # Nothing
        /\ promised'[d].row = Nothing => \A p \in Parts : promised'[d].secrets[p] = Nothing
        BY <2>1 DEF ConnectionInv, PromiseKept
  <2>3. ASSUME NEW p \in Parts
        PROVE secrets'[d][p] = promised'[d].secrets[p]
                 \/ \E v \in Writers : mutation'[v].at # "none" /\ Held(mutation'[v], d, p)
    <3>1. CASE d # c
          BY <1>2, <2>1, <3>1 DEF ConnectionInv, PromiseKept, Held
    <3>2. CASE d = c /\ p \notin todo
          BY <2>1, <3>2
    <3>3. CASE d = c /\ p \in todo
      <4>1. n.at = "undoing" /\ n.todo = todo /\ n.connection = c
            BY <1>1, <3>3 DEF SameRequest
      <4> QED
          BY <1>1, <3>3, <4>1 DEF Held
    <3> QED
        BY <3>1, <3>2, <3>3
  <2> QED
      BY <2>2, <2>3
<1> QED
    BY <1>2, <1>3, <1>4, <1>5 DEF ConnectionInv

\* A mutation ends.
LEMMA EndKeeps ==
    ASSUME ConnectionInv, OneWriter, NEW w \in Writers, mutation[w] \in RunningMutation, Ends(w),
           (providers \in [Connections -> ConnectionRows])', (secrets \in [Connections -> Entries])',
           (promised \in [Connections -> Promise \cup {Nothing}])', OnlyItsParts',
           \A d \in Connections \ {mutation[w].connection} :
              providers'[d] = providers[d] /\ secrets'[d] = secrets[d] /\ promised'[d] = promised[d],
           NEW c, c = mutation[w].connection,
           promised'[c] # Nothing =>
              /\ providers'[c] = promised'[c].row
              /\ promised'[c].row # Nothing => \E p \in PartsOf(c) : promised'[c].secrets[p] # Nothing
              /\ promised'[c].row = Nothing => \A p \in Parts : promised'[c].secrets[p] = Nothing
              /\ \A p \in Parts : secrets'[c][p] = promised'[c].secrets[p]
    PROVE  ConnectionInv'
<1>1. mutation' = [mutation EXCEPT ![w] = NoMutation] /\ mutation'[w].at = "none"
      BY RunningFacts DEF Ends, ConnectionInv, ConnectionsTyped
<1>2. \A v \in Writers : v = w
      BY DEF OneWriter
<1>3. ConnectionsTyped'
      BY <1>1 DEF ConnectionInv, ConnectionsTyped
<1>4. ASSUME NEW d \in Connections PROVE PromiseKept(d)'
  <2>1. CASE d = c
        BY <2>1 DEF PromiseKept
  <2>2. CASE d # c
        BY <1>2, <2>2 DEF ConnectionInv, PromiseKept, Held
  <2> QED
      BY <2>1, <2>2
<1> QED
    BY <1>1, <1>2, <1>3, <1>4 DEF ConnectionInv

-----------------------------------------------------------------------------
(* One lemma per step of a running mutation.                               *)
LEMMA PutFacts ==
    ASSUME ConnectionsTyped, NEW w \in Writers, mutation[w] \in RunningMutation, NEW p \in Parts,
           NEW value \in Values, Put(w, p, value)
    PROVE  /\ secrets' \in [Connections -> Entries]
           /\ \A d \in Connections, q \in Parts :
                secrets'[d][q] = IF d = mutation[w].connection /\ q = p THEN value ELSE secrets[d][q]
           /\ \A d \in Connections \ {mutation[w].connection} : secrets'[d] = secrets[d]
BY DEF ConnectionsTyped, RunningMutation, Put, Entries

LEMMA WriteKeeps ==
    ASSUME ConnectionInv, OneWriter, NEW w \in Writers, WriteSecret(w)
    PROVE  ConnectionInv'
<1> DEFINE m == mutation[w]
           c == m.connection
           p == First(m.todo)
           n == [m EXCEPT !.todo = @ \ {p}, !.at = IF m.todo = {p} THEN "saving" ELSE @]
<1>1. m \in RunningMutation /\ Runs(m) /\ m.at = "writing"
      BY RunningFacts DEF ConnectionInv, ConnectionsTyped, WriteSecret
<1>2. c \in Connections /\ p \in m.todo /\ p \in DOMAIN m.writes /\ p \in Parts /\ m.writes[p] \in Values
  <2>1. m.todo \in SUBSET Parts /\ m.todo # {} /\ m.todo \subseteq DOMAIN m.writes
        BY <1>1 DEF Runs, RunningMutation
  <2>2. m.writes \in Writes /\ c \in Connections
        BY <1>1 DEF RunningMutation
  <2> QED
      BY <2>1, <2>2, PartFacts, WritesFacts
<1>3. n \in RunningMutation /\ SameRequest(n, m) /\ n.todo = m.todo \ {p}
      /\ n.at = IF m.todo = {p} THEN "saving" ELSE "writing"
      BY <1>1 DEF RunningMutation, SameRequest
<1>4. mutation' = [mutation EXCEPT ![w] = n] /\ mutation'[w] = n
      BY DEF WriteSecret, ConnectionInv, ConnectionsTyped
<1> HIDE DEF n
<1>5. /\ secrets' \in [Connections -> Entries]
      /\ \A d \in Connections, q \in Parts :
           secrets'[d][q] = IF d = c /\ q = p THEN m.writes[p] ELSE secrets[d][q]
  <2>1. ConnectionsTyped /\ Put(w, p, m.writes[p])
        BY DEF ConnectionInv, WriteSecret
  <2> HIDE DEF p
  <2> QED
      BY <1>1, <1>2, <2>1, PutFacts
<1>6. UNCHANGED <<providers, promised>>
      BY DEF WriteSecret
<1>7. DOMAIN m.writes \subseteq Parts
      BY <1>1, WritesFacts DEF RunningMutation
<1> HIDE DEF p
<1>8. ConnectionsTyped'
      BY <1>3, <1>4, <1>5, <1>6 DEF ConnectionInv, ConnectionsTyped
<1>9. OnlyItsParts'
      BY <1>1, <1>2, <1>5 DEF ConnectionInv, OnlyItsParts, Runs
<1>10. Runs(mutation[w])'
  <2>1. \A q \in DOMAIN n.writes \ n.todo : secrets'[n.connection][q] = n.writes[q]
        BY <1>1, <1>2, <1>3, <1>5, <1>7 DEF Runs, SameRequest
  <2>2. n.todo \subseteq DOMAIN n.writes /\ (n.at = "writing" => n.todo # {}) /\ (n.at = "saving" => n.todo = {})
        BY <1>1, <1>3 DEF Runs, SameRequest
  <2> QED
      BY <1>1, <1>3, <1>4, <1>6, <2>1, <2>2 DEF Runs, SameRequest
<1>11. ASSUME NEW d \in Connections PROVE PromiseKept(d)'
  <2>1. ASSUME NEW q \in Parts, Held(m, d, q) PROVE Held(n, d, q)
        BY <1>1, <1>3, <2>1 DEF Held, SameRequest
  <2>2. Held(n, c, p)
        BY <1>2, <1>3 DEF Held, SameRequest
  <2>3. \A v \in Writers : v = w
        BY DEF OneWriter
  <2>4. n.at # "none"
        BY <1>3
  <2>5. PromiseKept(d)
        BY DEF ConnectionInv
  <2> QED
      BY <1>4, <1>5, <1>6, <2>1, <2>2, <2>3, <2>4, <2>5 DEF PromiseKept
<1> QED
    BY <1>4, <1>8, <1>9, <1>10, <1>11 DEF ConnectionInv, OneWriter

\* What a promise about a connection that a mutation runs on is worth.
LEMMA RunningPromise ==
    ASSUME ConnectionInv, OneWriter, NEW w \in Writers, mutation[w].at # "none",
           NEW c, c = mutation[w].connection
    PROVE  /\ mutation[w] \in RunningMutation /\ Runs(mutation[w]) /\ c \in Connections
           /\ DOMAIN mutation[w].writes \in SUBSET Parts
           /\ \A p \in DOMAIN mutation[w].writes : mutation[w].writes[p] \in Values
           /\ Undone(w) \subseteq DOMAIN mutation[w].writes
           /\ promised[c] # Nothing =>
                /\ promised[c] \in Promise /\ mutation[w].previous = promised[c].secrets
                /\ providers[c] = promised[c].row
                /\ promised[c].row # Nothing => \E p \in PartsOf(c) : promised[c].secrets[p] # Nothing
                /\ promised[c].row = Nothing => \A p \in Parts : promised[c].secrets[p] = Nothing
                /\ \A p \in Parts : secrets[c][p] = promised[c].secrets[p] \/ Held(mutation[w], c, p)
<1>1. mutation[w] \in RunningMutation /\ Runs(mutation[w]) /\ c \in Connections
      BY RunningFacts DEF ConnectionInv, ConnectionsTyped, RunningMutation
<1>2. mutation[w].writes \in Writes
      BY <1>1 DEF RunningMutation
<1>3. promised[c] # Nothing => mutation[w].previous = promised[c].secrets
      BY <1>1 DEF Runs
<1>4. promised[c] \in Promise \cup {Nothing}
      BY <1>1 DEF ConnectionInv, ConnectionsTyped
<1>5. PromiseKept(c)
      BY <1>1 DEF ConnectionInv
<1>6. Undone(w) \subseteq DOMAIN mutation[w].writes
      BY DEF Undone
<1> QED
    BY <1>1, <1>2, <1>3, <1>4, <1>5, <1>6, WritesFacts DEF PromiseKept, OneWriter

LEMMA SaveFailsKeeps ==
    ASSUME ConnectionInv, OneWriter, NEW w \in Writers, SaveProvidersFails(w)
    PROVE  ConnectionInv'
<1> DEFINE m == mutation[w]
           c == m.connection
<1>1. m.at = "saving" /\ Undoes(w, Undone(w)) /\ UNCHANGED <<providers, secrets, promised>>
      BY DEF SaveProvidersFails
<1>2. /\ m \in RunningMutation /\ Runs(m) /\ c \in Connections
      /\ DOMAIN m.writes \in SUBSET Parts /\ Undone(w) \subseteq DOMAIN m.writes
      BY <1>1, RunningPromise
<1>3. promised[c] # Nothing => \A p \in Parts \ Undone(w) : secrets[c][p] = promised[c].secrets[p]
  <2> SUFFICES ASSUME promised[c] # Nothing, NEW p \in Parts, p \notin Undone(w)
               PROVE secrets[c][p] = promised[c].secrets[p]
      OBVIOUS
  <2>1. secrets[c][p] = promised[c].secrets[p] \/ Held(m, c, p)
        BY <1>1, RunningPromise
  <2>2. m.previous = promised[c].secrets
        BY <1>1, RunningPromise
  <2>3. ASSUME Held(m, c, p) PROVE secrets[c][p] = promised[c].secrets[p]
    <3>1. p \in DOMAIN m.writes /\ p \notin m.todo
          BY <1>1, <2>3 DEF Held
    <3>2. m.verb = "remove" /\ m.previous[p] = Nothing
          BY <3>1 DEF Undone
    <3>3. secrets[c][p] = m.writes[p] /\ m.writes[p] = Nothing
          BY <1>1, <1>2, <3>1, <3>2 DEF Runs
    <3> QED
        BY <2>2, <3>2, <3>3
  <2> QED
      BY <2>1, <2>3
<1>4. /\ (secrets \in [Connections -> Entries])'
      /\ (promised \in [Connections -> Promise \cup {Nothing}])' /\ OnlyItsParts'
      BY <1>1 DEF ConnectionInv, ConnectionsTyped, OnlyItsParts
<1> DEFINE todo == Undone(w)
<1>5. todo \in SUBSET Parts /\ todo \subseteq DOMAIN m.writes /\ Undoes(w, todo)
      BY <1>1, <1>2
<1>6. promised'[c] # Nothing =>
         \A p \in Parts \ todo : secrets'[c][p] = promised[c].secrets[p]
      BY <1>1, <1>3
<1> HIDE DEF todo
<1> QED
    BY <1>1, <1>2, <1>4, <1>5, <1>6, UndoingKeeps

LEMMA WriteFailsKeeps ==
    ASSUME ConnectionInv, OneWriter, NEW w \in Writers, WriteSecretFails(w)
    PROVE  ConnectionInv'
<1> DEFINE m == mutation[w]
           c == m.connection
           p == First(m.todo)
           todo == Undone(w)
<1>1. m.at = "writing" /\ UNCHANGED providers
      BY DEF WriteSecretFails
<1>2. /\ m \in RunningMutation /\ Runs(m) /\ c \in Connections
      /\ DOMAIN m.writes \in SUBSET Parts /\ todo \subseteq DOMAIN m.writes
      /\ \A q \in DOMAIN m.writes : m.writes[q] \in Values
      BY <1>1, RunningPromise
<1>3. p \in m.todo /\ p \in DOMAIN m.writes /\ p \in Parts /\ m.todo \in SUBSET Parts
      BY <1>1, <1>2, PartFacts DEF Runs
<1>4. secrets \in [Connections -> Entries] /\ ConnectionsTyped /\ providers' \in [Connections -> ConnectionRows]
      BY <1>1 DEF ConnectionInv, ConnectionsTyped
<1>5. \/ secrets' = secrets /\ promised' = promised
      \/ /\ Put(w, p, m.writes[p])
         /\ IF m.verb # "add" \/ c \in StepPlans THEN UNCHANGED promised ELSE BreaksPromise(c)
      BY DEF WriteSecretFails
<1>6. /\ secrets' \in [Connections -> Entries]
      /\ \A d \in Connections \ {c} : secrets'[d] = secrets[d]
      /\ \A q \in Parts : secrets'[c][q] = secrets[c][q] \/ (q = p /\ secrets'[c][q] = m.writes[p])
  <2>1. CASE secrets' = secrets
        BY <1>4, <2>1
  <2>2. CASE Put(w, p, m.writes[p])
    <3> HIDE DEF p
    <3> QED
        BY <1>2, <1>3, <1>4, <2>2, PutFacts
  <2> QED
      BY <1>5, <2>1, <2>2
<1>7. promised' \in [Connections -> Promise \cup {Nothing}]
      BY <1>2, <1>4, <1>5 DEF ConnectionsTyped, BreaksPromise
<1> HIDE DEF p
<1>8. OnlyItsParts'
  <2>1. DOMAIN m.writes \subseteq PartsOf(c)
        BY <1>2 DEF Runs
  <2> QED
      BY <1>2, <1>3, <1>6, <2>1 DEF ConnectionInv, OnlyItsParts
<1>9. ASSUME promised[c] # Nothing, NEW q \in Parts, q \notin todo, m.verb # "add" \/ c \in StepPlans
      PROVE  secrets'[c][q] = promised[c].secrets[q]
  <2>1. m.previous = promised[c].secrets
        BY <1>1, <1>9, RunningPromise
  <2>2. secrets[c][q] = promised[c].secrets[q] \/ Held(m, c, q)
        BY <1>1, <1>9, RunningPromise
  <2>3. CASE q \in DOMAIN m.writes
    <3>1. m.verb = "remove" /\ m.previous[q] = Nothing
          BY <1>9, <2>3 DEF Undone
    <3>2. m.writes[q] = Nothing
          BY <1>2, <2>3, <3>1 DEF Runs
    <3>3. Held(m, c, q) => secrets[c][q] = m.writes[q]
          BY <1>1, <1>2, <2>3 DEF Held, Runs
    <3> QED
        BY <1>6, <2>1, <2>2, <3>1, <3>2, <3>3
  <2>4. CASE q \notin DOMAIN m.writes
        BY <1>1, <1>3, <1>6, <2>2, <2>4 DEF Held
  <2> QED
      BY <2>3, <2>4
<1>10. CASE m.verb # "add" \/ c \in StepPlans
  <2>1. Undoes(w, todo) /\ promised' = promised
        BY <1>5, <1>10 DEF WriteSecretFails
  <2>2. promised'[c] # Nothing => \A q \in Parts \ todo : secrets'[c][q] = promised[c].secrets[q]
        BY <1>9, <1>10, <2>1
  <2>3. todo \in SUBSET Parts
        BY <1>2
  <2> HIDE DEF todo
  <2> QED
      BY <1>1, <1>2, <1>6, <1>7, <1>8, <2>1, <2>2, <2>3, UndoingKeeps
<1>11. CASE m.verb = "add" /\ c \notin StepPlans
  <2>1. Ends(w)
        BY <1>11 DEF WriteSecretFails
  <2>2. \A d \in Connections \ {c} : promised'[d] = promised[d]
        BY <1>2, <1>4, <1>5, <1>11 DEF BreaksPromise, ConnectionsTyped
  <2>3. ASSUME promised'[c] # Nothing
        PROVE  secrets' = secrets /\ promised' = promised
        BY <1>2, <1>4, <1>5, <1>11, <2>3 DEF BreaksPromise, ConnectionsTyped
  <2>4. PartsOf(c) = {"key"}
        BY <1>11 DEF PartsOf
  <2>5. DOMAIN m.writes = {"key"} /\ m.todo = {"key"}
        BY <1>2, <1>3, <2>4 DEF Runs
  <2>6. \A q \in Parts : ~Held(m, c, q)
        BY <1>1, <2>5 DEF Held
  <2>7. promised'[c] # Nothing =>
              /\ providers'[c] = promised'[c].row
              /\ promised'[c].row # Nothing => \E q \in PartsOf(c) : promised'[c].secrets[q] # Nothing
              /\ promised'[c].row = Nothing => \A q \in Parts : promised'[c].secrets[q] = Nothing
              /\ \A q \in Parts : secrets'[c][q] = promised'[c].secrets[q]
        BY <1>1, <2>3, <2>6, RunningPromise
  <2> QED
      BY <1>1, <1>2, <1>4, <1>6, <1>7, <1>8, <2>1, <2>2, <2>7, EndKeeps
<1> QED
    BY <1>10, <1>11, <1>2 DEF RunningMutation

LEMMA UndoKeeps ==
    ASSUME ConnectionInv, OneWriter, NEW w \in Writers, UndoSecret(w)
    PROVE  ConnectionInv'
<1> DEFINE m == mutation[w]
           c == m.connection
           p == First(m.todo)
           value == UndoValue(w, p)
           todo == m.todo \ {p}
<1>1. m.at = "undoing" /\ UNCHANGED providers /\ Undoes(w, todo)
      BY DEF UndoSecret
<1>2. /\ m \in RunningMutation /\ Runs(m) /\ c \in Connections
      /\ DOMAIN m.writes \in SUBSET Parts
      BY <1>1, RunningPromise
<1>3. /\ p \in m.todo /\ p \in DOMAIN m.writes /\ p \in Parts
      /\ todo \in SUBSET Parts /\ todo \subseteq DOMAIN m.writes
      BY <1>1, <1>2, PartFacts DEF Runs
<1>4. ConnectionsTyped /\ value \in Values
  <2> HIDE DEF p
  <2> QED
      BY <1>2, <1>3 DEF ConnectionInv, UndoValue, RunningMutation, Entries, Values
<1>5. \/ Put(w, p, value) /\ promised' = promised
      \/ /\ secrets' = secrets
         /\ IF secrets[c][p] = value THEN UNCHANGED promised ELSE BreaksPromise(c)
      BY DEF UndoSecret
<1>6. promised[c] # Nothing => value = promised[c].secrets[p]
  <2> SUFFICES ASSUME promised[c] # Nothing PROVE value = promised[c].secrets[p]
      OBVIOUS
  <2>1. /\ m.previous = promised[c].secrets /\ providers[c] = promised[c].row
        /\ promised[c].row = Nothing => \A q \in Parts : promised[c].secrets[q] = Nothing
        BY <1>1, RunningPromise
  <2>2. m.verb = "add" => providers[c] = Nothing
        BY <1>2 DEF Runs
  <2> HIDE DEF p
  <2> QED
      BY <1>3, <2>1, <2>2 DEF UndoValue
<1>7. OnlyItsParts /\ p \in PartsOf(c) /\ DOMAIN m.writes \subseteq PartsOf(c)
      BY <1>2, <1>3 DEF ConnectionInv, Runs
<1> HIDE DEF p, value
<1>8. /\ secrets' \in [Connections -> Entries]
      /\ \A d \in Connections \ {c} : secrets'[d] = secrets[d]
      /\ \A q \in Parts \ {p} : secrets'[c][q] = secrets[c][q]
      /\ secrets'[c][p] \in {value, secrets[c][p]}
      /\ promised'[c] # Nothing => secrets'[c][p] = value
  <2>1. CASE Put(w, p, value)
        BY <1>2, <1>3, <1>4, <2>1, PutFacts
  <2>2. CASE secrets' = secrets /\ IF secrets[c][p] = value THEN UNCHANGED promised ELSE BreaksPromise(c)
        BY <1>2, <1>4, <2>2 DEF ConnectionsTyped, BreaksPromise
  <2> QED
      BY <1>5, <2>1, <2>2
<1>9. /\ promised' \in [Connections -> Promise \cup {Nothing}]
      /\ \A d \in Connections : promised'[d] \in {promised[d], Nothing}
      BY <1>2, <1>4, <1>5 DEF ConnectionsTyped, BreaksPromise
<1>10. OnlyItsParts'
  <2> SUFFICES ASSUME NEW d \in Connections, NEW q \in Parts, q \notin PartsOf(d)
               PROVE secrets'[d][q] = Nothing
      BY DEF OnlyItsParts
  <2>1. secrets[d][q] = Nothing
        BY <1>7 DEF OnlyItsParts
  <2>2. CASE d = c
        BY <1>7, <1>8, <2>1, <2>2
  <2>3. CASE d # c
        BY <1>8, <2>1, <2>3
  <2> QED
      BY <2>2, <2>3
<1>11. ASSUME promised'[c] # Nothing, NEW q \in Parts, q \notin todo
       PROVE  secrets'[c][q] = promised[c].secrets[q]
  <2>1. promised[c] # Nothing
        BY <1>2, <1>9, <1>11
  <2>2. CASE q = p
        BY <1>6, <1>8, <1>11, <2>1, <2>2
  <2>3. CASE q # p
    <3>1. q \notin m.todo
          BY <1>11, <2>3
    <3>2. ~Held(m, c, q)
          BY <1>1, <3>1 DEF Held
    <3>3. secrets[c][q] = promised[c].secrets[q]
          BY <1>1, <2>1, <3>2, RunningPromise
    <3> QED
        BY <1>8, <2>3, <3>3
  <2> QED
      BY <2>2, <2>3
<1> HIDE DEF todo
<1> QED
    BY <1>1, <1>2, <1>3, <1>4, <1>8, <1>9, <1>10, <1>11, UndoingKeeps DEF ConnectionsTyped

LEMMA RestoreKeeps ==
    ASSUME ConnectionInv, OneWriter, NEW w \in Writers, RestoreProviders(w)
    PROVE  ConnectionInv'
<1> DEFINE m == mutation[w]
           c == m.connection
<1>1. m.at = "restoring" /\ Ends(w) /\ UNCHANGED <<secrets, promised>>
      BY DEF RestoreProviders
<1>2. m \in RunningMutation /\ Runs(m) /\ c \in Connections
      BY <1>1, RunningPromise
<1>3. providers' = providers
      BY <1>2 DEF RestoreProviders, Runs
<1>4. \A q \in Parts : ~Held(m, c, q)
      BY <1>1 DEF Held
<1>5. ConnectionsTyped /\ OnlyItsParts'
      BY <1>1 DEF ConnectionInv, OnlyItsParts
<1>6. /\ providers' \in [Connections -> ConnectionRows] /\ secrets' \in [Connections -> Entries]
      /\ promised' \in [Connections -> Promise \cup {Nothing}]
      BY <1>1, <1>3, <1>5 DEF ConnectionsTyped
<1>7. promised'[c] # Nothing =>
          /\ providers'[c] = promised'[c].row
          /\ promised'[c].row # Nothing => \E p \in PartsOf(c) : promised'[c].secrets[p] # Nothing
          /\ promised'[c].row = Nothing => \A p \in Parts : promised'[c].secrets[p] = Nothing
          /\ \A p \in Parts : secrets'[c][p] = promised'[c].secrets[p]
      BY <1>1, <1>3, <1>4, RunningPromise
<1> QED
    BY <1>1, <1>2, <1>3, <1>5, <1>6, <1>7, EndKeeps

LEMMA KillKeeps ==
    ASSUME ConnectionInv, OneWriter, NEW w \in Writers, MutationKilled(w)
    PROVE  ConnectionInv'
<1> DEFINE m == mutation[w]
           c == m.connection
<1>1. m.at # "none" /\ Ends(w) /\ UNCHANGED <<providers, secrets>>
      BY DEF MutationKilled
<1>2. m \in RunningMutation /\ Runs(m) /\ c \in Connections
      BY <1>1, RunningPromise
<1>3. ConnectionsTyped /\ OnlyItsParts'
      BY <1>1 DEF ConnectionInv, OnlyItsParts
<1>4. CASE AsPromised(c)
  <2>1. promised' = promised
        BY <1>4 DEF MutationKilled
  <2>2. \A q \in Parts : secrets[c][q] = promised[c].secrets[q]
        BY <1>4 DEF AsPromised
  <2>3. /\ providers' \in [Connections -> ConnectionRows] /\ secrets' \in [Connections -> Entries]
        /\ promised' \in [Connections -> Promise \cup {Nothing}]
        BY <1>1, <1>3, <2>1 DEF ConnectionsTyped
  <2>4. promised'[c] # Nothing =>
            /\ providers'[c] = promised'[c].row
            /\ promised'[c].row # Nothing => \E p \in PartsOf(c) : promised'[c].secrets[p] # Nothing
            /\ promised'[c].row = Nothing => \A p \in Parts : promised'[c].secrets[p] = Nothing
            /\ \A p \in Parts : secrets'[c][p] = promised'[c].secrets[p]
        BY <1>1, <2>1, <2>2, RunningPromise
  <2> QED
      BY <1>1, <1>2, <1>3, <2>1, <2>3, <2>4, EndKeeps
<1>5. CASE ~AsPromised(c)
  <2>1. promised' = [promised EXCEPT ![c] = Nothing]
        BY <1>5 DEF MutationKilled, BreaksPromise
  <2>2. /\ promised' \in [Connections -> Promise \cup {Nothing}] /\ promised'[c] = Nothing
        /\ \A d \in Connections \ {c} : promised'[d] = promised[d]
        BY <1>2, <1>3, <2>1 DEF ConnectionsTyped
  <2> QED
      BY <1>1, <1>2, <1>3, <2>2, EndKeeps DEF ConnectionsTyped
<1> QED
    BY <1>4, <1>5

LEMMA SaveKeeps ==
    ASSUME ConnectionInv, OneWriter, NEW w \in Writers, SaveProviders(w)
    PROVE  ConnectionInv'
<1> DEFINE m == mutation[w]
           c == m.connection
           before == promised[c]
           result == [row |-> m.row,
                      secrets |-> [p \in Parts |->
                                      IF p \in DOMAIN m.writes THEN m.writes[p]
                                      ELSE IF p \in PartsOf(c) THEN before.secrets[p]
                                      ELSE Nothing]]
<1>1. m.at = "saving" /\ Ends(w) /\ secrets' = secrets
      BY DEF SaveProviders
<1>2. /\ m \in RunningMutation /\ Runs(m) /\ c \in Connections /\ DOMAIN m.writes \in SUBSET Parts
      /\ \A p \in DOMAIN m.writes : m.writes[p] \in Values
      BY <1>1, RunningPromise
<1>3. ConnectionsTyped /\ OnlyItsParts'
      BY <1>1 DEF ConnectionInv, OnlyItsParts
<1>4. /\ providers' \in [Connections -> ConnectionRows] /\ providers'[c] = m.row
      /\ \A d \in Connections \ {c} : providers'[d] = providers[d]
  <2>1. m.loaded = providers /\ m.row \in ConnectionRows
        BY <1>2 DEF Runs, RunningMutation
  <2> QED
      BY <1>2, <1>3, <2>1 DEF SaveProviders, ConnectionsTyped
<1>5. promised' = [promised EXCEPT ![c] = Outcome(w)]
      BY DEF SaveProviders
<1>6. Outcome(w) = IF before = Nothing /\ DOMAIN m.writes # PartsOf(c) THEN Nothing ELSE result
      BY DEF Outcome
<1>7. CASE before = Nothing /\ DOMAIN m.writes # PartsOf(c)
  <2>1. promised' = [promised EXCEPT ![c] = Nothing]
        BY <1>5, <1>6, <1>7
  <2>2. /\ promised' \in [Connections -> Promise \cup {Nothing}] /\ promised'[c] = Nothing
        /\ \A d \in Connections \ {c} : promised'[d] = promised[d]
        BY <1>2, <1>3, <2>1 DEF ConnectionsTyped
  <2> QED
      BY <1>1, <1>2, <1>3, <1>4, <2>2, EndKeeps DEF ConnectionsTyped
<1>8. CASE ~(before = Nothing /\ DOMAIN m.writes # PartsOf(c))
  <2>1. /\ m.todo = {} /\ DOMAIN m.writes \subseteq PartsOf(c)
        /\ \A p \in DOMAIN m.writes : secrets[c][p] = m.writes[p]
        BY <1>1, <1>2 DEF Runs
  <2>2. before # Nothing =>
            /\ before \in Promise /\ providers[c] = before.row
            /\ before.row # Nothing => \E p \in PartsOf(c) : before.secrets[p] # Nothing
            /\ \A p \in Parts : secrets[c][p] = before.secrets[p] \/ Held(m, c, p)
        BY <1>1, RunningPromise
  <2>3. before # Nothing => \A p \in Parts \ DOMAIN m.writes : secrets[c][p] = before.secrets[p]
        BY <1>1, <2>2 DEF Held
  <2>4. \A p \in Parts : secrets[c][p] =
           IF p \in DOMAIN m.writes THEN m.writes[p]
           ELSE IF p \in PartsOf(c) THEN before.secrets[p]
           ELSE Nothing
    <3> SUFFICES ASSUME NEW p \in Parts
                 PROVE secrets[c][p] = IF p \in DOMAIN m.writes THEN m.writes[p]
                                       ELSE IF p \in PartsOf(c) THEN before.secrets[p]
                                       ELSE Nothing
        OBVIOUS
    <3>1. CASE p \in DOMAIN m.writes
          BY <2>1, <3>1
    <3>2. CASE p \notin DOMAIN m.writes /\ p \in PartsOf(c)
          BY <1>8, <2>3, <3>2
    <3>3. CASE p \notin PartsOf(c)
          BY <1>1, <1>2, <1>3, <2>1, <3>3 DEF OnlyItsParts
    <3> QED
        BY <3>1, <3>2, <3>3
  <2>5. secrets[c] \in Entries
        BY <1>2, <1>3 DEF ConnectionsTyped
  <2>6. result = [row |-> m.row, secrets |-> secrets[c]]
        BY <2>4, <2>5 DEF Entries
  <2>7. m.row \in ConnectionRows
        BY <1>2 DEF RunningMutation
  <2> HIDE DEF result
  <2>8. /\ result \in Promise /\ result.row = m.row /\ result.secrets = secrets[c]
        BY <2>5, <2>6, <2>7 DEF Promise
  <2>9. /\ promised' \in [Connections -> Promise \cup {Nothing}] /\ promised'[c] = result
        /\ \A d \in Connections \ {c} : promised'[d] = promised[d]
        BY <1>2, <1>3, <1>5, <1>6, <1>8, <2>8 DEF ConnectionsTyped
  <2>10. m.row = Nothing => \A p \in Parts : secrets[c][p] = Nothing
    <3> SUFFICES ASSUME m.row = Nothing, NEW p \in Parts
                 PROVE secrets[c][p] = Nothing
        OBVIOUS
    <3>1. DOMAIN m.writes = PartsOf(c) /\ \A q \in DOMAIN m.writes : m.writes[q] = Nothing
          BY <1>2 DEF Runs
    <3> QED
        BY <1>1, <1>2, <1>3, <2>1, <3>1 DEF OnlyItsParts
  <2>11. m.row # Nothing => \E p \in PartsOf(c) : secrets[c][p] # Nothing
    <3> SUFFICES ASSUME m.row # Nothing
                 PROVE \E p \in PartsOf(c) : secrets[c][p] # Nothing
        OBVIOUS
    <3>1. m.verb # "remove" /\ \A p \in DOMAIN m.writes : m.writes[p] # Nothing
          BY <1>2 DEF Runs
    <3>2. CASE DOMAIN m.writes # {}
          BY <2>1, <3>1, <3>2
    <3>3. CASE DOMAIN m.writes = {}
      <4>1. m.verb = "update" /\ providers[c] # Nothing
            BY <1>2, <3>1, <3>3 DEF Runs, RunningMutation
      <4>2. before # Nothing
            BY <1>2, <1>8, <3>3, PartFacts
      <4> QED
          BY <1>2, <2>2, <2>3, <3>3, <4>1, <4>2, PartFacts
    <3> QED
        BY <3>2, <3>3
  <2> QED
      BY <1>1, <1>2, <1>3, <1>4, <2>8, <2>9, <2>10, <2>11, EndKeeps DEF ConnectionsTyped
<1> QED
    BY <1>7, <1>8

-----------------------------------------------------------------------------
LEMMA ConnectionInvInit == ConnectionInit => ConnectionInv
<1> SUFFICES ASSUME ConnectionInit PROVE ConnectionInv
    OBVIOUS
<1>1. NoSecrets \in Entries /\ \A p \in Parts : NoSecrets[p] = Nothing
      BY DEF NoSecrets, Entries, Values
<1> HIDE DEF NoSecrets
<1> DEFINE none == [row |-> Nothing, secrets |-> NoSecrets]
<1>2. none \in Promise /\ none.row = Nothing /\ none.secrets = NoSecrets
      BY <1>1 DEF Promise, ConnectionRows
<1> HIDE DEF none
<1>3. /\ providers = [c \in Connections |-> Nothing] /\ secrets = [c \in Connections |-> NoSecrets]
      /\ mutation = [w \in Writers |-> NoMutation] /\ promised = [c \in Connections |-> none]
      BY DEF ConnectionInit, none
<1>4. ConnectionsTyped
      BY <1>1, <1>2, <1>3 DEF ConnectionsTyped, ConnectionRows
<1>5. OnlyItsParts /\ \A w \in Writers : mutation[w].at = "none"
      BY <1>1, <1>3, RunningFacts DEF OnlyItsParts
<1>6. \A c \in Connections : PromiseKept(c)
      BY <1>1, <1>2, <1>3 DEF PromiseKept
<1> QED
    BY <1>4, <1>5, <1>6 DEF ConnectionInv

LEMMA ConnectionInvStep ==
    ASSUME OneWriter, ConnectionInv, [ConnectionNext]_connectionVars
    PROVE  ConnectionInv'
<1>1. ASSUME NEW w \in Writers, NEW c \in Connections, NEW row \in Configs,
             NEW key \in Credentials \cup {Nothing}, NEW session \in Credentials \cup {Nothing},
             AddConnection(w, c, row, key, session) \/ UpdateConnection(w, c, row, key, session)
      PROVE  ConnectionInv'
  <2> DEFINE given == Given(c, key, session)
  <2>1. given \in Writes /\ DOMAIN given \subseteq PartsOf(c) /\ \A p \in DOMAIN given : given[p] # Nothing
        BY GivenFacts DEF Values
  <2>2. row \in ConnectionRows /\ row # Nothing
        BY ConnectionAssumption DEF ConnectionRows
  <2>3. CASE AddConnection(w, c, row, key, session)
    <3>1. Begins(w, "add", c, row, given) /\ DOMAIN given # {} /\ providers[c] = Nothing
          BY <2>3 DEF AddConnection
    <3> HIDE DEF given
    <3> QED
        BY <2>1, <2>2, <3>1, BeginKeeps
  <2>4. CASE UpdateConnection(w, c, row, key, session)
    <3>1. Begins(w, "update", c, row, given) /\ providers[c] # Nothing
          BY <2>4 DEF UpdateConnection
    <3> HIDE DEF given
    <3> QED
        BY <2>1, <2>2, <3>1, BeginKeeps
  <2> QED
      BY <1>1, <2>3, <2>4
<1>2. ASSUME NEW w \in Writers, NEW c \in Connections, RemoveConnection(w, c)
      PROVE  ConnectionInv'
  <2> DEFINE writes == [p \in PartsOf(c) |-> Nothing]
  <2>1. /\ DOMAIN writes = PartsOf(c) /\ \A p \in DOMAIN writes : writes[p] = Nothing
        /\ writes \in [PartsOf(c) -> Values]
        BY DEF Values
  <2>2. Begins(w, "remove", c, Nothing, writes)
        BY <1>2 DEF RemoveConnection
  <2> HIDE DEF writes
  <2>3. writes \in Writes /\ Nothing \in ConnectionRows
        BY <2>1, PartFacts, WritesFacts DEF ConnectionRows
  <2> QED
      BY <2>1, <2>2, <2>3, BeginKeeps
<1>3. CASE UNCHANGED connectionVars
      BY <1>3 DEF connectionVars, ConnectionInv, ConnectionsTyped, OnlyItsParts, PromiseKept, Runs
<1> QED
    BY <1>1, <1>2, <1>3, WriteKeeps, WriteFailsKeeps, SaveKeeps, SaveFailsKeeps, UndoKeeps,
       RestoreKeeps, KillKeeps DEF ConnectionNext

LEMMA ConnectionInvPromises == ConnectionInv => ConnectionsAsPromised
<1> SUFFICES ASSUME ConnectionInv, NEW c \in Connections, promised[c] # Nothing,
                    \A w \in Writers : mutation[w].at # "none" => mutation[w].connection # c
             PROVE  AsPromised(c) /\ (providers[c] # Nothing => HasSecret(c))
    BY DEF ConnectionsAsPromised
<1>1. secrets[c] = promised[c].secrets
      BY Quiet DEF Held
<1>2. /\ providers[c] = promised[c].row
      /\ promised[c].row # Nothing => \E p \in PartsOf(c) : promised[c].secrets[p] # Nothing
      BY DEF ConnectionInv, PromiseKept
<1>3. promised[c] \in Promise
      BY DEF ConnectionInv, ConnectionsTyped
<1>4. promised[c] = [row |-> promised[c].row, secrets |-> promised[c].secrets]
      BY <1>3 DEF Promise
<1> QED
    BY <1>1, <1>2, <1>4 DEF AsPromised, HasSecret

\* With one writer, whatever the keychain and the file refuse and wherever the
\* app ends a mutation, a connection nobody is working on is what the last
\* mutation of it that answered ok made it (ui.ProviderController).
THEOREM ConnectionsKept ==
    ASSUME OneWriter
    PROVE  ConnectionSpec => []ConnectionsAsPromised
<1>1. ConnectionInit => ConnectionInv
      BY ConnectionInvInit
<1>2. ConnectionInv /\ [ConnectionNext]_connectionVars => ConnectionInv'
      BY ConnectionInvStep
<1>3. ConnectionInv => ConnectionsAsPromised
      BY ConnectionInvPromises
<1> QED
    BY <1>1, <1>2, <1>3, PTL DEF ConnectionSpec

-----------------------------------------------------------------------------
\* However many writers there are, a mutation writes entries of its connection,
\* and while it writes or undoes there is one left.
Sound(m) ==
    /\ m.todo \subseteq DOMAIN m.writes /\ DOMAIN m.writes \subseteq PartsOf(m.connection)
    /\ m.at \in {"writing", "undoing"} => m.todo # {}

ConnectionShape ==
    /\ ConnectionsTyped
    /\ OnlyItsParts
    /\ \A w \in Writers : mutation[w].at # "none" => Sound(mutation[w])

\* A mutation that runs has a connection, entries and credentials for them.
LEMMA SoundFacts ==
    ASSUME ConnectionShape, NEW w \in Writers, mutation[w].at # "none"
    PROVE  LET m == mutation[w] IN
           /\ m \in RunningMutation /\ Sound(m) /\ m.connection \in Connections
           /\ m.row \in ConnectionRows /\ m.loaded \in [Connections -> ConnectionRows]
           /\ DOMAIN m.writes \in SUBSET Parts /\ m.todo \in SUBSET Parts
           /\ \A p \in DOMAIN m.writes : m.writes[p] \in Values
           /\ \A p \in Parts : m.previous[p] \in Values /\ UndoValue(w, p) \in Values
           /\ Undone(w) \subseteq DOMAIN m.writes
<1> DEFINE m == mutation[w]
<1>1. m \in RunningMutation /\ Sound(m)
    BY RunningFacts DEF ConnectionShape, ConnectionsTyped
<1>2. m.writes \in Writes /\ m.previous \in Entries BY <1>1 DEF RunningMutation
<1>3. DOMAIN m.writes \in SUBSET Parts /\ \A p \in DOMAIN m.writes : m.writes[p] \in Values
    BY <1>2, WritesFacts
<1>4. \A p \in Parts : m.previous[p] \in Values BY <1>2 DEF Entries
<1>5. \A p \in Parts : UndoValue(w, p) \in Values BY <1>4 DEF UndoValue, Values
<1>6. Undone(w) \subseteq DOMAIN m.writes BY DEF Undone
<1> QED BY <1>1, <1>3, <1>4, <1>5, <1>6 DEF RunningMutation

\* One entry of the connection is written.
LEMMA PutShape ==
    ASSUME ConnectionShape, NEW w \in Writers, mutation[w].at # "none",
           NEW p \in DOMAIN mutation[w].writes, NEW value \in Values, Put(w, p, value)
    PROVE  (secrets \in [Connections -> Entries])' /\ OnlyItsParts'
<1> DEFINE m == mutation[w]
<1>1. /\ m \in RunningMutation /\ p \in Parts /\ p \in PartsOf(m.connection) /\ ConnectionsTyped
    BY SoundFacts DEF Sound, ConnectionShape
<1>2. /\ secrets' \in [Connections -> Entries]
      /\ \A d \in Connections, q \in Parts :
           secrets'[d][q] = IF d = m.connection /\ q = p THEN value ELSE secrets[d][q]
    BY <1>1, PutFacts
<1>3. OnlyItsParts' BY <1>1, <1>2 DEF ConnectionShape, OnlyItsParts
<1> QED BY <1>2, <1>3

\* A step of one mutation keeps the shape if what it leaves has it.
LEMMA MutationShape ==
    ASSUME ConnectionShape, NEW w \in Writers, NEW n \in RunningMutation \cup {NoMutation},
           mutation' = [mutation EXCEPT ![w] = n], n \in RunningMutation => Sound(n),
           (providers \in [Connections -> ConnectionRows])', (secrets \in [Connections -> Entries])',
           (promised \in [Connections -> Promise \cup {Nothing}])', OnlyItsParts'
    PROVE  ConnectionShape'
<1>1. /\ mutation' \in [Writers -> RunningMutation \cup {NoMutation}]
      /\ \A v \in Writers : mutation'[v] = IF v = w THEN n ELSE mutation[v]
    BY DEF ConnectionShape, ConnectionsTyped
<1>2. \A v \in Writers : mutation'[v].at # "none" => Sound(mutation'[v])
    BY <1>1, RunningFacts DEF ConnectionShape
<1> QED BY <1>1, <1>2 DEF ConnectionShape, ConnectionsTyped

\* A mutation ends.
LEMMA EndShape ==
    ASSUME ConnectionShape, NEW w \in Writers, Ends(w),
           (providers \in [Connections -> ConnectionRows])', (secrets \in [Connections -> Entries])',
           (promised \in [Connections -> Promise \cup {Nothing}])', OnlyItsParts'
    PROVE  ConnectionShape'
<1>1. NoMutation \notin RunningMutation BY RunningFacts
<1> QED BY <1>1, MutationShape DEF Ends

\* A mutation has something left to undo, or not.
LEMMA UndoShape ==
    ASSUME ConnectionShape, NEW w \in Writers, mutation[w].at # "none", NEW todo, Undoes(w, todo),
           todo \subseteq DOMAIN mutation[w].writes,
           (providers \in [Connections -> ConnectionRows])', (secrets \in [Connections -> Entries])',
           (promised \in [Connections -> Promise \cup {Nothing}])', OnlyItsParts'
    PROVE  ConnectionShape'
<1> DEFINE m == mutation[w]
<1>1. m \in RunningMutation /\ Sound(m) /\ todo \in SUBSET Parts /\ ConnectionsTyped
    BY SoundFacts DEF ConnectionShape
<1>2. PICK n \in RunningMutation \cup {NoMutation} :
              /\ mutation' = [mutation EXCEPT ![w] = n]
              /\ mutation'[w] = n
              /\ todo # {} => n \in RunningMutation /\ n.at = "undoing" /\ n.todo = todo
              /\ todo = {} => n = NoMutation
                    \/ (n \in RunningMutation /\ n.at = "restoring" /\ n.todo = m.todo)
              /\ n \in RunningMutation => SameRequest(n, m)
    BY <1>1, UndoesFacts
<1>3. n \in RunningMutation => Sound(n)
    BY <1>1, <1>2, RunningFacts DEF Sound, SameRequest
<1> QED BY <1>2, <1>3, MutationShape

\* A mutation begins.
LEMMA BeginShape ==
    ASSUME ConnectionShape, NEW w \in Writers, NEW verb \in {"add", "update", "remove"},
           NEW c \in Connections, NEW row \in ConnectionRows, NEW writes \in Writes,
           Begins(w, verb, c, row, writes), DOMAIN writes \subseteq PartsOf(c)
    PROVE  ConnectionShape'
<1> DEFINE n == [at |-> IF DOMAIN writes = {} THEN "saving" ELSE "writing", verb |-> verb,
                 connection |-> c, row |-> row, loaded |-> providers, previous |-> secrets[c],
                 writes |-> writes, todo |-> DOMAIN writes]
<1>1. ConnectionsTyped /\ DOMAIN writes \in SUBSET Parts BY WritesFacts DEF ConnectionShape
<1>2. n \in RunningMutation BY <1>1 DEF RunningMutation, ConnectionsTyped
<1>3. Sound(n) BY DEF Sound
<1>4. mutation' = [mutation EXCEPT ![w] = n] /\ UNCHANGED <<providers, secrets, promised>>
    BY DEF Begins
<1> HIDE DEF n
<1>5. OnlyItsParts' BY <1>4 DEF ConnectionShape, OnlyItsParts
<1> QED BY <1>1, <1>2, <1>3, <1>4, <1>5, MutationShape DEF ConnectionsTyped

\* What a saved mutation promises.
LEMMA OutcomeTyped ==
    ASSUME ConnectionShape, NEW w \in Writers, mutation[w].at # "none"
    PROVE  Outcome(w) \in Promise \cup {Nothing}
<1> DEFINE m == mutation[w]
           c == m.connection
           before == promised[c]
           entries == [p \in Parts |-> IF p \in DOMAIN m.writes THEN m.writes[p]
                                       ELSE IF p \in PartsOf(c) THEN before.secrets[p]
                                       ELSE Nothing]
<1>1. /\ m \in RunningMutation /\ c \in Connections /\ m.row \in ConnectionRows
      /\ DOMAIN m.writes \subseteq PartsOf(c)
      /\ \A p \in DOMAIN m.writes : m.writes[p] \in Values
    BY SoundFacts DEF Sound
<1>2. before \in Promise \cup {Nothing} BY <1>1 DEF ConnectionShape, ConnectionsTyped
<1>3. CASE before = Nothing /\ DOMAIN m.writes # PartsOf(c) BY <1>3 DEF Outcome
<1>4. CASE ~(before = Nothing /\ DOMAIN m.writes # PartsOf(c))
    <2>1. ASSUME NEW p \in Parts PROVE entries[p] \in Values
        <3>1. CASE p \in DOMAIN m.writes BY <1>1, <3>1
        <3>2. CASE p \notin DOMAIN m.writes /\ p \in PartsOf(c)
            <4>1. before \in Promise BY <1>1, <1>2, <1>4, <3>2
            <4> QED BY <3>2, <4>1 DEF Promise, Entries
        <3>3. CASE p \notin DOMAIN m.writes /\ p \notin PartsOf(c)
            BY <3>3 DEF Values
        <3> QED BY <3>1, <3>2, <3>3
    <2>2. entries \in Entries BY <2>1 DEF Entries
    <2>3. Outcome(w) = [row |-> m.row, secrets |-> entries] BY <1>4 DEF Outcome
    <2> HIDE DEF entries
    <2> QED BY <1>1, <2>2, <2>3 DEF Promise
<1> QED BY <1>3, <1>4

\* Every step keeps the shape.
LEMMA ConnectionShapeHolds == ConnectionShape /\ [ConnectionNext]_connectionVars => ConnectionShape'
<1> SUFFICES ASSUME ConnectionShape, [ConnectionNext]_connectionVars PROVE ConnectionShape' OBVIOUS
<1>1. CASE UNCHANGED connectionVars
    BY <1>1 DEF connectionVars, ConnectionShape, ConnectionsTyped, OnlyItsParts, Sound
<1>2. ASSUME NEW w \in Writers, NEW c \in Connections, NEW row \in Configs,
             NEW key \in Credentials \cup {Nothing}, NEW session \in Credentials \cup {Nothing},
             AddConnection(w, c, row, key, session) \/ UpdateConnection(w, c, row, key, session)
      PROVE  ConnectionShape'
    <2> DEFINE given == Given(c, key, session)
    <2>1. given \in Writes /\ DOMAIN given \subseteq PartsOf(c) BY GivenFacts DEF Values
    <2>2. row \in ConnectionRows BY DEF ConnectionRows
    <2>3. Begins(w, "add", c, row, given) \/ Begins(w, "update", c, row, given)
        BY <1>2 DEF AddConnection, UpdateConnection
    <2> HIDE DEF given
    <2> QED BY <2>1, <2>2, <2>3, BeginShape
<1>3. ASSUME NEW w \in Writers, NEW c \in Connections, RemoveConnection(w, c)
      PROVE  ConnectionShape'
    <2> DEFINE writes == [p \in PartsOf(c) |-> Nothing]
    <2>1. DOMAIN writes = PartsOf(c) /\ writes \in [PartsOf(c) -> Values] BY DEF Values
    <2>2. Begins(w, "remove", c, Nothing, writes) BY <1>3 DEF RemoveConnection
    <2> HIDE DEF writes
    <2>3. writes \in Writes /\ Nothing \in ConnectionRows BY <2>1, PartFacts, WritesFacts DEF ConnectionRows
    <2> QED BY <2>1, <2>2, <2>3, BeginShape
<1>4. ConnectionsTyped /\ OnlyItsParts BY DEF ConnectionShape
<1>5. ASSUME NEW w \in Writers, mutation[w].at \in {"writing", "undoing"}
      PROVE  First(mutation[w].todo) \in mutation[w].todo /\ First(mutation[w].todo) \in DOMAIN mutation[w].writes
    BY <1>5, SoundFacts, PartFacts DEF Sound
<1>6. ASSUME NEW c \in Connections, BreaksPromise(c)
      PROVE  (promised \in [Connections -> Promise \cup {Nothing}])'
    BY <1>4, <1>6 DEF BreaksPromise, ConnectionsTyped
<1>7. UNCHANGED secrets => (secrets \in [Connections -> Entries])' /\ OnlyItsParts'
    BY <1>4 DEF ConnectionsTyped, OnlyItsParts
<1>8. /\ UNCHANGED providers => (providers \in [Connections -> ConnectionRows])'
      /\ UNCHANGED promised => (promised \in [Connections -> Promise \cup {Nothing}])'
    BY <1>4 DEF ConnectionsTyped
<1>9. ASSUME NEW w \in Writers, WriteSecret(w)
      PROVE  ConnectionShape'
    <2> DEFINE m == mutation[w]
               p == First(m.todo)
               n == [m EXCEPT !.todo = @ \ {p}, !.at = IF m.todo = {p} THEN "saving" ELSE @]
    <2>1. m.at = "writing" /\ Put(w, p, m.writes[p]) /\ mutation' = [mutation EXCEPT ![w] = n]
          /\ UNCHANGED <<providers, promised>>
        BY <1>9 DEF WriteSecret
    <2>2. m \in RunningMutation /\ Sound(m) /\ p \in m.todo /\ p \in DOMAIN m.writes /\ m.writes[p] \in Values
        BY <1>5, <2>1, SoundFacts
    <2>3. n \in RunningMutation /\ Sound(n)
        BY <2>1, <2>2 DEF RunningMutation, Sound
    <2> HIDE DEF n, p
    <2>4. (secrets \in [Connections -> Entries])' /\ OnlyItsParts'
        BY <2>1, <2>2, PutShape
    <2> QED BY <1>8, <2>1, <2>3, <2>4, MutationShape
<1>10. ASSUME NEW w \in Writers, WriteSecretFails(w)
       PROVE  ConnectionShape'
    <2> DEFINE m == mutation[w]
               p == First(m.todo)
    <2>1. m.at = "writing" /\ UNCHANGED providers /\ (Undoes(w, Undone(w)) \/ Ends(w))
        BY <1>10 DEF WriteSecretFails
    <2>2. /\ UNCHANGED secrets \/ Put(w, p, m.writes[p])
          /\ UNCHANGED promised \/ BreaksPromise(m.connection)
        BY <1>10 DEF WriteSecretFails
    <2>3. /\ p \in DOMAIN m.writes /\ m.writes[p] \in Values /\ m.connection \in Connections
          /\ Undone(w) \subseteq DOMAIN m.writes
        BY <1>5, <2>1, SoundFacts
    <2> HIDE DEF p
    <2>4. (secrets \in [Connections -> Entries])' /\ OnlyItsParts'
        BY <1>7, <2>1, <2>2, <2>3, PutShape
    <2>5. (promised \in [Connections -> Promise \cup {Nothing}])' BY <1>6, <1>8, <2>2, <2>3
    <2>6. (providers \in [Connections -> ConnectionRows])' BY <1>8, <2>1
    <2> QED BY <2>1, <2>3, <2>4, <2>5, <2>6, EndShape, UndoShape
<1>11. ASSUME NEW w \in Writers, SaveProviders(w)
       PROVE  ConnectionShape'
    <2>1. mutation[w].at = "saving" /\ Ends(w) /\ UNCHANGED secrets BY <1>11 DEF SaveProviders
    <2>2. /\ mutation[w].row \in ConnectionRows /\ mutation[w].loaded \in [Connections -> ConnectionRows]
          /\ mutation[w].connection \in Connections
        BY <2>1, SoundFacts
    <2>3. (providers \in [Connections -> ConnectionRows])' BY <1>11, <2>2 DEF SaveProviders
    <2>4. Outcome(w) \in Promise \cup {Nothing} BY <2>1, OutcomeTyped
    <2>5. (promised \in [Connections -> Promise \cup {Nothing}])'
        BY <1>4, <1>11, <2>2, <2>4 DEF SaveProviders, ConnectionsTyped
    <2> QED BY <1>7, <2>1, <2>3, <2>5, EndShape
<1>12. ASSUME NEW w \in Writers, SaveProvidersFails(w)
       PROVE  ConnectionShape'
    <2>1. mutation[w].at = "saving" /\ Undoes(w, Undone(w)) /\ UNCHANGED <<providers, secrets, promised>>
        BY <1>12 DEF SaveProvidersFails
    <2>2. Undone(w) \subseteq DOMAIN mutation[w].writes BY <2>1, SoundFacts
    <2> QED BY <1>7, <1>8, <2>1, <2>2, UndoShape
<1>13. ASSUME NEW w \in Writers, UndoSecret(w)
       PROVE  ConnectionShape'
    <2> DEFINE m == mutation[w]
               p == First(m.todo)
               value == UndoValue(w, p)
    <2>1. m.at = "undoing" /\ Undoes(w, m.todo \ {p}) /\ UNCHANGED providers
        BY <1>13 DEF UndoSecret
    <2>2. /\ UNCHANGED secrets \/ Put(w, p, value)
          /\ UNCHANGED promised \/ BreaksPromise(m.connection)
        BY <1>13 DEF UndoSecret
    <2>3. /\ p \in DOMAIN m.writes /\ value \in Values /\ m.connection \in Connections
          /\ m.todo \ {p} \subseteq DOMAIN m.writes
        BY <1>5, <2>1, SoundFacts DEF Sound
    <2> HIDE DEF p, value
    <2>4. (secrets \in [Connections -> Entries])' /\ OnlyItsParts'
        BY <1>7, <2>1, <2>2, <2>3, PutShape
    <2>5. (promised \in [Connections -> Promise \cup {Nothing}])' BY <1>6, <1>8, <2>2, <2>3
    <2> QED BY <1>8, <2>1, <2>3, <2>4, <2>5, UndoShape
<1>14. ASSUME NEW w \in Writers, RestoreProviders(w)
       PROVE  ConnectionShape'
    <2>1. /\ mutation[w].at = "restoring" /\ providers' \in {mutation[w].loaded, providers}
          /\ Ends(w) /\ UNCHANGED <<secrets, promised>>
        BY <1>14 DEF RestoreProviders
    <2>2. (providers \in [Connections -> ConnectionRows])'
        BY <1>4, <2>1, SoundFacts DEF ConnectionsTyped
    <2> QED BY <1>7, <1>8, <2>1, <2>2, EndShape
<1>15. ASSUME NEW w \in Writers, MutationKilled(w)
       PROVE  ConnectionShape'
    <2>1. /\ mutation[w].at # "none" /\ Ends(w) /\ UNCHANGED <<providers, secrets>>
          /\ UNCHANGED promised \/ BreaksPromise(mutation[w].connection)
        BY <1>15 DEF MutationKilled
    <2>2. (promised \in [Connections -> Promise \cup {Nothing}])' BY <1>6, <1>8, <2>1, SoundFacts
    <2> QED BY <1>7, <1>8, <2>1, <2>2, EndShape
<1> QED
    BY <1>1, <1>2, <1>3, <1>9, <1>10, <1>11, <1>12, <1>13, <1>14, <1>15 DEF ConnectionNext

\* The shape holds in the beginning, and is what the type invariant says.
LEMMA ConnectionShapeBegins == ConnectionInit => ConnectionShape
<1> SUFFICES ASSUME ConnectionInit PROVE ConnectionShape OBVIOUS
<1>1. ConnectionInv BY ConnectionInvInit
<1>2. \A w \in Writers : mutation[w].at = "none" BY RunningFacts DEF ConnectionInit
<1> QED BY <1>1, <1>2 DEF ConnectionInv, ConnectionShape

LEMMA ConnectionShapeTypes == ConnectionShape => ConnectionTypeOK
<1> SUFFICES ASSUME ConnectionShape PROVE ConnectionTypeOK OBVIOUS
<1>1. providers \in [Connections -> Configs \cup {Nothing}]
    BY DEF ConnectionShape, ConnectionsTyped, ConnectionRows
<1>2. ASSUME NEW c \in Connections
      PROVE  /\ DOMAIN secrets[c] = Parts
             /\ \A p \in DOMAIN secrets[c] : secrets[c][p] \in Credentials \cup {Nothing}
                                             /\ (secrets[c][p] # Nothing => p \in PartsOf(c))
    BY DEF ConnectionShape, ConnectionsTyped, OnlyItsParts, Entries, Values
<1>3. \A w \in Writers : mutation[w].at \in {"none", "writing", "saving", "undoing", "restoring"}
    BY DEF ConnectionShape, ConnectionsTyped, RunningMutation, NoMutation
<1> QED BY <1>1, <1>2, <1>3 DEF ConnectionTypeOK

\* For any number of writers, whatever they interrupt of each other, rows stay
\* configurations and entries credentials of the connection.
THEOREM ConnectionsStayTyped == ConnectionSpec => []ConnectionTypeOK
BY ConnectionShapeBegins, ConnectionShapeHolds, ConnectionShapeTypes, PTL DEF ConnectionSpec

-----------------------------------------------------------------------------
(* The telemetry: what was recorded is in the table and what was dropped is *)
(* behind the mark, unless it was forgotten or is too old to be asked for. *)

\* Marks of the window.
Marks == [at : Nat, generation : Nat]

\* Where requests, queries and clears may be.
Recording == {"running", "finished", "locked", "writing", "recorded", "failed", "dropped"}
Asking == {"idle", "reading", "read", "unknown", "rate", "raised"}
Clearing == {"idle", "deleting", "deleted", "cleared", "raised"}

\* The requests there may be.
Moved == [Requests -> [at : Recording, handle : Handles \cup {Nobody},
                       finished : Nat \cup {Nobody}]]

\* The types the steps need of each other.
TelemetryTyped ==
    /\ clock \in Nat /\ generation \in Nat
    /\ aggregates \subseteq Requests
    /\ latest \in Marks \cup {Nobody}
    /\ request \in Moved
    /\ query \in [Queries -> [at : Asking, handle : Handles \cup {Nobody},
                              from : Nat \cup {Nobody},
                              counted : SUBSET Requests, seen : SUBSET Requests]]
    /\ clear \in [Clears -> [at : Clearing, handle : Handles \cup {Nobody},
                             through : Nat \cup {Nobody}, seen : SUBSET Requests]]

\* A request that is over was over at a time.
FinishedInTime ==
    \A r \in Requests : request[r].at # "running" => FinishedAt(r) \in Nat

\* A request that was recorded is in the table, or forgotten, or too old for it.
RecordedIsThere ==
    \A r \in Requests : request[r].at = "recorded" =>
        r \in aggregates \/ r \in forgotten \/ FinishedAt(r) < clock - RetainedFor

\* A request that was dropped is behind the mark, or forgotten, or too old for it.
DroppedIsMarked ==
    \A r \in Requests : request[r].at = "dropped" =>
        \/ latest # Nobody /\ latest.at >= FinishedAt(r)
        \/ r \in forgotten
        \/ FinishedAt(r) < clock - MaxWindow

\* The mark is the last one made, and a clear tells those made since it began.
MarksAreCounted ==
    /\ latest # Nobody => latest.generation = generation
    /\ \A c \in Clears : clear[c].at \in {"deleting", "deleted"} =>
        /\ clear[c].through \in Nat /\ clear[c].through <= generation
        /\ \A r \in Requests : request[r].at = "dropped" /\ r \notin clear[c].seen =>
              clear[c].through < generation

\* A query does not outlast the marks it needs, and has counted what it saw.
QueriesSee ==
    \A q \in Queries : query[q].at \in {"reading", "read"} =>
        /\ query[q].from \in Nat /\ query[q].from <= clock
        /\ clock <= query[q].from + MaxWindow - Window
        /\ query[q].seen \subseteq Ended
        /\ query[q].at = "read" =>
            \A r \in Requests : r \in query[q].seen /\ request[r].at = "recorded"
                                /\ Inside(r, query[q].from) =>
                r \in query[q].counted \/ r \in forgotten

\* The inductive invariant.
TelemetryInv ==
    /\ TelemetryTyped /\ FinishedInTime /\ RecordedIsThere /\ DroppedIsMarked
    /\ MarksAreCounted /\ QueriesSee

\* The constants are numbers, and nobody is no mark.
LEMMA TelemetryConstants ==
    /\ Window \in Nat /\ MaxWindow \in Nat /\ RetainedFor \in Nat
    /\ Window <= MaxWindow /\ MaxWindow <= RetainedFor
    /\ Nobody \notin Marks
BY TelemetryAssumption DEF Marks

\* Where a request goes, the others stay, and it ended when it ended.
LEMMA RequestMoves ==
    ASSUME TelemetryTyped, NEW r \in Requests, NEW to \in Recording, MoveTo(r, to)
    PROVE  /\ request' \in Moved
           /\ request'[r].at = to
           /\ \A o \in Requests \ {r} : request'[o] = request[o]
           /\ \A o \in Requests : request'[o].finished = request[o].finished
BY DEF TelemetryTyped, MoveTo, Moved

\* What a query has seen stays seen while requests go on and others clear.
LEMMA SeenStaysSeen ==
    ASSUME TelemetryInv, UNCHANGED <<clock, query>>, forgotten \subseteq forgotten',
           \A r \in Ended : request'[r].at = request[r].at
                            /\ request'[r].finished = request[r].finished
    PROVE  QueriesSee'
<1>1. Ended \subseteq Ended' BY DEF Ended
<1>2. ASSUME NEW q \in Queries, query[q].at \in {"reading", "read"}
      PROVE  /\ query[q].from \in Nat /\ query[q].from <= clock
             /\ clock <= query[q].from + MaxWindow - Window
             /\ query[q].seen \subseteq Ended
             /\ query[q].at = "read" =>
                 \A r \in Requests : r \in query[q].seen /\ request[r].at = "recorded"
                                     /\ Inside(r, query[q].from) =>
                     r \in query[q].counted \/ r \in forgotten
    BY <1>2 DEF TelemetryInv, QueriesSee
<1>3. ASSUME NEW q \in Queries, query[q].at \in {"reading", "read"},
             NEW r \in Requests, r \in query[q].seen, request'[r].at = "recorded"
      PROVE  request[r].at = "recorded" /\ (Inside(r, query[q].from) <=> Inside(r, query[q].from)')
    <2>1. r \in Ended BY <1>2, <1>3
    <2> QED BY <1>3, <2>1 DEF Inside, FinishedAt
<1> QED BY <1>1, <1>2, <1>3 DEF QueriesSee

\* On the way to its end a request changes nothing but its place.
LEMMA OnTheWay ==
    ASSUME TelemetryInv, NEW r \in Requests, NEW to \in {"locked", "failed", "writing"},
           request[r].at \in {"finished", "locked"}, MoveTo(r, to),
           UNCHANGED <<clock, aggregates, latest, generation, query, clear, forgotten>>
    PROVE  TelemetryInv'
<1>1. TelemetryTyped /\ to \in Recording BY DEF TelemetryInv, Recording
<1>2. /\ request' \in Moved /\ request'[r].at = to
      /\ \A o \in Requests \ {r} : request'[o] = request[o]
      /\ \A o \in Requests : request'[o].finished = request[o].finished
    BY <1>1, RequestMoves DEF Recording
<1>3. TelemetryTyped' BY <1>1, <1>2 DEF TelemetryTyped, Moved
<1>4. FinishedInTime' BY <1>2 DEF TelemetryInv, FinishedInTime, FinishedAt
<1>5. RecordedIsThere' /\ DroppedIsMarked'
    BY <1>2 DEF TelemetryInv, RecordedIsThere, DroppedIsMarked, FinishedAt
<1>6. MarksAreCounted' BY <1>2 DEF TelemetryInv, MarksAreCounted
<1>7. QueriesSee' BY <1>2, SeenStaysSeen DEF Ended
<1> QED BY <1>3, <1>4, <1>5, <1>6, <1>7 DEF TelemetryInv

\* The request is over.
LEMMA FinishStepT ==
    ASSUME TelemetryInv, NEW r \in Requests, NEW h \in Handles, FinishRequest(r, h)
    PROVE  TelemetryInv'
<1> DEFINE new == [at |-> "finished", handle |-> h, finished |-> clock]
<1>1. TelemetryTyped /\ request[r].at = "running" BY DEF TelemetryInv, FinishRequest
<1>2. /\ request' \in Moved /\ request'[r].at = "finished" /\ request'[r].finished = clock
      /\ \A o \in Requests \ {r} : request'[o] = request[o]
    BY <1>1 DEF TelemetryTyped, Moved, FinishRequest, Recording
<1>3. UNCHANGED <<clock, aggregates, latest, generation, query, clear, forgotten>>
    BY DEF FinishRequest
<1>4. TelemetryTyped' BY <1>1, <1>2, <1>3 DEF TelemetryTyped, Moved
<1>5. FinishedInTime' BY <1>1, <1>2 DEF TelemetryInv, FinishedInTime, FinishedAt, TelemetryTyped
<1>6. RecordedIsThere' /\ DroppedIsMarked'
    BY <1>2, <1>3 DEF TelemetryInv, RecordedIsThere, DroppedIsMarked, FinishedAt
<1>7. MarksAreCounted' BY <1>2, <1>3 DEF TelemetryInv, MarksAreCounted
<1>8. QueriesSee' BY <1>1, <1>2, <1>3, SeenStaysSeen DEF Ended
<1> QED BY <1>4, <1>5, <1>6, <1>7, <1>8 DEF TelemetryInv

\* A row is written, or not.
LEMMA WriteStep ==
    ASSUME TelemetryInv, NEW r \in Requests, RecordRequest(r) \/ RecordFails(r)
    PROVE  TelemetryInv'
<1>1. TelemetryTyped /\ request[r].at = "writing" BY DEF TelemetryInv, RecordRequest, RecordFails, EndWrite
<1>2. PICK to \in {"recorded", "failed"} :
        /\ MoveTo(r, to) /\ aggregates' \in {aggregates, Retain(aggregates \cup {r})}
        /\ to = "recorded" => aggregates' = Retain(aggregates \cup {r})
    BY DEF RecordRequest, RecordFails
<1>3. UNCHANGED <<clock, latest, generation, query, clear, forgotten>>
    BY DEF RecordRequest, RecordFails, EndWrite
<1>4. /\ request' \in Moved /\ request'[r].at = to
      /\ \A o \in Requests \ {r} : request'[o] = request[o]
      /\ \A o \in Requests : request'[o].finished = request[o].finished
    BY <1>1, <1>2, RequestMoves DEF Recording
<1>5. aggregates' \subseteq Requests BY <1>1, <1>2 DEF TelemetryTyped, Retain
<1>6. TelemetryTyped' BY <1>1, <1>3, <1>4, <1>5 DEF TelemetryTyped, Moved
<1>7. FinishedInTime' BY <1>1, <1>4 DEF TelemetryInv, FinishedInTime, FinishedAt
<1>8. RecordedIsThere'
    <2> SUFFICES ASSUME NEW o \in Requests, request'[o].at = "recorded"
                 PROVE  \/ o \in aggregates' \/ o \in forgotten
                        \/ request[o].finished < clock - RetainedFor
        BY <1>3, <1>4 DEF RecordedIsThere, FinishedAt
    <2>1. request[o].finished \in Nat /\ clock - RetainedFor \in Int
        BY <1>1, <1>4, TelemetryConstants DEF TelemetryInv, FinishedInTime, FinishedAt, TelemetryTyped
    <2>2. CASE o = r BY <1>2, <1>4, <2>1, <2>2 DEF Retain, FinishedAt
    <2>3. CASE o # r
        <3>1. o \in aggregates \/ o \in forgotten \/ request[o].finished < clock - RetainedFor
            BY <1>4, <2>3 DEF TelemetryInv, RecordedIsThere, FinishedAt
        <3> QED BY <1>2, <2>1, <3>1 DEF Retain, FinishedAt
    <2> QED BY <2>2, <2>3
<1>9. DroppedIsMarked' BY <1>3, <1>4 DEF TelemetryInv, DroppedIsMarked, FinishedAt
<1>10. MarksAreCounted' BY <1>3, <1>4 DEF TelemetryInv, MarksAreCounted
<1>11. QueriesSee' BY <1>1, <1>3, <1>4, SeenStaysSeen DEF Ended
<1> QED BY <1>6, <1>7, <1>8, <1>9, <1>10, <1>11 DEF TelemetryInv

\* What could not be written is marked.
LEMMA MarkStep ==
    ASSUME TelemetryInv, NEW r \in Requests, Mark(r)
    PROVE  TelemetryInv'
<1>1. TelemetryTyped /\ request[r].at = "failed" /\ MoveTo(r, "dropped")
    BY DEF TelemetryInv, Mark
<1>2. UNCHANGED <<clock, aggregates, query, clear, forgotten>> /\ generation' = generation + 1
    BY DEF Mark
<1>3. /\ request' \in Moved /\ request'[r].at = "dropped"
      /\ \A o \in Requests \ {r} : request'[o] = request[o]
      /\ \A o \in Requests : request'[o].finished = request[o].finished
    BY <1>1, RequestMoves DEF Recording
<1> DEFINE time == request[r].finished
<1>4. time \in Nat BY <1>1 DEF TelemetryInv, FinishedInTime, FinishedAt
<1>5. generation \in Nat BY <1>1 DEF TelemetryTyped
<1>6. /\ latest' \in Marks /\ latest' # Nobody /\ latest'.generation = generation'
      /\ latest'.at \in Nat /\ latest'.at >= time
      /\ latest # Nobody => latest.at \in Nat /\ latest'.at >= latest.at
    <2>1. latest # Nobody => latest.at \in Nat BY <1>1 DEF TelemetryTyped, Marks
    <2> DEFINE at == IF latest = Nobody \/ latest.at < time THEN time ELSE latest.at
    <2>2. latest' = [at |-> at, generation |-> generation + 1] BY DEF Mark, FinishedAt
    <2>3. at \in Nat /\ at >= time /\ (latest # Nobody => at >= latest.at) BY <1>4, <2>1
    <2> HIDE DEF at
    <2>4. latest' \in Marks BY <1>5, <2>2, <2>3 DEF Marks
    <2> QED BY <1>2, <2>1, <2>2, <2>3, <2>4, TelemetryConstants
<1>7. TelemetryTyped' BY <1>1, <1>2, <1>3, <1>5, <1>6 DEF TelemetryTyped, Moved
<1>8. FinishedInTime' BY <1>1, <1>3 DEF TelemetryInv, FinishedInTime, FinishedAt
<1>9. RecordedIsThere' BY <1>2, <1>3 DEF TelemetryInv, RecordedIsThere, FinishedAt
<1>10. DroppedIsMarked'
    <2> SUFFICES ASSUME NEW o \in Requests, request'[o].at = "dropped"
                 PROVE  \/ latest'.at >= request[o].finished
                        \/ o \in forgotten
                        \/ request[o].finished < clock - MaxWindow
        BY <1>2, <1>3, <1>6 DEF DroppedIsMarked, FinishedAt
    <2>1. CASE o = r BY <1>6, <2>1
    <2>2. CASE o # r
        <3>1. request[o].at = "dropped" /\ request[o].finished \in Nat
            BY <1>3, <2>2 DEF TelemetryInv, FinishedInTime, FinishedAt
        <3>2. \/ latest # Nobody /\ latest.at >= request[o].finished
              \/ o \in forgotten
              \/ request[o].finished < clock - MaxWindow
            BY <3>1 DEF TelemetryInv, DroppedIsMarked, FinishedAt
        <3> QED BY <1>6, <3>1, <3>2
    <2> QED BY <2>1, <2>2
<1>11. MarksAreCounted'
    <2>1. ASSUME NEW c \in Clears, clear[c].at \in {"deleting", "deleted"}
          PROVE  clear[c].through \in Nat /\ clear[c].through < generation'
        BY <1>2, <1>5, <2>1 DEF TelemetryInv, MarksAreCounted
    <2> QED BY <1>2, <1>5, <1>6, <2>1 DEF MarksAreCounted
<1>12. QueriesSee' BY <1>1, <1>2, <1>3, SeenStaysSeen DEF Ended
<1> QED BY <1>7, <1>8, <1>9, <1>10, <1>11, <1>12 DEF TelemetryInv

\* A look at the marks forgets only those no query can ask for.
LEMMA PruneKeeps ==
    ASSUME TelemetryInv, NEW from \in Nat, from <= clock, Prune(from),
           UNCHANGED <<clock, generation, request, clear, forgotten>>
    PROVE  latest' \in Marks \cup {Nobody} /\ DroppedIsMarked' /\ MarksAreCounted'
<1>1. latest' = (IF Outdated(from) THEN Nobody ELSE latest) BY DEF Prune
<1>2. latest \in Marks \cup {Nobody} /\ clock \in Nat /\ MaxWindow \in Nat
    BY TelemetryConstants DEF TelemetryInv, TelemetryTyped
<1>3. CASE ~Outdated(from)
    <2>1. latest' = latest BY <1>1, <1>3
    <2> QED BY <1>2, <2>1 DEF TelemetryInv, DroppedIsMarked, MarksAreCounted, FinishedAt
<1>4. CASE Outdated(from)
    <2>1. latest' = Nobody /\ latest # Nobody /\ latest.at < from - MaxWindow /\ latest.at \in Nat
        BY <1>1, <1>2, <1>4 DEF Outdated, Marks
    <2>2. ASSUME NEW r \in Requests, request[r].at = "dropped"
          PROVE  r \in forgotten \/ FinishedAt(r) < clock - MaxWindow
        <3>1. FinishedAt(r) \in Nat BY <2>2 DEF TelemetryInv, FinishedInTime
        <3>2. \/ latest.at >= FinishedAt(r) \/ r \in forgotten \/ FinishedAt(r) < clock - MaxWindow
            BY <2>2 DEF TelemetryInv, DroppedIsMarked
        <3> QED BY <1>2, <2>1, <3>1, <3>2
    <2>3. DroppedIsMarked' BY <2>2 DEF DroppedIsMarked, FinishedAt
    <2>4. MarksAreCounted' BY <2>1 DEF TelemetryInv, MarksAreCounted
    <2> QED BY <2>1, <2>3, <2>4
<1> QED BY <1>3, <1>4

\* What a query that goes on has seen.
Sees(x) ==
    x.at \in {"reading", "read"} =>
        /\ x.from \in Nat /\ x.from <= clock
        /\ clock <= x.from + MaxWindow - Window
        /\ x.seen \subseteq Ended
        /\ x.at = "read" =>
            \A r \in Requests : r \in x.seen /\ request[r].at = "recorded" /\ Inside(r, x.from) =>
                r \in x.counted \/ r \in forgotten

\* The queries there may be.
QueryStates == [at : Asking, handle : Handles \cup {Nobody}, from : Nat \cup {Nobody},
          counted : SUBSET Requests, seen : SUBSET Requests]

\* A step of one query keeps the invariant if the query keeps it.
LEMMA OneQuerySteps ==
    ASSUME TelemetryInv, NEW q \in Queries, NEW x \in QueryStates, Sees(x),
           query' = [query EXCEPT ![q] = x],
           UNCHANGED <<clock, aggregates, generation, request, clear, forgotten>>,
           latest' \in Marks \cup {Nobody}, DroppedIsMarked', MarksAreCounted'
    PROVE  TelemetryInv'
<1>1. TelemetryTyped BY DEF TelemetryInv
<1>2. query' \in [Queries -> QueryStates] /\ \A p \in Queries : query'[p] = IF p = q THEN x ELSE query[p]
    BY <1>1 DEF TelemetryTyped, QueryStates
<1>3. TelemetryTyped' BY <1>1, <1>2 DEF TelemetryTyped, QueryStates, Moved
<1>4. FinishedInTime' /\ RecordedIsThere'
    BY DEF TelemetryInv, FinishedInTime, RecordedIsThere, FinishedAt
<1>5. \A p \in Queries : Sees(query'[p]) BY <1>2 DEF TelemetryInv, QueriesSee, Sees
<1>6. QueriesSee' BY <1>5 DEF QueriesSee, Sees, Ended, Inside, FinishedAt
<1> QED BY <1>3, <1>4, <1>6 DEF TelemetryInv

\* A query begins.
LEMMA AskStepT ==
    ASSUME TelemetryInv, NEW q \in Queries, NEW h \in Handles, AskRate(q, h)
    PROVE  TelemetryInv'
<1>1. TelemetryTyped /\ query[q] \in QueryStates BY DEF TelemetryInv, TelemetryTyped, QueryStates
<1>2. UNCHANGED <<clock, aggregates, generation, request, clear, forgotten>> BY DEF AskRate
<1>3. CASE /\ Prune(clock) /\ Overlaps(clock)
           /\ QueryEnds(q, "unknown")
    <2> DEFINE x == [NoQuery EXCEPT !.at = "unknown"]
    <2>1. x \in QueryStates /\ x.at = "unknown" BY DEF QueryStates, Asking, NoQuery
    <2>2. query' = [query EXCEPT ![q] = x] BY <1>3 DEF QueryEnds
    <2>3. Sees(x) BY <2>1 DEF Sees
    <2>4. latest' \in Marks \cup {Nobody} /\ DroppedIsMarked' /\ MarksAreCounted'
        BY <1>1, <1>2, <1>3, PruneKeeps DEF TelemetryTyped
    <2> HIDE DEF x
    <2> QED BY <1>2, <2>1, <2>2, <2>3, <2>4, OneQuerySteps
<1>4. CASE /\ Prune(clock) /\ ~Overlaps(clock)
           /\ query' = [query EXCEPT ![q] = [at |-> "reading", handle |-> h, from |-> clock,
                                             counted |-> {}, seen |-> {}]]
    <2> DEFINE x == [at |-> "reading", handle |-> h, from |-> clock,
                     counted |-> {}, seen |-> {}]
    <2>1. x \in QueryStates BY <1>1 DEF QueryStates, Asking, TelemetryTyped, Ended
    <2>2. query' = [query EXCEPT ![q] = x] BY <1>4
    <2>3. Sees(x) BY <1>1, TelemetryConstants DEF Sees, TelemetryTyped
    <2>4. latest' \in Marks \cup {Nobody} /\ DroppedIsMarked' /\ MarksAreCounted'
        BY <1>1, <1>2, <1>4, PruneKeeps DEF TelemetryTyped
    <2> HIDE DEF x
    <2> QED BY <1>2, <2>1, <2>2, <2>3, <2>4, OneQuerySteps
<1>5. CASE QueryEnds(q, "raised") /\ UNCHANGED latest
    <2> DEFINE x == [NoQuery EXCEPT !.at = "raised"]
    <2>1. x \in QueryStates /\ x.at = "raised" BY DEF QueryStates, Asking, NoQuery
    <2>2. query' = [query EXCEPT ![q] = x] BY <1>5 DEF QueryEnds
    <2>3. Sees(x) BY <2>1 DEF Sees
    <2>4. latest' \in Marks \cup {Nobody} /\ DroppedIsMarked' /\ MarksAreCounted'
        BY <1>1, <1>2, <1>5
        DEF TelemetryInv, TelemetryTyped, DroppedIsMarked, MarksAreCounted, FinishedAt
    <2> HIDE DEF x
    <2> QED BY <1>2, <2>1, <2>2, <2>3, <2>4, OneQuerySteps
<1> QED BY <1>3, <1>4, <1>5 DEF AskRate

\* A query reads the rows: those of its window that it saw end are there.
LEMMA ReadStep ==
    ASSUME TelemetryInv, NEW q \in Queries, ReadRows(q)
    PROVE  TelemetryInv'
<1>1. TelemetryTyped /\ query[q] \in QueryStates /\ query[q].at = "reading"
    BY DEF TelemetryInv, TelemetryTyped, QueryStates, ReadRows
<1>2. UNCHANGED <<clock, aggregates, latest, generation, request, clear, forgotten>>
    BY DEF ReadRows
<1>3. latest' \in Marks \cup {Nobody} /\ DroppedIsMarked' /\ MarksAreCounted'
    BY <1>1, <1>2
    DEF TelemetryInv, TelemetryTyped, DroppedIsMarked, MarksAreCounted, FinishedAt
<1>4. Sees(query[q]) BY DEF TelemetryInv, QueriesSee, Sees
<1> DEFINE from == query[q].from
           matching == {r \in aggregates : Inside(r, from)}
<1>5. CASE query' = [query EXCEPT ![q].at = "read", ![q].counted = matching, ![q].seen = Ended]
    <2> DEFINE x == [query[q] EXCEPT !.at = "read", !.counted = matching, !.seen = Ended]
    <2>1. matching \subseteq Requests /\ Ended \subseteq Requests
        BY <1>1 DEF TelemetryTyped, Ended
    <2> HIDE DEF matching
    <2>2. /\ x \in QueryStates /\ x.at = "read" /\ x.counted = matching /\ x.from = from
          /\ x.seen = Ended
        BY <1>1, <2>1 DEF QueryStates, Asking
    <2>3. query' = [query EXCEPT ![q] = x] BY <1>1, <1>5 DEF TelemetryTyped, QueryStates
    <2> HIDE DEF x
    <2>4. from \in Nat /\ from <= clock /\ clock <= from + MaxWindow - Window
        BY <1>1, <1>4 DEF Sees
    <2>5. ASSUME NEW r \in Requests, r \in x.seen, request[r].at = "recorded", Inside(r, from)
          PROVE  r \in x.counted \/ r \in forgotten
        <3>1. FinishedAt(r) \in Nat /\ FinishedAt(r) >= from - Window
            BY <2>5 DEF TelemetryInv, FinishedInTime, Inside
        <3>2. r \in aggregates \/ r \in forgotten \/ FinishedAt(r) < clock - RetainedFor
            BY <2>5 DEF TelemetryInv, RecordedIsThere
        <3>3. ~(FinishedAt(r) < clock - RetainedFor)
            BY <1>1, <2>4, <3>1, TelemetryConstants DEF TelemetryTyped
        <3> QED BY <2>2, <2>5, <3>2, <3>3 DEF matching
    <2>6. Sees(x) BY <2>2, <2>4, <2>5 DEF Sees
    <2> QED BY <1>2, <1>3, <2>2, <2>3, <2>6, OneQuerySteps
<1>6. CASE QueryEnds(q, "raised")
    <2> DEFINE x == [NoQuery EXCEPT !.at = "raised"]
    <2>1. x \in QueryStates /\ x.at = "raised" BY DEF QueryStates, Asking, NoQuery
    <2>2. query' = [query EXCEPT ![q] = x] BY <1>6 DEF QueryEnds
    <2>3. Sees(x) BY <2>1 DEF Sees
    <2> HIDE DEF x
    <2> QED BY <1>2, <1>3, <2>1, <2>2, <2>3, OneQuerySteps
<1> QED BY <1>5, <1>6 DEF ReadRows

\* A query answers.
LEMMA AnswerStep ==
    ASSUME TelemetryInv, NEW q \in Queries, AnswerRate(q)
    PROVE  TelemetryInv'
<1>1. TelemetryTyped /\ query[q] \in QueryStates /\ query[q].at = "read"
    BY DEF TelemetryInv, TelemetryTyped, QueryStates, AnswerRate
<1>2. UNCHANGED <<clock, aggregates, generation, request, clear, forgotten>> BY DEF AnswerRate
<1>3. query[q].from \in Nat /\ query[q].from <= clock
    BY <1>1 DEF TelemetryInv, QueriesSee
<1>4. latest' \in Marks \cup {Nobody} /\ DroppedIsMarked' /\ MarksAreCounted'
    BY <1>2, <1>3, PruneKeeps DEF AnswerRate
<1>5. PICK to \in {"unknown", "rate"} : QueryEnds(q, to)
    BY DEF AnswerRate
<1> DEFINE x == [NoQuery EXCEPT !.at = to]
<1>6. x \in QueryStates /\ x.at = to BY DEF QueryStates, Asking, NoQuery
<1>7. query' = [query EXCEPT ![q] = x] BY <1>5 DEF QueryEnds
<1>8. Sees(x) BY <1>6 DEF Sees
<1> HIDE DEF x
<1> QED BY <1>2, <1>4, <1>6, <1>7, <1>8, OneQuerySteps

\* A record takes its locks, or fails.
LEMMA LockSteps ==
    ASSUME TelemetryInv, NEW r \in Requests, TryLock(r) \/ TakeWriter(r)
    PROVE  TelemetryInv'
<1>1. request[r].at \in {"finished", "locked"} BY DEF TryLock, TakeWriter
<1>2. UNCHANGED <<clock, aggregates, latest, generation, query, clear, forgotten>>
    BY DEF TryLock, TakeWriter
<1>3. PICK to \in {"locked", "failed", "writing"} : MoveTo(r, to) BY DEF TryLock, TakeWriter
<1> QED BY <1>1, <1>2, <1>3, OnTheWay

\* The clears there may be.
ClearStates == [at : Clearing, handle : Handles \cup {Nobody},
            through : Nat \cup {Nobody}, seen : SUBSET Requests]

\* What a clear that goes on knows of the marks.
Counts(x) ==
    x.at \in {"deleting", "deleted"} =>
        /\ x.through \in Nat /\ x.through <= generation
        /\ \A r \in Requests : request[r].at = "dropped" /\ r \notin x.seen => x.through < generation

\* A step of one clear keeps the invariant if the clear knows the marks.
LEMMA OneClearSteps ==
    ASSUME TelemetryInv, NEW c \in Clears, NEW x \in ClearStates, Counts(x),
           clear' = [clear EXCEPT ![c] = x],
           UNCHANGED <<clock, generation, request, query>>,
           aggregates' \subseteq Requests, latest' \in {latest, Nobody},
           forgotten \subseteq forgotten', RecordedIsThere', DroppedIsMarked'
    PROVE  TelemetryInv'
<1>1. TelemetryTyped BY DEF TelemetryInv
<1>2. clear' \in [Clears -> ClearStates] /\ \A p \in Clears : clear'[p] = IF p = c THEN x ELSE clear[p]
    BY <1>1 DEF TelemetryTyped, ClearStates
<1>3. TelemetryTyped' BY <1>1, <1>2 DEF TelemetryTyped, ClearStates, Moved
<1>4. FinishedInTime' BY DEF TelemetryInv, FinishedInTime, FinishedAt
<1>5. \A p \in Clears : Counts(clear'[p]) BY <1>2 DEF TelemetryInv, MarksAreCounted, Counts
<1>6. latest' # Nobody => latest'.generation = generation BY DEF TelemetryInv, MarksAreCounted
<1>7. MarksAreCounted' BY <1>5, <1>6 DEF MarksAreCounted, Counts
<1>8. QueriesSee' BY SeenStaysSeen
<1> QED BY <1>3, <1>4, <1>7, <1>8 DEF TelemetryInv

\* A clear begins: those it has not seen dropped will be marked after it.
LEMMA ReadGenerationStep ==
    ASSUME TelemetryInv, NEW c \in Clears, NEW h \in Handles, ReadGeneration(c, h)
    PROVE  TelemetryInv'
<1> DEFINE x == [at |-> "deleting", handle |-> h, through |-> generation, seen |-> Ended]
<1>1. TelemetryTyped BY DEF TelemetryInv
<1>2. x \in ClearStates BY <1>1 DEF ClearStates, Clearing, TelemetryTyped, Ended
<1>3. Counts(x) BY <1>1 DEF Counts, Ended, TelemetryTyped
<1>4. /\ clear' = [clear EXCEPT ![c] = x]
      /\ UNCHANGED <<clock, aggregates, latest, generation, request, query, forgotten>>
    BY DEF ReadGeneration
<1>5. RecordedIsThere' /\ DroppedIsMarked'
    BY <1>4 DEF TelemetryInv, RecordedIsThere, DroppedIsMarked, FinishedAt
<1>6. aggregates' \subseteq Requests BY <1>1, <1>4 DEF TelemetryTyped
<1> HIDE DEF x
<1> QED BY <1>2, <1>3, <1>4, <1>5, <1>6, OneClearSteps

\* A clear empties the table, or raises.
LEMMA DeleteRowsStep ==
    ASSUME TelemetryInv, NEW c \in Clears, DeleteRows(c)
    PROVE  TelemetryInv'
<1>1. TelemetryTyped /\ clear[c] \in ClearStates BY DEF TelemetryInv, TelemetryTyped, ClearStates
<1>2. UNCHANGED <<clock, latest, generation, request, query>> BY DEF DeleteRows
<1>3. /\ aggregates' \in {aggregates, {}}
      /\ forgotten' = forgotten \cup (aggregates \ aggregates')
    BY DEF DeleteRows
<1>4. PICK x : /\ x \in {[clear[c] EXCEPT !.at = "deleted"], [NoClear EXCEPT !.at = "raised"]}
               /\ clear' = [clear EXCEPT ![c] = x]
    BY DEF DeleteRows, ClearEnds
<1>5. /\ x \in ClearStates
      /\ x.at = "deleted" => x.through = clear[c].through /\ x.seen = clear[c].seen
      /\ x.at \in {"deleted", "raised"}
    BY <1>1, <1>4 DEF ClearStates, Clearing, NoClear
<1>6. clear' = [clear EXCEPT ![c] = x] BY <1>4
<1>7. Counts(x) BY <1>5 DEF TelemetryInv, MarksAreCounted, Counts, DeleteRows
<1>8. RecordedIsThere' /\ DroppedIsMarked'
    BY <1>2, <1>3 DEF TelemetryInv, RecordedIsThere, DroppedIsMarked, FinishedAt
<1>9. aggregates' \subseteq Requests /\ forgotten \subseteq forgotten'
    BY <1>1, <1>3 DEF TelemetryTyped
<1> QED BY <1>2, <1>5, <1>6, <1>7, <1>8, <1>9, OneClearSteps

\* A clear forgets the marks made before it began, of those it has seen dropped.
LEMMA ClearThroughStep ==
    ASSUME TelemetryInv, NEW c \in Clears, ClearThrough(c)
    PROVE  TelemetryInv'
<1>1. TelemetryTyped /\ clear[c] \in ClearStates /\ clear[c].at = "deleted"
    BY DEF TelemetryInv, TelemetryTyped, ClearStates, ClearThrough
<1>2. /\ UNCHANGED <<clock, aggregates, generation, request, query>>
      /\ forgotten' = forgotten \cup clear[c].seen
      /\ latest' = (IF Forgets(c) THEN Nobody ELSE latest)
      /\ ClearEnds(c, "cleared")
    BY DEF ClearThrough
<1> DEFINE x == [NoClear EXCEPT !.at = "cleared"]
<1>3. x \in ClearStates /\ x.at = "cleared" BY DEF ClearStates, Clearing, NoClear
<1>4. clear' = [clear EXCEPT ![c] = x] BY <1>2 DEF ClearEnds
<1> HIDE DEF x
<1>5. Counts(x) BY <1>3 DEF Counts
<1>6. RecordedIsThere' BY <1>2 DEF TelemetryInv, RecordedIsThere, FinishedAt
<1>7. DroppedIsMarked'
    <2>1. CASE ~Forgets(c)
        BY <1>2, <2>1 DEF TelemetryInv, DroppedIsMarked, FinishedAt
    <2>2. CASE Forgets(c)
        <3>1. generation <= clear[c].through /\ clear[c].through \in Nat /\ generation \in Nat
            BY <1>1, <2>2 DEF Forgets, TelemetryInv, MarksAreCounted, TelemetryTyped
        <3>2. ASSUME NEW r \in Requests, request[r].at = "dropped" PROVE r \in clear[c].seen
            <4>1. r \notin clear[c].seen => clear[c].through < generation
                BY <1>1, <3>2 DEF TelemetryInv, MarksAreCounted
            <4> QED BY <3>1, <4>1
        <3> QED BY <1>2, <3>2 DEF DroppedIsMarked
    <2> QED BY <2>1, <2>2
<1>8. /\ aggregates' \subseteq Requests /\ latest' \in {latest, Nobody}
      /\ forgotten \subseteq forgotten'
    BY <1>1, <1>2 DEF TelemetryTyped
<1> QED BY <1>2, <1>3, <1>4, <1>5, <1>6, <1>7, <1>8, OneClearSteps

\* Time passes: what was too old stays so, and no query outlasts its marks.
LEMMA ClockStep ==
    ASSUME TelemetryInv, ClockTick
    PROVE  TelemetryInv'
<1>1. TelemetryTyped /\ clock \in Nat /\ MaxWindow \in Nat /\ RetainedFor \in Nat /\ Window \in Nat
    BY TelemetryConstants DEF TelemetryInv, TelemetryTyped
<1>2. /\ clock' = clock + 1
      /\ UNCHANGED <<aggregates, latest, generation, request, query, clear, forgotten>>
    BY DEF ClockTick
<1>3. TelemetryTyped' BY <1>1, <1>2 DEF TelemetryTyped, Moved
<1>4. FinishedInTime' /\ MarksAreCounted'
    BY <1>2 DEF TelemetryInv, FinishedInTime, MarksAreCounted, FinishedAt
<1>5. ASSUME NEW r \in Requests, request[r].at # "running"
      PROVE  /\ FinishedAt(r) < clock - RetainedFor => FinishedAt(r) < clock' - RetainedFor
             /\ FinishedAt(r) < clock - MaxWindow => FinishedAt(r) < clock' - MaxWindow
    <2>1. FinishedAt(r) \in Nat BY <1>5 DEF TelemetryInv, FinishedInTime
    <2> QED BY <1>1, <1>2, <2>1
<1>6. RecordedIsThere' BY <1>2, <1>5 DEF TelemetryInv, RecordedIsThere, FinishedAt
<1>7. DroppedIsMarked' BY <1>2, <1>5 DEF TelemetryInv, DroppedIsMarked, FinishedAt
<1>8. QueriesSee'
    <2>1. ASSUME NEW q \in Queries, query[q].at \in {"reading", "read"}
          PROVE  /\ query[q].from \in Nat /\ query[q].from <= clock'
                 /\ clock' <= query[q].from + MaxWindow - Window
        <3>1. /\ query[q].from \in Nat /\ query[q].from <= clock
              /\ clock < query[q].from + MaxWindow - Window
            BY <2>1 DEF TelemetryInv, QueriesSee, ClockTick
        <3> QED BY <1>1, <1>2, <3>1
    <2> QED BY <1>2, <2>1 DEF TelemetryInv, QueriesSee, Ended, Inside, FinishedAt
<1> QED BY <1>3, <1>4, <1>6, <1>7, <1>8 DEF TelemetryInv

\* Nothing has begun.
LEMMA TelemetryStarts == TelemetryInit => TelemetryInv
<1> SUFFICES ASSUME TelemetryInit PROVE TelemetryInv OBVIOUS
<1>1. TelemetryTyped
    BY DEF TelemetryInit, TelemetryTyped, Moved, Recording, Asking, Clearing, NoQuery, NoClear
<1>2. /\ \A r \in Requests : request[r].at = "running"
      /\ \A q \in Queries : query[q].at = "idle"
      /\ \A c \in Clears : clear[c].at = "idle"
      /\ latest = Nobody
    BY DEF TelemetryInit, NoQuery, NoClear
<1> QED BY <1>1, <1>2
    DEF TelemetryInv, FinishedInTime, RecordedIsThere, DroppedIsMarked, MarksAreCounted, QueriesSee

\* Every step keeps the invariant.
LEMMA TelemetrySteps == TelemetryInv /\ [TelemetryNext]_telemetryVars => TelemetryInv'
<1> SUFFICES ASSUME TelemetryInv, [TelemetryNext]_telemetryVars PROVE TelemetryInv' OBVIOUS
<1>1. CASE UNCHANGED telemetryVars
    BY <1>1 DEF telemetryVars, TelemetryInv, TelemetryTyped, FinishedInTime, RecordedIsThere,
        DroppedIsMarked, MarksAreCounted, QueriesSee, Moved, Ended, Inside, FinishedAt
<1>2. ASSUME NEW r \in Requests,
             \/ \E h \in Handles : FinishRequest(r, h)
             \/ TryLock(r) \/ TakeWriter(r) \/ RecordRequest(r) \/ RecordFails(r) \/ Mark(r)
      PROVE  TelemetryInv'
    BY <1>2, FinishStepT, LockSteps, WriteStep, MarkStep
<1>3. ASSUME NEW q \in Queries,
             (\E h \in Handles : AskRate(q, h)) \/ ReadRows(q) \/ AnswerRate(q)
      PROVE  TelemetryInv'
    BY <1>3, AskStepT, ReadStep, AnswerStep
<1>4. ASSUME NEW c \in Clears,
             (\E h \in Handles : ReadGeneration(c, h)) \/ DeleteRows(c) \/ ClearThrough(c)
      PROVE  TelemetryInv'
    BY <1>4, ReadGenerationStep, DeleteRowsStep, ClearThroughStep
<1>5. CASE ClockTick BY <1>5, ClockStep
<1> QED BY <1>1, <1>2, <1>3, <1>4, <1>5 DEF TelemetryNext

\* A query that has read the rows answers a rate in one step only, its second look.
LEMMA OnlyAnAnswer ==
    ASSUME TelemetryTyped, TelemetryNext, NEW q \in Queries,
           query[q].at = "read", query'[q].at = "rate"
    PROVE  AnswerRate(q)
<1>1. query'[q] # query[q] BY Zenon
<1>2. ASSUME NEW r \in Requests,
             \/ \E h \in Handles : FinishRequest(r, h)
             \/ TryLock(r) \/ TakeWriter(r) \/ RecordRequest(r) \/ RecordFails(r) \/ Mark(r)
      PROVE  FALSE
    BY <1>1, <1>2 DEF FinishRequest, TryLock, TakeWriter, RecordRequest, RecordFails, EndWrite, Mark
<1>3. ASSUME NEW c \in Clears,
             (\E h \in Handles : ReadGeneration(c, h)) \/ DeleteRows(c) \/ ClearThrough(c)
      PROVE  FALSE
    BY <1>1, <1>3 DEF ReadGeneration, DeleteRows, ClearThrough
<1>4. ~ClockTick BY <1>1 DEF ClockTick
<1>5. PICK p \in Queries : (\E h \in Handles : AskRate(p, h)) \/ ReadRows(p) \/ AnswerRate(p)
    BY <1>2, <1>3, <1>4 DEF TelemetryNext
<1>6. p = q
    <2>1. \A o \in Queries \ {p} : query'[o] = query[o]
        BY <1>5 DEF AskRate, ReadRows, AnswerRate, QueryEnds, TelemetryTyped
    <2> QED BY <1>1, <2>1
<1>7. query'[q].at # "rate" \/ AnswerRate(q)
    BY <1>5, <1>6 DEF AskRate, ReadRows, QueryEnds, NoQuery, TelemetryTyped
<1> QED BY <1>7

\* The rate of that look counts all: what was dropped would have been marked.
LEMMA AnAnswerCountsAll ==
    ASSUME TelemetryInv, NEW q \in Queries, AnswerRate(q), query'[q].at = "rate",
           NEW r \in Ended \ forgotten, Inside(r, query[q].from)
    PROVE  /\ request[r].at # "dropped"
           /\ r \in query[q].seen => r \in query[q].counted
<1> DEFINE from == query[q].from
<1>1. /\ from \in Nat /\ clock \in Nat /\ clock <= from + MaxWindow - Window
      /\ MaxWindow \in Nat /\ Window \in Nat
    BY TelemetryConstants DEF TelemetryInv, TelemetryTyped, QueriesSee, AnswerRate
<1>2. r \in Requests /\ request[r].at \in {"recorded", "dropped"} BY DEF Ended
<1>3. FinishedAt(r) \in Nat BY <1>2 DEF TelemetryInv, FinishedInTime
<1>4. FinishedAt(r) >= from - Window BY DEF Inside
<1>5. ~Overlaps(from)
    BY DEF AnswerRate, QueryEnds, NoQuery, TelemetryInv, TelemetryTyped
<1>6. request[r].at # "dropped"
    <2> SUFFICES ASSUME request[r].at = "dropped" PROVE FALSE OBVIOUS
    <2>1. \/ latest # Nobody /\ latest.at >= FinishedAt(r)
          \/ FinishedAt(r) < clock - MaxWindow
        BY <1>2 DEF TelemetryInv, DroppedIsMarked
    <2>2. latest # Nobody => latest.at \in Nat BY DEF TelemetryInv, TelemetryTyped, Marks
    <2>3. ~(FinishedAt(r) < clock - MaxWindow) BY <1>1, <1>3, <1>4
    <2>4. latest # Nobody /\ latest.at >= from - Window BY <1>1, <1>3, <1>4, <2>1, <2>2, <2>3
    <2> QED BY <1>5, <2>4 DEF Overlaps
<1>7. r \in query[q].seen => r \in query[q].counted
    BY <1>2, <1>6 DEF TelemetryInv, QueriesSee, AnswerRate
<1> QED BY <1>6, <1>7

\* A rate leaves out no request of its window that was recorded by the time its
\* rows were read and none that was dropped by its second look, unless a clear
\* deleted the row, also one that then raised, or was told to forget the mark
\* (GatewayTelemetryStore.recent_burn_rate, its two looks; clear).
THEOREM RatesCountAll == TelemetrySpec => RateCountsAll
<1> DEFINE Counted ==
        \A q \in Queries : query[q].at = "read" /\ query'[q].at = "rate" =>
          \A r \in Ended \ forgotten : Inside(r, query[q].from) =>
              IF request[r].at = "dropped" THEN r \in query[q].counted
              ELSE r \in query[q].seen => r \in query[q].counted
<1>1. TelemetryInv /\ TelemetryNext => Counted
    <2> SUFFICES ASSUME TelemetryInv, TelemetryNext, NEW q \in Queries,
                        query[q].at = "read", query'[q].at = "rate",
                        NEW r \in Ended \ forgotten, Inside(r, query[q].from)
                 PROVE  /\ request[r].at # "dropped"
                        /\ r \in query[q].seen => r \in query[q].counted
        OBVIOUS
    <2>1. AnswerRate(q) BY OnlyAnAnswer DEF TelemetryInv
    <2> QED BY <2>1, AnAnswerCountsAll
<1>2. TelemetryInv /\ [TelemetryNext]_telemetryVars => [Counted]_telemetryVars BY <1>1
<1> QED BY <1>2, TelemetryStarts, TelemetrySteps, PTL DEF TelemetrySpec, RateCountsAll

-----------------------------------------------------------------------------
\* Who may hold a lock of the telemetry.
Holders == Requests \cup Queries \cup Clears \cup {Nobody}

\* The locks are held by calls, the times are those of the clock, and a mark has
\* been counted.
TelemetryShape ==
    /\ clock \in ClockTimes
    /\ holder \in [Handles -> Holders]
    /\ writer \in Requests \cup {Nobody}
    /\ latest # Nobody => latest.at \in ClockTimes /\ latest.generation \in 1 .. generation
    /\ \A r \in Requests : /\ request[r].finished \in ClockTimes \cup {Nobody}
                           /\ request[r].at # "running" => request[r].finished \in ClockTimes

\* A request that moves has ended when it had ended.
LEMMA ShapeOfRequests ==
    ASSUME TelemetryInv, TelemetryShape, NEW r \in Requests, NEW to \in Recording \ {"running"},
           MoveTo(r, to), request[r].at # "running"
    PROVE  \A o \in Requests : /\ request'[o].finished \in ClockTimes \cup {Nobody}
                               /\ request'[o].at # "running" => request'[o].finished \in ClockTimes
<1>1. /\ request' \in Moved /\ request'[r].at = to
      /\ \A o \in Requests \ {r} : request'[o] = request[o]
      /\ \A o \in Requests : request'[o].finished = request[o].finished
    BY RequestMoves DEF TelemetryInv
<1> QED BY <1>1 DEF TelemetryShape

\* A look at the marks keeps them or forgets them.
LEMMA ShapeOfMarks ==
    ASSUME TelemetryShape, NEW from, Prune(from), UNCHANGED generation
    PROVE  latest' # Nobody => latest'.at \in ClockTimes /\ latest'.generation \in 1 .. generation'
BY DEF TelemetryShape, Prune

\* A handle is let go of, or taken.
LEMMA ShapeOfHolders ==
    ASSUME TelemetryShape, NEW h, NEW x \in Holders
    PROVE  /\ [holder EXCEPT ![h] = x] \in [Handles -> Holders]
           /\ ReleaseHandle(h) => holder' \in [Handles -> Holders]
BY DEF TelemetryShape, ReleaseHandle, Holders

\* Every step keeps the shape.
LEMMA ShapeHolds == TelemetryInv /\ TelemetryShape /\ [TelemetryNext]_telemetryVars => TelemetryShape'
<1> SUFFICES ASSUME TelemetryInv, TelemetryShape, [TelemetryNext]_telemetryVars PROVE TelemetryShape'
    OBVIOUS
<1>1. CASE UNCHANGED telemetryVars BY <1>1 DEF telemetryVars, TelemetryShape
<1>2. ASSUME NEW r \in Requests, NEW h \in Handles, FinishRequest(r, h)
      PROVE  TelemetryShape'
    <2> DEFINE new == [at |-> "finished", handle |-> h, finished |-> clock]
    <2>1. \A o \in Requests : request'[o] = IF o = r THEN new ELSE request[o]
        BY <1>2 DEF FinishRequest, TelemetryInv, TelemetryTyped, Moved
    <2>2. UNCHANGED <<clock, holder, writer, latest, generation>> BY <1>2 DEF FinishRequest
    <2> QED BY <2>1, <2>2 DEF TelemetryShape
<1>3. ASSUME NEW r \in Requests, TryLock(r)
      PROVE  TelemetryShape'
    <2>1. request[r].at = "finished" /\ \E to \in {"locked", "failed"} : MoveTo(r, to)
        BY <1>3 DEF TryLock
    <2>2. \A o \in Requests : /\ request'[o].finished \in ClockTimes \cup {Nobody}
                              /\ request'[o].at # "running" => request'[o].finished \in ClockTimes
        BY <2>1, ShapeOfRequests DEF Recording
    <2>3. holder' \in [Handles -> Holders] /\ UNCHANGED <<clock, writer, latest, generation>>
        BY <1>3, ShapeOfHolders DEF TryLock, Holders, TelemetryShape
    <2> QED BY <2>2, <2>3 DEF TelemetryShape
<1>4. ASSUME NEW r \in Requests, TakeWriter(r)
      PROVE  TelemetryShape'
    <2>1. request[r].at = "locked" /\ \E to \in {"writing", "failed"} : MoveTo(r, to)
        BY <1>4 DEF TakeWriter
    <2>2. \A o \in Requests : /\ request'[o].finished \in ClockTimes \cup {Nobody}
                              /\ request'[o].at # "running" => request'[o].finished \in ClockTimes
        BY <2>1, ShapeOfRequests DEF Recording
    <2>3. /\ holder' \in [Handles -> Holders] /\ writer' \in Requests \cup {Nobody}
          /\ UNCHANGED <<clock, latest, generation>>
        BY <1>4, ShapeOfHolders DEF TakeWriter, Holders, TelemetryShape
    <2> QED BY <2>2, <2>3 DEF TelemetryShape
<1>5. ASSUME NEW r \in Requests, RecordRequest(r) \/ RecordFails(r)
      PROVE  TelemetryShape'
    <2>1. request[r].at = "writing" /\ \E to \in {"recorded", "failed"} : MoveTo(r, to)
        BY <1>5 DEF RecordRequest, RecordFails, EndWrite
    <2>2. \A o \in Requests : /\ request'[o].finished \in ClockTimes \cup {Nobody}
                              /\ request'[o].at # "running" => request'[o].finished \in ClockTimes
        BY <2>1, ShapeOfRequests DEF Recording
    <2>3. /\ holder' \in [Handles -> Holders] /\ writer' = Nobody
          /\ UNCHANGED <<clock, latest, generation>>
        BY <1>5, ShapeOfHolders DEF RecordRequest, RecordFails, EndWrite, Holders
    <2> QED BY <2>2, <2>3 DEF TelemetryShape
<1>6. ASSUME NEW r \in Requests, Mark(r)
      PROVE  TelemetryShape'
    <2>1. request[r].at = "failed" /\ MoveTo(r, "dropped") BY <1>6 DEF Mark
    <2>2. \A o \in Requests : /\ request'[o].finished \in ClockTimes \cup {Nobody}
                              /\ request'[o].at # "running" => request'[o].finished \in ClockTimes
        BY <2>1, ShapeOfRequests DEF Recording
    <2>3. generation \in Nat /\ FinishedAt(r) \in ClockTimes
        BY <2>1 DEF TelemetryInv, TelemetryTyped, TelemetryShape, FinishedAt
    <2>4. /\ latest' = [at |-> IF latest = Nobody \/ latest.at < FinishedAt(r) THEN FinishedAt(r) ELSE latest.at,
                        generation |-> generation + 1]
          /\ generation' = generation + 1
        BY <1>6 DEF Mark
    <2>5. latest'.at \in ClockTimes /\ latest'.generation \in 1 .. generation'
        BY <2>3, <2>4 DEF TelemetryShape
    <2> QED BY <1>6, <2>2, <2>5 DEF TelemetryShape, Mark
<1>7. ASSUME NEW q \in Queries, NEW h \in Handles, AskRate(q, h)
      PROVE  TelemetryShape'
    <2>1. UNCHANGED <<clock, writer, generation, request>> /\ (Prune(clock) \/ UNCHANGED latest)
        BY <1>7 DEF AskRate
    <2>2. holder' \in [Handles -> Holders]
        BY <1>7, ShapeOfHolders DEF AskRate, Holders, TelemetryShape
    <2>3. latest' # Nobody => latest'.at \in ClockTimes /\ latest'.generation \in 1 .. generation'
        BY <2>1, ShapeOfMarks DEF TelemetryShape
    <2> QED BY <2>1, <2>2, <2>3 DEF TelemetryShape
<1>8. ASSUME NEW q \in Queries, ReadRows(q)
      PROVE  TelemetryShape'
    <2>1. UNCHANGED <<clock, writer, latest, generation, request>> BY <1>8 DEF ReadRows
    <2>2. holder' \in [Handles -> Holders] BY <1>8, ShapeOfHolders DEF ReadRows, Holders
    <2> QED BY <2>1, <2>2 DEF TelemetryShape
<1>9. ASSUME NEW q \in Queries, AnswerRate(q)
      PROVE  TelemetryShape'
    <2>1. UNCHANGED <<clock, holder, writer, generation, request>> /\ Prune(query[q].from)
        BY <1>9 DEF AnswerRate
    <2>2. latest' # Nobody => latest'.at \in ClockTimes /\ latest'.generation \in 1 .. generation'
        BY <2>1, ShapeOfMarks
    <2> QED BY <2>1, <2>2 DEF TelemetryShape
<1>10. ASSUME NEW c \in Clears, NEW h \in Handles, ReadGeneration(c, h)
       PROVE  TelemetryShape'
    <2>1. UNCHANGED <<clock, writer, latest, generation, request>> BY <1>10 DEF ReadGeneration
    <2>2. holder' \in [Handles -> Holders] BY <1>10, ShapeOfHolders DEF ReadGeneration, Holders
    <2> QED BY <2>1, <2>2 DEF TelemetryShape
<1>11. ASSUME NEW c \in Clears, DeleteRows(c) \/ ClearThrough(c)
       PROVE  TelemetryShape'
    <2>1. UNCHANGED <<clock, writer, generation, request>> /\ latest' \in {latest, Nobody}
        BY <1>11 DEF DeleteRows, ClearThrough
    <2>2. holder' \in [Handles -> Holders]
        BY <1>11, ShapeOfHolders DEF DeleteRows, ClearThrough, Holders, TelemetryShape
    <2> QED BY <2>1, <2>2 DEF TelemetryShape
<1>12. CASE ClockTick
    <2>1. clock' \in ClockTimes
        BY <1>12, TelemetryAssumption DEF ClockTick, TelemetryShape, ClockTimes
    <2> QED BY <1>12, <2>1 DEF ClockTick, TelemetryShape
<1> QED
    BY <1>1, <1>2, <1>3, <1>4, <1>5, <1>6, <1>7, <1>8, <1>9, <1>10, <1>11, <1>12 DEF TelemetryNext

\* The shape holds in the beginning.
LEMMA ShapeBegins == TelemetryInit => TelemetryShape
BY TelemetryAssumption DEF TelemetryInit, TelemetryShape, ClockTimes, Holders

\* The invariants are what the type invariant says.
LEMMA ShapeIsTyped == TelemetryInv /\ TelemetryShape => TelemetryTypeOK
<1> SUFFICES ASSUME TelemetryInv, TelemetryShape PROVE TelemetryTypeOK OBVIOUS
<1>1. latest \in [at : ClockTimes, generation : 1 .. generation] \cup {Nobody}
    BY DEF TelemetryInv, TelemetryTyped, TelemetryShape, Marks
<1>2. aggregates \subseteq Requests BY DEF TelemetryInv, TelemetryTyped
<1>3. \A r \in Requests :
        /\ request[r].at \in {"running", "finished", "locked", "writing", "recorded", "failed", "dropped"}
        /\ request[r].handle \in Handles \cup {Nobody}
    BY DEF TelemetryInv, TelemetryTyped, Moved, Recording
<1>4. \A q \in Queries : query[q].at \in {"idle", "reading", "read", "unknown", "rate", "raised"}
    BY DEF TelemetryInv, TelemetryTyped, Asking
<1>5. \A c \in Clears : clear[c].at \in {"idle", "deleting", "deleted", "cleared", "raised"}
    BY DEF TelemetryInv, TelemetryTyped, Clearing
<1> QED BY <1>1, <1>2, <1>3, <1>4, <1>5 DEF TelemetryShape, TelemetryTypeOK, Holders

\* The locks of the telemetry are held by its calls, and a mark is one of those
\* counted.
THEOREM TelemetryStaysTyped == TelemetrySpec => []TelemetryTypeOK
BY TelemetryStarts, TelemetrySteps, ShapeBegins, ShapeHolds, ShapeIsTyped, PTL DEF TelemetrySpec

-----------------------------------------------------------------------------
(* The gateway as a whole.                                                 *)

\* The parts have no variable in common: each sees of the others no more than
\* stutters, and what holds of it alone holds in the gateway.
THEOREM GatewayRunsItsParts ==
    GatewaySpec => /\ CacheSpec /\ StreamSpec /\ TelemetrySpec
                   /\ AccountSpec /\ ConnectionSpec /\ BreakerSpec
<1>1. GatewayInit => /\ CacheInit /\ StreamInit /\ TelemetryInit
                     /\ AccountInit /\ ConnectionInit /\ BreakerInit
    BY DEF GatewayInit
<1>2. [GatewayNext]_gatewayVars =>
        /\ [CacheNext]_cacheVars /\ [StreamNext]_streamVars /\ [TelemetryNext]_telemetryVars
        /\ [AccountNext]_accountVars /\ [ConnectionNext]_connectionVars /\ [BreakerNext]_breakerVars
    BY DEF GatewayNext, gatewayVars
<1> QED
    BY <1>1, <1>2, PTL
    DEF GatewaySpec, CacheSpec, StreamSpec, TelemetrySpec, AccountSpec, ConnectionSpec, BreakerSpec

\* Every part of the gateway is typed, within its limits, beside the others.
THEOREM GatewayTyping == GatewaySpec => []GatewayTypeOK
<1>1. BreakerSpec => []BreakerTypeOK
    <2>1. BreakerInit => ProbeInv
        BY BreakerAssumption DEF BreakerInit, ProbeInv, BreakerTypeOK, BreakerTimes
    <2>2. ProbeInv /\ [BreakerNext]_breakerVars => ProbeInv' BY BreakerStep
    <2>3. ProbeInv => BreakerTypeOK BY DEF ProbeInv
    <2> QED BY <2>1, <2>2, <2>3, PTL DEF BreakerSpec
<1>2. CacheTypeOK /\ StreamTypeOK /\ TelemetryTypeOK /\ AccountTypeOK /\ ConnectionTypeOK
        /\ BreakerTypeOK => GatewayTypeOK
    BY DEF GatewayTypeOK
<1> QED
    BY <1>1, <1>2, GatewayRunsItsParts, CacheKeepsItsLimits, CallsStayTyped, TelemetryStaysTyped,
       AccountsTyped, ConnectionsStayTyped, PTL

\* Whatever its other parts do meanwhile, the gateway answers once and from one
\* provider, serves from memory what the table holds, keeps only what was taken,
\* and leaves its two places of accounts and pools equal.
THEOREM GatewayIsSafe ==
    GatewaySpec => [](MemoryMatchesTable /\ OneAnswer /\ KeptAsTaken
                      /\ CredentialsAgree /\ PoolsReferenceAccounts)
BY GatewayRunsItsParts, MemoryKnowsTheTable, CallsGiveOneAnswer, AnswersAreKeptAsTaken,
   CredentialsKept, PoolsKeptWhole, PTL

\* And no step of it evicts what was used later, serves what is not stored,
\* leaves a request out of a rate or probes too early.
THEOREM GatewayStepsAllowed ==
    GatewaySpec => EvictsLeastRecent /\ ServesWhatIsStored /\ RateCountsAll /\ ProbesAreSpaced
BY GatewayRunsItsParts, OldestGoesFirst, CacheKeepsItsContract, RatesCountAll, ProbesKeepDistance, PTL
=============================================================================
