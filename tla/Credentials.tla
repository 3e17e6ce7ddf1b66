----------------------------- MODULE Credentials -----------------------------
(***************************************************************************)
(* onboarding.py and security/vault.py: the API keys of the user, in plain *)
(* text in .env or encrypted in the vault, across the runs of the program. *)
(*                                                                         *)
(* A set-up writes three times (the vault's password, the secret, .env),   *)
(* and .env is rewritten by emptying it first; the program can be killed,  *)
(* or a write can fail, between any two of these.  One process at a time.  *)
(***************************************************************************)
EXTENDS Integers, FiniteSets

CONSTANTS Providers,     \* openai and cerebras
          DefaultName,   \* the one meant when none is configured
          Unset,         \* no provider in .env
          Attempts       \* attempts of unlock_interactive

ASSUME CredentialsAssumption ==
    DefaultName \in Providers /\ Unset \notin Providers /\ Attempts \in Nat \ {0}

VARIABLES envProvider, envKeys,  \* .env
          vaultMade, secrets,    \* vault_meta has its row; the table of secrets
          osKeys,                \* keys in os.environ of the running process
          setupAt,               \* where the process is
          gui, attemptsLeft,     \* of unlock_interactive
          toStore,               \* keys still to be put in the vault
          page,                  \* the text of .env about to be written
          given,                 \* history: keys the user has entrusted to it
          mishaps                \* history: what went wrong

credentialVars == <<envProvider, envKeys, vaultMade, secrets, osKeys, setupAt, gui,
                    attemptsLeft, toStore, page, given, mishaps>>
envFile == <<envProvider, envKeys>>
vault   == <<vaultMade, secrets>>

Configured == IF envProvider = Unset THEN DefaultName ELSE envProvider

CredentialsTypeOK ==
    /\ envProvider \in Providers \cup {Unset} /\ envKeys \subseteq Providers
    /\ secrets \subseteq Providers /\ (secrets # {} => vaultMade)
    /\ osKeys \subseteq Providers /\ toStore \subseteq Providers /\ given \subseteq Providers
    /\ setupAt \in {"off", "form", "store", "empty", "write", "unlock", "ready",
                    "refused", "securing", "scrub", "rekeying", "restoring"}
    /\ gui \in BOOLEAN /\ attemptsLeft \in 0..Attempts
    /\ page \in [provider : Providers \cup {Unset}, keys : SUBSET Providers]
    /\ mishaps \subseteq {"setup", "rewrite", "rekey", "provider"}

NoPage == [provider |-> Unset, keys |-> {}]

CredentialsInit ==
    /\ envProvider = Unset /\ envKeys = {}
    /\ vaultMade = FALSE /\ secrets = {} /\ osKeys = {}
    /\ setupAt = "off" /\ gui = FALSE /\ attemptsLeft = 0
    /\ toStore = {} /\ page = NoPage
    /\ given = {} /\ mishaps = {}

----------------------------------------------------------------------------
\* Between runs the user puts a key in .env ...
UserAddsKey(p) ==
    /\ setupAt = "off" /\ p \notin envKeys
    /\ envKeys' = envKeys \cup {p} /\ given' = given \cup {p}
    /\ UNCHANGED <<envProvider, vault, osKeys, setupAt, gui, attemptsLeft, toStore,
                   page, mishaps>>

\* ... or another provider.
UserSwitches(p) ==
    /\ setupAt = "off" /\ p # Configured
    /\ envProvider' = p /\ mishaps' = mishaps \cup {"provider"}
    /\ UNCHANGED <<envKeys, vault, osKeys, setupAt, gui, attemptsLeft, toStore, page,
                   given>>

\* ensure_credentials_ready
EnsureCredentialsReady ==
    /\ setupAt = "off"
    /\ gui' \in BOOLEAN
    /\ attemptsLeft' = Attempts
    /\ setupAt' = IF Configured \in envKeys THEN "ready"
                  ELSE IF vaultMade THEN "unlock" ELSE "form"
    /\ UNCHANGED <<envFile, vault, osKeys, toStore, page, given, mishaps>>

\* run_onboarding, _run_gui_setup: a window that does not open is replaced by
\* the console.
SetupWindowFails ==
    /\ setupAt = "form" /\ gui /\ ~vaultMade
    /\ gui' = FALSE
    /\ UNCHANGED <<envFile, vault, osKeys, setupAt, attemptsLeft, toStore, page, given,
                   mishaps>>

\* Save: _persist_setup begins with vault.create, which raises when a set-up
\* that failed has made the vault; the window then stays open.
SaveSetup(p) ==
    /\ setupAt = "form" /\ ~vaultMade
    /\ vaultMade' = TRUE
    /\ toStore' = {p}
    /\ setupAt' = "store"
    /\ UNCHANGED <<envFile, secrets, osKeys, gui, attemptsLeft, page, given, mishaps>>

\* vault.set_secret(key_name, api_key)
StoreKey(p) ==
    /\ setupAt = "store" /\ p \in toStore
    /\ secrets' = secrets \cup {p} /\ given' = given \cup {p}
    /\ setupAt' = "empty"
    /\ UNCHANGED <<envFile, vaultMade, osKeys, gui, attemptsLeft, toStore, page, mishaps>>

\* _write_env: the text is made, the file is emptied, the text is written.
EmptyEnv(text, next) ==
    /\ page' = text
    /\ envProvider' = Unset /\ envKeys' = {}
    /\ setupAt' = next
    /\ UNCHANGED <<vault, osKeys, gui, attemptsLeft, toStore, given, mishaps>>

WriteEnv ==
    /\ envProvider' = page.provider /\ envKeys' = page.keys
    /\ page' = NoPage
    /\ UNCHANGED <<vault, gui, attemptsLeft, given, mishaps>>

RewriteForSetup ==
    /\ setupAt = "empty"
    /\ \E p \in toStore : EmptyEnv([provider |-> p, keys |-> envKeys], "write")

FinishSetup ==
    /\ setupAt = "write"
    /\ WriteEnv
    /\ osKeys' = toStore /\ toStore' = {}
    /\ setupAt' = "ready"

\* unlock_interactive: a window that does not open uses up an attempt.
UnlockWindowFails ==
    /\ setupAt = "unlock" /\ gui /\ attemptsLeft > 0
    /\ gui' = FALSE /\ attemptsLeft' = attemptsLeft - 1
    /\ UNCHANGED <<envFile, vault, osKeys, setupAt, toStore, page, given, mishaps>>

WrongPassword ==
    /\ setupAt = "unlock" /\ attemptsLeft > 0
    /\ attemptsLeft' = attemptsLeft - 1
    /\ UNCHANGED <<envFile, vault, osKeys, setupAt, gui, toStore, page, given, mishaps>>

\* vault.unlock, then inject_secrets
Unlocked ==
    /\ setupAt = "unlock" /\ attemptsLeft > 0
    /\ osKeys' = secrets
    /\ setupAt' = "ready"
    /\ UNCHANGED <<envFile, vault, gui, attemptsLeft, toStore, page, given, mishaps>>

\* Cancelled, or no attempt is left.
Refused ==
    /\ setupAt \in {"form", "unlock"}
    /\ setupAt' = "refused"
    /\ UNCHANGED <<envFile, vault, osKeys, gui, attemptsLeft, toStore, page, given,
                   mishaps>>

----------------------------------------------------------------------------
\* Mutant of Found: the first key found ends the search.
FoundFirst(keys) == {p \in keys : DefaultName \in keys => p = DefaultName}

\* secure_existing_env: the keys found in .env.
Found(keys) == keys

\* secure_existing_env; it does not look for the configured provider.
SecureExistingEnv ==
    /\ setupAt = "off" /\ ~vaultMade /\ envKeys # {}
    /\ vaultMade' = TRUE
    /\ toStore' = Found(envKeys)
    /\ mishaps' = IF Configured \in envKeys THEN mishaps ELSE mishaps \cup {"provider"}
    /\ setupAt' = "securing"
    /\ UNCHANGED <<envFile, secrets, osKeys, gui, attemptsLeft, page, given>>

SecureKey(p) ==
    /\ setupAt = "securing" /\ p \in toStore
    /\ secrets' = secrets \cup {p} /\ toStore' = toStore \ {p}
    /\ UNCHANGED <<envFile, vaultMade, osKeys, setupAt, gui, attemptsLeft, page, given,
                   mishaps>>

\* _scrub_env
ScrubEnv ==
    /\ setupAt = "securing" /\ toStore = {}
    /\ EmptyEnv([provider |-> envProvider, keys |-> {}], "scrub")

Secured ==
    /\ setupAt = "scrub"
    /\ WriteEnv
    /\ setupAt' = "off"
    /\ UNCHANGED <<osKeys, toStore>>

\* vault.change_password (tests call it): everything is deleted, then made anew.
ChangePassword ==
    /\ setupAt = "ready" /\ vaultMade
    /\ toStore' = secrets
    /\ vaultMade' = FALSE /\ secrets' = {}
    /\ setupAt' = "rekeying"
    /\ UNCHANGED <<envFile, osKeys, gui, attemptsLeft, page, given, mishaps>>

CreateAgain ==
    /\ setupAt = "rekeying"
    /\ vaultMade' = TRUE /\ setupAt' = "restoring"
    /\ UNCHANGED <<envFile, secrets, osKeys, gui, attemptsLeft, toStore, page, given,
                   mishaps>>

RestoreKey(p) ==
    /\ setupAt = "restoring" /\ p \in toStore
    /\ secrets' = secrets \cup {p} /\ toStore' = toStore \ {p}
    /\ UNCHANGED <<envFile, vaultMade, osKeys, setupAt, gui, attemptsLeft, page, given,
                   mishaps>>

Rekeyed ==
    /\ setupAt = "restoring" /\ toStore = {}
    /\ setupAt' = "ready"
    /\ UNCHANGED <<envFile, vault, osKeys, gui, attemptsLeft, toStore, page, given,
                   mishaps>>

----------------------------------------------------------------------------
\* What is half done now.
Half == (IF setupAt \in {"store", "empty", "write"} THEN {"setup"} ELSE {})
        \cup (IF setupAt \in {"write", "scrub"} THEN {"rewrite"} ELSE {})
        \cup (IF setupAt \in {"rekeying", "restoring"} THEN {"rekey"} ELSE {})

\* The process ends, is killed, or ends with the error of a write.
ProcessEnds ==
    /\ setupAt # "off"
    /\ mishaps' = mishaps \cup Half
    /\ setupAt' = "off" /\ osKeys' = {} /\ toStore' = {}
    /\ gui' = FALSE /\ attemptsLeft' = 0 /\ page' = NoPage
    /\ UNCHANGED <<envFile, vault, given>>

\* In the window the error of a write is reported by Tk and the form is back.
SetupRaises ==
    /\ setupAt \in {"store", "empty", "write"} /\ gui
    /\ mishaps' = mishaps \cup Half
    /\ setupAt' = "form" /\ toStore' = {} /\ page' = NoPage
    /\ UNCHANGED <<envFile, vault, osKeys, gui, attemptsLeft, given>>

CredentialsNext ==
    \/ \E p \in Providers : \/ UserAddsKey(p) \/ UserSwitches(p) \/ SaveSetup(p)
                            \/ StoreKey(p) \/ SecureKey(p) \/ RestoreKey(p)
    \/ EnsureCredentialsReady \/ SetupWindowFails \/ RewriteForSetup \/ FinishSetup
    \/ UnlockWindowFails \/ WrongPassword \/ Unlocked \/ Refused
    \/ SecureExistingEnv \/ ScrubEnv \/ Secured
    \/ ChangePassword \/ CreateAgain \/ Rekeyed
    \/ ProcessEnds \/ SetupRaises

CredentialsSpec == CredentialsInit /\ [][CredentialsNext]_credentialVars

----------------------------------------------------------------------------
\* A key is in .env or in the vault, or about to be written there by the
\* process that took it out; only an end in the middle of rewriting .env or of
\* a change of the password loses one.
KeysKept ==
    \A p \in given : \/ p \in envKeys \cup secrets
                     \/ setupAt = "write" /\ p \in page.keys
                     \/ setupAt \in {"rekeying", "restoring"} /\ p \in toStore
                     \/ mishaps \cap {"rewrite", "rekey"} # {}

\* ensure_credentials_ready says TRUE only with a key of the configured
\* provider, unless a set-up or a rewrite was cut short or the vault was made
\* for the other provider.
ReadyHasKey ==
    setupAt = "ready" => Configured \in envKeys \cup osKeys \/ mishaps # {}

\* Across the runs of the program, however they end.
KeyNeverLost == KeysKept /\ ReadyHasKey
=============================================================================
