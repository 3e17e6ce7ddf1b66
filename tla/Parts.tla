-------------------------------- MODULE Parts --------------------------------
(***************************************************************************)
(* Seven components that share no state, checked in one run: the first     *)
(* state chooses the part that moves, the others stay as they begin.       *)
(***************************************************************************)
EXTENDS OrganizerTools, StreamingPlayer, TextChunker, MicInput, Credentials,
        DesktopHost, SystemControls

VARIABLE part   \* the component this behaviour is about

partVars == <<toolVars, playerVars, chunkerVars, micVars, credentialVars, hostVars,
              controlVars>>

PartNames == {"organizer", "player", "chunker", "microphone", "credentials", "desktop",
              "controls"}

PartsInit ==
    /\ part \in PartNames
    /\ ToolsInit /\ PlayerInit /\ ChunkerInit /\ MicInit /\ CredentialsInit /\ HostInit
    /\ ControlsInit

OrganizerMoves ==
    /\ part = "organizer" /\ ToolsNext
    /\ UNCHANGED <<part, playerVars, chunkerVars, micVars, credentialVars, hostVars,
                   controlVars>>

PlayerMoves ==
    /\ part = "player" /\ PlayerNext
    /\ UNCHANGED <<part, toolVars, chunkerVars, micVars, credentialVars, hostVars,
                   controlVars>>

ChunkerMoves ==
    /\ part = "chunker" /\ ChunkerNext
    /\ UNCHANGED <<part, toolVars, playerVars, micVars, credentialVars, hostVars,
                   controlVars>>

MicrophoneMoves ==
    /\ part = "microphone" /\ MicNext
    /\ UNCHANGED <<part, toolVars, playerVars, chunkerVars, credentialVars, hostVars,
                   controlVars>>

CredentialsMove ==
    /\ part = "credentials" /\ CredentialsNext
    /\ UNCHANGED <<part, toolVars, playerVars, chunkerVars, micVars, hostVars,
                   controlVars>>

DesktopMoves ==
    /\ part = "desktop" /\ HostNext
    /\ UNCHANGED <<part, toolVars, playerVars, chunkerVars, micVars, credentialVars,
                   controlVars>>

ControlsMove ==
    /\ part = "controls" /\ ControlsNext
    /\ UNCHANGED <<part, toolVars, playerVars, chunkerVars, micVars, credentialVars,
                   hostVars>>

PartsNext ==
    \/ OrganizerMoves \/ PlayerMoves \/ ChunkerMoves
    \/ MicrophoneMoves \/ CredentialsMove \/ DesktopMoves
    \/ ControlsMove

PartsSpec == PartsInit /\ [][PartsNext]_<<partVars, part>>

\* What the threads of the player and the timers of the desktop do of
\* themselves; the caller, the user and the child process owe nothing.
FairPartsSpec == PartsSpec /\ PlayerFairness /\ HostFairness

----------------------------------------------------------------------------
PartsTypeOK ==
    /\ ToolsTypeOK /\ PlayerTypeOK /\ ChunkerTypeOK /\ MicTypeOK
    /\ CredentialsTypeOK /\ HostTypeOK /\ ControlsTypeOK

\* StreamingSpeechPlayer.finish() returns, interrupted or not, and a desktop
\* window that is closed goes away, whatever its child process does, unless
\* taskkill has not come back within its timeout.  (One part moves, so what
\* follows can only be the end of what was asked.)
EndsWhenAsked ==
    caller = "finishing" \/ closeWanted
      ~> caller \in {"finished", "failed"} \/ ~rootOpen \/ pollBroken
=============================================================================
