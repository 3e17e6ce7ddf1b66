------------------------------ MODULE PartsProofs ------------------------------
(***************************************************************************)
(* Parts keeps what its components keep: a step of one part is a stutter   *)
(* of the others, so that a behaviour of Parts is a behaviour of each.     *)
(* Nothing here uses that a single part moves in a behaviour: the parts    *)
(* share no state, and what holds of each holds of all of them together.   *)
(***************************************************************************)
EXTENDS Parts, OrganizerProofs, AudioProofs, HostProofs

LEMMA PartsBegin ==
  PartsInit => /\ ToolsInit /\ PlayerInit /\ ChunkerInit /\ MicInit /\ CredentialsInit
               /\ HostInit /\ ControlsInit
BY DEF PartsInit

\* A step of Parts is one of a component and leaves the variables of the others.
LEMMA OnePartMoves ==
  ASSUME [PartsNext]_<<partVars, part>>
  PROVE  /\ [ToolsNext]_toolVars /\ [PlayerNext]_playerVars /\ [ChunkerNext]_chunkerVars
         /\ [MicNext]_micVars /\ [CredentialsNext]_credentialVars /\ [HostNext]_hostVars
         /\ [ControlsNext]_controlVars
<1>1. CASE OrganizerMoves
  BY <1>1 DEF OrganizerMoves
<1>2. CASE PlayerMoves
  BY <1>2 DEF PlayerMoves
<1>3. CASE ChunkerMoves
  BY <1>3 DEF ChunkerMoves
<1>4. CASE MicrophoneMoves
  BY <1>4 DEF MicrophoneMoves
<1>5. CASE CredentialsMove
  BY <1>5 DEF CredentialsMove
<1>6. CASE DesktopMoves
  BY <1>6 DEF DesktopMoves
<1>7. CASE ControlsMove
  BY <1>7 DEF ControlsMove
<1>8. CASE UNCHANGED <<partVars, part>>
  BY <1>8 DEF partVars
<1> QED
  BY <1>1, <1>2, <1>3, <1>4, <1>5, <1>6, <1>7, <1>8 DEF PartsNext

\* Parts implements every component it checks.
LEMMA PartsAreTheirs ==
  PartsSpec => /\ ToolsSpec /\ PlayerSpec /\ ChunkerSpec /\ MicSpec /\ CredentialsSpec
               /\ HostSpec /\ ControlsSpec
BY PartsBegin, OnePartMoves, PTL
   DEF PartsSpec, ToolsSpec, PlayerSpec, ChunkerSpec, MicSpec, CredentialsSpec, HostSpec,
       ControlsSpec

LEMMA PartsInvAlways ==
  PartsSpec => [](/\ OrganizerInv /\ PlayerInv /\ ChunkerInv /\ MicInv /\ CredentialsInv
                  /\ HostInv /\ ControlsInv)
<1>1. ChunkerInv /\ [ChunkerNext]_chunkerVars => ChunkerInv'
  BY PushTextKeeps, FinishTextKeeps, ChunkerStays DEF ChunkerNext
<1>2. CredentialsInv /\ [CredentialsNext]_credentialVars => CredentialsInv'
  BY CredentialsKept, CredentialsStay
<1>3. HostInv /\ [HostNext]_hostVars => HostInv'
  BY HostKept, HostStays
<1> QED
  BY <1>1, <1>2, <1>3, PartsBegin, OnePartMoves, InvInit, InvKept, PlayerInvInit,
     PlayerInvKept, ChunkerBegins, MicInvInit, MicInvKept, CredentialsBegin, HostBegins,
     ControlsBegin, ControlsKept, PTL DEF PartsSpec

\* The state of every component keeps its form, for any values of the
\* constants: the rows of the organizer, the queues of the player and of the
\* microphone, the text of an answer, the keys, the window and the controls.
THEOREM PartsTyped == PartsSpec => []PartsTypeOK
<1>1. OrganizerInv => ToolsTypeOK
  BY DEF OrganizerInv, RowsOK, AckedOK, CallsHold, RestOK, ToolsTypeOK
<1>2. PlayerInv => PlayerTypeOK
  BY DEF PlayerInv
<1>3. ChunkerInv => ChunkerTypeOK
  BY DEF ChunkerInv
<1>4. MicInv => MicTypeOK
  BY DEF MicInv
<1>5. CredentialsInv => CredentialsTypeOK
  BY DEF CredentialsInv
<1>6. HostInv => HostTypeOK
  BY DEF HostInv
<1>7. ControlsInv => ControlsTypeOK
  BY DEF ControlsInv
<1>8. OrganizerInv /\ PlayerInv /\ ChunkerInv /\ MicInv /\ CredentialsInv /\ HostInv
        /\ ControlsInv => PartsTypeOK
  BY <1>1, <1>2, <1>3, <1>4, <1>5, <1>6, <1>7 DEF PartsTypeOK
<1> QED
  BY <1>8, PartsInvAlways, PTL

\* Parts keeps every safety property its run checks of the seven components,
\* for any values of the constants: what the organizer reports as stored and
\* lists, what the player says and promises, the text of an answer, the
\* utterances, the keys, the window and the controls.
THEOREM PartsKeepAll ==
  PartsSpec => /\ []StoredWhole /\ []ListingIsComplete /\ NothingUndone
               /\ []SaidInFull /\ ImplementsAnswer /\ []SpokenText /\ []UtteranceIsWhole
               /\ []KeyNeverLost /\ []WindowIsKept /\ []ControlsSettle
BY PartsAreTheirs, StoreIsWhole, ListingsAreComplete, NothingIsUndone, AnswerIsSaid,
   PlayerSpeaksTheAnswer, TextIsSpoken, SpeechIsWhole, KeysAreKept, WindowsAreKept,
   ControlsAreSettled, PTL
=============================================================================
