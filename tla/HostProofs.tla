------------------------------- MODULE HostProofs -------------------------------
(***************************************************************************)
(* Proofs about what is around the voice loop: the keys it needs, for any  *)
(* providers, the window of the desktop host that runs it, and what its    *)
(* tools do to the machine, for any displays and any scale.                *)
(***************************************************************************)
EXTENDS Credentials, DesktopHost, SystemControls, TLAPS

\* The provider the text of .env to be written will configure.
PageConfigured == IF page.provider = Unset THEN DefaultName ELSE page.provider

\* The places a process is at with the vault made.
WithVault == {"store", "empty", "write", "unlock", "securing", "scrub", "restoring"}

\* Where the keys are in the middle of something.
Underway ==
    /\ setupAt \in WithVault => vaultMade
    /\ setupAt = "store" => \A p, q \in toStore : p = q
    /\ setupAt \in {"empty", "write"} => toStore \subseteq secrets
    /\ setupAt = "write" => page.provider \in toStore
    /\ setupAt = "securing" => envKeys \subseteq secrets \cup toStore
    /\ setupAt \in {"write", "scrub"} => envKeys = {}

\* A vault that is made has the key of the configured provider, or .env has,
\* or the one who is at it will see to that.
VaultServes ==
    mishaps = {} =>
      /\ setupAt \in {"off", "form", "unlock", "ready", "refused"} /\ vaultMade
            => Configured \in envKeys \cup secrets
      /\ setupAt = "unlock" => Configured \in secrets
      /\ setupAt = "securing" => Configured \in envKeys
      /\ setupAt = "scrub" => PageConfigured \in secrets
      /\ setupAt \in {"rekeying", "restoring"}
            => Configured \in envKeys \cup secrets \cup toStore
      /\ setupAt \in {"rekeying", "restoring"} => Configured \in envKeys \cup osKeys

CredentialsInv == CredentialsTypeOK /\ Underway /\ KeysKept /\ VaultServes /\ ReadyHasKey

----------------------------------------------------------------------------
LEMMA CredentialsBegin == ASSUME CredentialsInit PROVE CredentialsInv
<1>1. CredentialsTypeOK
  <2>1. NoPage \in [provider : Providers \cup {Unset}, keys : SUBSET Providers]
    BY DEF NoPage
  <2>2. gui \in BOOLEAN
    BY DEF CredentialsInit
  <2>3. attemptsLeft \in 0..Attempts
    BY CredentialsAssumption DEF CredentialsInit
  <2> QED
    BY <2>1, <2>2, <2>3 DEF CredentialsInit, CredentialsTypeOK
<1>2. Underway /\ KeysKept /\ VaultServes /\ ReadyHasKey
  BY DEF CredentialsInit, Underway, KeysKept, VaultServes, ReadyHasKey, WithVault
<1> QED
  BY <1>1, <1>2 DEF CredentialsInv

LEMMA CredentialsKept ==
  ASSUME CredentialsInv, CredentialsNext
  PROVE  CredentialsInv'
<1> DEFINE PageType == [provider : Providers \cup {Unset}, keys : SUBSET Providers]
<1>0. NoPage \in PageType
  BY DEF NoPage
<1> USE CredentialsAssumption
    DEF CredentialsInv, CredentialsTypeOK, Underway, KeysKept, VaultServes, ReadyHasKey,
        WithVault, envFile, vault, Configured, PageConfigured
<1>1. ASSUME NEW p \in Providers, UserAddsKey(p) PROVE CredentialsInv'
  BY <1>1 DEF UserAddsKey
<1>2. ASSUME NEW p \in Providers, UserSwitches(p) PROVE CredentialsInv'
  BY <1>2 DEF UserSwitches
<1>3. ASSUME NEW p \in Providers, SaveSetup(p) PROVE CredentialsInv'
  BY <1>3 DEF SaveSetup
<1>4. ASSUME NEW p \in Providers, StoreKey(p) PROVE CredentialsInv'
  BY <1>4 DEF StoreKey
<1>5. ASSUME NEW p \in Providers, SecureKey(p) PROVE CredentialsInv'
  BY <1>5 DEF SecureKey
<1>6. ASSUME NEW p \in Providers, RestoreKey(p) PROVE CredentialsInv'
  BY <1>6 DEF RestoreKey
<1>7. CASE EnsureCredentialsReady
  BY <1>7 DEF EnsureCredentialsReady
<1>8. CASE SetupWindowFails
  BY <1>8 DEF SetupWindowFails
<1>9. CASE RewriteForSetup
  <2>1. PICK p \in toStore : EmptyEnv([provider |-> p, keys |-> envKeys], "write")
    BY <1>9 DEF RewriteForSetup
  <2>2. page'.provider = p /\ page'.keys = envKeys
        /\ page' \in [provider : Providers \cup {Unset}, keys : SUBSET Providers]
    BY <2>1 DEF EmptyEnv
  <2>3. CredentialsTypeOK'
    BY <2>1, <2>2 DEF EmptyEnv
  <2>4. Underway' /\ KeysKept' /\ VaultServes' /\ ReadyHasKey'
    BY <1>9, <2>1, <2>2 DEF RewriteForSetup, EmptyEnv
  <2> QED
    BY <2>3, <2>4
<1>10. CASE FinishSetup
  <2>1. /\ page.provider \in toStore /\ page \in PageType /\ page.provider # Unset
        /\ page.keys \subseteq Providers
        /\ envProvider' = page.provider /\ envKeys' = page.keys /\ page' = NoPage
    BY <1>10 DEF FinishSetup, WriteEnv
  <2>2. Configured' \in osKeys' /\ Configured' \in secrets'
    BY <1>10, <2>1 DEF FinishSetup, WriteEnv
  <2>3. CredentialsTypeOK'
    BY <1>0, <1>10, <2>1 DEF FinishSetup, WriteEnv
  <2>4. Underway' /\ KeysKept'
    BY <1>10, <2>1 DEF FinishSetup, WriteEnv
  <2>5. VaultServes' /\ ReadyHasKey'
    BY <1>10, <2>2 DEF FinishSetup, WriteEnv
  <2> QED
    BY <2>3, <2>4, <2>5
<1>11. CASE UnlockWindowFails
  <2>1. gui' \in BOOLEAN
    BY <1>11 DEF UnlockWindowFails
  <2>2. attemptsLeft' \in 0..Attempts
    BY <1>11 DEF UnlockWindowFails
  <2> QED
    BY <1>11, <2>1, <2>2 DEF UnlockWindowFails
<1>12. CASE WrongPassword
  BY <1>12 DEF WrongPassword
<1>13. CASE Unlocked
  BY <1>13 DEF Unlocked
<1>14. CASE Refused
  BY <1>14 DEF Refused
<1>15. CASE SecureExistingEnv
  BY <1>15 DEF SecureExistingEnv, Found
<1>16. CASE ScrubEnv
  BY <1>16 DEF ScrubEnv, EmptyEnv
<1>17. CASE Secured
  BY <1>0, <1>17 DEF Secured, WriteEnv
<1>18. CASE ChangePassword
  BY <1>18 DEF ChangePassword
<1>19. CASE CreateAgain
  BY <1>19 DEF CreateAgain
<1>20. CASE Rekeyed
  BY <1>20 DEF Rekeyed
<1>21. CASE ProcessEnds
  <2>0. gui' \in BOOLEAN /\ page' \in PageType
    BY <1>0, <1>21 DEF ProcessEnds
  <2>1. CredentialsTypeOK'
    BY <1>21, <2>0 DEF ProcessEnds, Half
  <2>2. Underway' /\ KeysKept'
    BY <1>21 DEF ProcessEnds, Half
  <2>3. VaultServes' /\ ReadyHasKey'
    BY <1>21 DEF ProcessEnds, Half
  <2> QED
    BY <2>1, <2>2, <2>3
<1>22. CASE SetupRaises
  BY <1>0, <1>22 DEF SetupRaises, Half
<1> QED
  BY <1>1, <1>2, <1>3, <1>4, <1>5, <1>6, <1>7, <1>8, <1>9, <1>10, <1>11, <1>12, <1>13, <1>14, <1>15, <1>16, <1>17, <1>18, <1>19, <1>20, <1>21, <1>22 DEF CredentialsNext

LEMMA CredentialsStay ==
  ASSUME CredentialsInv, UNCHANGED credentialVars
  PROVE  CredentialsInv'
  BY DEF CredentialsInv, CredentialsTypeOK, Underway, KeysKept, VaultServes, ReadyHasKey,
         credentialVars, Configured, PageConfigured

\* Set-ups, unlocks, the securing of .env and changes of the password, each cut
\* short at any point: a key that was entrusted is in .env or in the vault, and
\* "ready" means that there is one, but for the mishaps the properties name.
THEOREM KeysAreKept == CredentialsSpec => []KeyNeverLost
<1>1. CredentialsInit => CredentialsInv
  BY CredentialsBegin
<1>2. CredentialsInv /\ [CredentialsNext]_credentialVars => CredentialsInv'
  BY CredentialsKept, CredentialsStay
<1>3. CredentialsInv => KeyNeverLost
  BY DEF CredentialsInv, KeyNeverLost
<1> QED
  BY <1>1, <1>2, <1>3, PTL DEF CredentialsSpec

----------------------------------------------------------------------------
\* The two ways a window is as it was last asked to be, before the host has
\* looked at everything.
AskedToShow == lastAsk = "show" => command # "hide" /\ (visible \/ wakeUnread)
AskedToHide ==
    lastAsk = "hide" =>
      /\ ~wakeUnread
      /\ ~visible \/ command = "empty" \/ (command = "hide" /\ commandUnread)

HostInv ==
    /\ HostTypeOK
    /\ NoOrphan
    /\ output # "open" => child \in {"closing", "dead"}
    /\ child \in {"none", "running"} /\ ~crossed => AskedToShow /\ AskedToHide
----------------------------------------------------------------------------
LEMMA HostBegins == ASSUME HostInit PROVE HostInv
  BY DEF HostInit, HostInv, HostTypeOK, NoOrphan, AskedToShow, AskedToHide

LEMMA HostKept ==
  ASSUME HostInv, HostNext
  PROVE  HostInv'
<1> USE DEF HostInv, HostTypeOK, NoOrphan, AskedToShow, AskedToHide, Idle, Alive,
            stopVars, signalVars, windowVars
<1>1. CASE StartProcess
  BY <1>1 DEF StartProcess
<1>2. ASSUME NEW close \in BOOLEAN, RequestStop(close) PROVE HostInv'
  BY <1>2 DEF RequestStop, CloseAsked
<1>3. CASE CloseWithoutChild
  BY <1>3 DEF CloseWithoutChild
<1>4. CASE GraceOver
  BY <1>4 DEF GraceOver
<1>5. CASE PollFindsItDead
  BY <1>5 DEF PollFindsItDead, FinishStop
<1>6. CASE ForceKill
  BY <1>6 DEF ForceKill
<1>7. CASE KillFails
  BY <1>7 DEF KillFails
<1>8. CASE KillRaises
  BY <1>8 DEF KillRaises
<1>9. CASE ReaderEnds
  BY <1>9 DEF ReaderEnds
<1>10. CASE DrainOutput
  BY <1>10 DEF DrainOutput, FinishStop
<1>11. CASE UserShows
  BY <1>11 DEF UserShows
<1>12. CASE UserMinimizes
  BY <1>12 DEF UserMinimizes
<1>13. CASE PollSignals
  BY <1>13 DEF PollSignals, LookOrder
<1>14. CASE DeleteCommand
  BY <1>14 DEF DeleteCommand
<1>15. CASE SignalWake
  BY <1>15 DEF SignalWake
<1>16. CASE OpenCommand
  BY <1>16 DEF OpenCommand
<1>17. CASE WriteCommand
  BY <1>17 DEF WriteCommand
<1>18. CASE ChildCloses
  BY <1>18 DEF ChildCloses
<1>19. CASE ChildDies
  BY <1>19 DEF ChildDies
<1> QED
  BY <1>1, <1>2, <1>3, <1>4, <1>5, <1>6, <1>7, <1>8, <1>9, <1>10, <1>11, <1>12, <1>13, <1>14, <1>15, <1>16, <1>17, <1>18, <1>19 DEF HostNext

LEMMA HostStays ==
  ASSUME HostInv, UNCHANGED hostVars
  PROVE  HostInv'
  BY DEF HostInv, HostTypeOK, NoOrphan, AskedToShow, AskedToHide, hostVars

LEMMA HostInvSuffices == ASSUME HostInv PROVE WindowIsKept
  BY DEF HostInv, HostTypeOK, NoOrphan, AskedToShow, AskedToHide, WindowIsKept, WindowFollows

\* The user, the child and the host at the window at once, through two files
\* that are looked at late: no voice loop outlives a closed window, and when
\* there is nothing left to look at the window is as it was last asked to be,
\* but for wishes that crossed.
THEOREM WindowsAreKept == HostSpec => []WindowIsKept
<1>1. HostInit => HostInv
  BY HostBegins
<1>2. HostInv /\ [HostNext]_hostVars => HostInv'
  BY HostKept, HostStays
<1>3. HostInv => WindowIsKept
  BY HostInvSuffices
<1> QED
  BY <1>1, <1>2, <1>3, PTL DEF HostSpec

----------------------------------------------------------------------------
(* The volume, the brightness and the screenshot tool.                     *)

\* A change of the volume nobody has come between leads where it was asked to.
VolumeKept ==
    /\ ChangesAddUp
    /\ \A t \in Callers : tool[t].place = "volume" /\ ~tool[t].stale
                            => tool[t].target = clamp_percent(volume + tool[t].delta)

\* A change of the brightness nobody has come between has set what it has done.
DisplaysKept ==
    /\ DisplaysAgree
    /\ \A t \in Callers : tool[t].place = "brightness" /\ ~tool[t].stale
                            => \A d \in Displays \ tool[t].todo : brightness[d] = tool[t].target

\* A call remembers to bring the window back only between its picture and its
\* end, and the window it has hidden stays hidden until someone shows it.
HidKept ==
    \A t \in Callers :
       /\ tool[t].hid => tool[t].place \in {"grab", "restore"}
       /\ tool[t].hid /\ tool[t].place = "grab" /\ ~tool[t].stale => ~onScreen

\* Whoever hides the window does so while the host wants it shown.
WishKept ==
    \/ spoiledWish
    \/ /\ \A t \in Callers : tool[t].place = "hide" \/ tool[t].hid => wishShown
       /\ (\A t \in Callers : ~tool[t].hid) => onScreen = wishShown

ScreenKept == PictureIsClean /\ HidKept /\ WishKept

ControlsInv == ControlsTypeOK /\ VolumeKept /\ DisplaysKept /\ ScreenKept

----------------------------------------------------------------------------
LEMMA ClampedIsPercent ==
  ASSUME NEW p
  PROVE  clamp_percent(p) \in Percents
  BY ControlsAssumption DEF clamp_percent, Percents

LEMMA NoToolTyped == NoTool \in ToolType
  BY ControlsAssumption DEF NoTool, ToolType, Percents, Deltas

\* What Becomes and Outdated make of the calls, one call at a time.
LEMMA BecomesCalls ==
  ASSUME NEW calls, calls \in [Callers -> ToolType], NEW t \in Callers, NEW call \in ToolType
  PROVE  /\ [calls EXCEPT ![t] = call] \in [Callers -> ToolType]
         /\ [calls EXCEPT ![t] = call][t] = call
         /\ \A u \in Callers \ {t} : [calls EXCEPT ![t] = call][u] = calls[u]
  OBVIOUS

LEMMA OutdatedCalls ==
  ASSUME NEW calls, calls \in [Callers -> ToolType], NEW by, NEW places
  PROVE  /\ Outdated(calls, by, places) \in [Callers -> ToolType]
         /\ \A u \in Callers :
              /\ Outdated(calls, by, places)[u].place = calls[u].place
              /\ Outdated(calls, by, places)[u].target = calls[u].target
              /\ Outdated(calls, by, places)[u].delta = calls[u].delta
              /\ Outdated(calls, by, places)[u].todo = calls[u].todo
              /\ Outdated(calls, by, places)[u].hid = calls[u].hid
              /\ Outdated(calls, by, places)[u].pictured = calls[u].pictured
              /\ Outdated(calls, by, places)[u].stale
                   <=> (calls[u].stale \/ (u # by /\ calls[u].place \in places))
<1> DEFINE new == Outdated(calls, by, places)
<1>1. ASSUME NEW u \in Callers
      PROVE  /\ new[u] = IF u # by /\ calls[u].place \in places
                         THEN [calls[u] EXCEPT !.stale = TRUE] ELSE calls[u]
             /\ calls[u] \in ToolType
             /\ new[u] \in ToolType
  <2>1. calls[u] \in ToolType
    OBVIOUS
  <2>2. [calls[u] EXCEPT !.stale = TRUE] \in ToolType
    BY <2>1 DEF ToolType
  <2> QED
    BY <2>1, <2>2 DEF Outdated
<1>2. new \in [Callers -> ToolType]
  BY <1>1 DEF Outdated
<1>3. ASSUME NEW u \in Callers
      PROVE  /\ new[u].place = calls[u].place /\ new[u].target = calls[u].target
             /\ new[u].delta = calls[u].delta /\ new[u].todo = calls[u].todo
             /\ new[u].hid = calls[u].hid /\ new[u].pictured = calls[u].pictured
             /\ new[u].stale <=> (calls[u].stale \/ (u # by /\ calls[u].place \in places))
  <2> HIDE DEF new
  <2> QED
    BY <1>1, <1>3 DEF ToolType
<1> QED
  BY <1>2, <1>3

LEMMA ControlsBegin == ASSUME ControlsInit PROVE ControlsInv
<1>1. ControlsTypeOK
  <2>1. Top \in Percents
    BY ControlsAssumption DEF Percents
  <2>2. volume \in Percents /\ wantedVolume \in Percents
    BY <2>1 DEF ControlsInit
  <2>3. brightness \in [Displays -> Percents] /\ even \in Percents \cup {NotEven}
    BY <2>1 DEF ControlsInit
  <2>4. {onScreen, overlapped, wishShown, spoiledWish} \subseteq BOOLEAN
    BY DEF ControlsInit
  <2>5. tool \in [Callers -> ToolType]
    BY NoToolTyped DEF ControlsInit
  <2> QED
    BY <2>2, <2>3, <2>4, <2>5 DEF ControlsTypeOK
<1>2. \A t \in Callers : tool[t] = NoTool
  BY DEF ControlsInit
<1>3. \A t \in Callers : tool[t].place = "none" /\ tool[t].hid = FALSE
  BY <1>2 DEF NoTool
<1>4. VolumeKept /\ DisplaysKept
  BY <1>3 DEF ControlsInit, VolumeKept, ChangesAddUp, DisplaysKept, DisplaysAgree
<1>5. ScreenKept
  BY <1>3 DEF ControlsInit, ScreenKept, PictureIsClean, HidKept, WishKept
<1> QED
  BY <1>1, <1>4, <1>5 DEF ControlsInv

LEMMA InvSuffices == ASSUME ControlsInv PROVE ControlsSettle
<1>1. ASSUME tool = [t \in Callers |-> NoTool]
      PROVE  spoiledWish \/ onScreen = wishShown
  <2>1. \A t \in Callers : ~tool[t].hid
    BY <1>1 DEF NoTool
  <2> QED
    BY <2>1 DEF ControlsInv, ScreenKept, WishKept
<1> QED
  BY <1>1 DEF ControlsInv, VolumeKept, DisplaysKept, ScreenKept, ControlsSettle, WindowComesBack
----------------------------------------------------------------------------
\* The call of one thread changes, which had not hidden the window, and nothing
\* else does: a tool that begins, is cut short, or could not hide the window.
LEMMA CallReplaced ==
  ASSUME ControlsInv, NEW t \in Callers, NEW call \in ToolType,
         ~tool[t].hid, tool' = Becomes(t, call),
         UNCHANGED <<volumeVars, displayVars, screenVars>>,
         ~call.hid,
         call.place = "volume" => call.target = clamp_percent(volume + call.delta),
         call.place = "brightness" => call.todo = Displays,
         call.place = "hide" => onScreen
  PROVE  ControlsInv'
<1>1. /\ tool' \in [Callers -> ToolType] /\ tool'[t] = call
      /\ \A u \in Callers \ {t} : tool'[u] = tool[u]
  BY BecomesCalls DEF ControlsInv, ControlsTypeOK, Becomes
<1>2. /\ volume' = volume /\ wantedVolume' = wantedVolume /\ overlapped' = overlapped
      /\ brightness' = brightness /\ even' = even
      /\ onScreen' = onScreen /\ wishShown' = wishShown /\ spoiledWish' = spoiledWish
  BY DEF volumeVars, displayVars, screenVars
<1>3. ControlsTypeOK'
  BY <1>1, <1>2 DEF ControlsInv, ControlsTypeOK
<1>4. VolumeKept'
  BY <1>1, <1>2 DEF ControlsInv, VolumeKept, ChangesAddUp
<1>5. DisplaysKept'
  BY <1>1, <1>2 DEF ControlsInv, DisplaysKept, DisplaysAgree
<1>6. PictureIsClean' /\ HidKept'
  BY <1>1, <1>2 DEF ControlsInv, ScreenKept, PictureIsClean, HidKept
<1>7. WishKept'
  <2>1. CASE spoiledWish
    BY <2>1, <1>2 DEF WishKept
  <2>2. CASE \E u \in Callers : tool[u].hid
    BY <2>2, <1>1, <1>2 DEF ControlsInv, ScreenKept, WishKept
  <2>3. CASE ~spoiledWish /\ \A u \in Callers : ~tool[u].hid
    BY <2>3, <1>1, <1>2 DEF ControlsInv, ScreenKept, WishKept
  <2> QED
    BY <2>1, <2>2, <2>3
<1> QED
  BY <1>3, <1>4, <1>5, <1>6, <1>7 DEF ControlsInv, ScreenKept

LEMMA ToolBegins ==
  ASSUME ControlsInv, NEW t \in Callers,
         \/ system_volume_change(t) \/ screen_brightness_set(t)
         \/ screen_brightness_change(t) \/ BrightnessCutShort(t) \/ desktop_capture(t)
  PROVE  ControlsInv'
<1>0. ~NoTool.hid /\ ~NoTool.pictured /\ NoTool.place = "none" /\ NoTool \in ToolType
  BY NoToolTyped DEF NoTool
<1>1. CASE system_volume_change(t)
  <2>1. PICK delta \in Deltas :
          tool' = Becomes(t, [NoTool EXCEPT !.place = "volume", !.delta = delta,
                                            !.target = clamp_percent(volume + delta)])
    BY <1>1 DEF system_volume_change
  <2> DEFINE call == [NoTool EXCEPT !.place = "volume", !.delta = delta,
                                    !.target = clamp_percent(volume + delta)]
  <2>2. clamp_percent(volume + delta) \in Percents
    BY ClampedIsPercent
  <2>3. /\ call \in ToolType /\ call.place = "volume" /\ ~call.hid /\ ~call.pictured
        /\ call.target = clamp_percent(volume + call.delta)
    BY <2>2, ControlsAssumption DEF NoTool, ToolType
  <2>4. ~tool[t].hid
    BY <1>1 DEF system_volume_change, ControlsInv, ScreenKept, HidKept
  <2> HIDE DEF call
  <2> QED
    BY <1>1, <2>1, <2>3, <2>4, CallReplaced DEF system_volume_change, call
<1>2. ASSUME NEW p, SetBrightness(t, p) PROVE ControlsInv'
  <2> DEFINE call == [NoTool EXCEPT !.place = "brightness", !.todo = Displays,
                                    !.target = clamp_percent(p)]
  <2>1. clamp_percent(p) \in Percents
    BY ClampedIsPercent
  <2>2. /\ call \in ToolType /\ call.place = "brightness" /\ call.todo = Displays
        /\ ~call.hid /\ ~call.pictured
    BY <2>1, NoToolTyped DEF NoTool, ToolType
  <2>3. ~tool[t].hid
    BY <1>2 DEF SetBrightness, ControlsInv, ScreenKept, HidKept
  <2>4. tool' = Becomes(t, call) /\ UNCHANGED <<volumeVars, displayVars, screenVars>>
    BY <1>2 DEF SetBrightness
  <2> HIDE DEF call
  <2> QED
    BY <2>2, <2>3, <2>4, CallReplaced
<1>3. CASE screen_brightness_set(t) \/ screen_brightness_change(t)
  BY <1>2, <1>3 DEF screen_brightness_set, screen_brightness_change
<1>4. CASE BrightnessCutShort(t)
  <2>1. ~tool[t].hid
    BY <1>4 DEF BrightnessCutShort, ControlsInv, ScreenKept, HidKept
  <2> QED
    BY <1>0, <1>4, <2>1, CallReplaced DEF BrightnessCutShort, Done
<1>5. CASE desktop_capture(t)
  <2>1. PICK include \in BOOLEAN : CaptureBegins(t, include)
    BY <1>5 DEF desktop_capture
  <2> DEFINE call == [NoTool EXCEPT !.place = IF ~include /\ FoundOnScreen
                                              THEN "hide" ELSE "grab"]
  <2>2. /\ call \in ToolType /\ call.place \in {"hide", "grab"}
        /\ ~call.hid /\ ~call.pictured /\ (call.place = "hide" => onScreen)
    BY NoToolTyped DEF NoTool, ToolType, FoundOnScreen
  <2>3. ~tool[t].hid
    BY <2>1 DEF CaptureBegins, ControlsInv, ScreenKept, HidKept
  <2>4. tool' = Becomes(t, call) /\ UNCHANGED <<volumeVars, displayVars, screenVars>>
    BY <2>1 DEF CaptureBegins
  <2> HIDE DEF call
  <2> QED
    BY <2>2, <2>3, <2>4, CallReplaced
<1> QED
  BY <1>1, <1>3, <1>4, <1>5

\* The volume is set to p, by a tool or by the user: who was about to change it
\* is outdated, and the sum begins anew.
LEMMA VolumeSet ==
  ASSUME ControlsInv, NEW by, NEW p, SetVolume(p), tool' = Outdated(tool, by, {"volume"}),
         by \in Callers => tool[by].place = "none"
  PROVE  ControlsInv'
<1>1. /\ tool' \in [Callers -> ToolType]
      /\ \A u \in Callers :
            /\ tool'[u].place = tool[u].place /\ tool'[u].target = tool[u].target
            /\ tool'[u].delta = tool[u].delta /\ tool'[u].todo = tool[u].todo
            /\ tool'[u].hid = tool[u].hid /\ tool'[u].pictured = tool[u].pictured
            /\ tool'[u].stale <=> (tool[u].stale \/ (u # by /\ tool[u].place \in {"volume"}))
  BY OutdatedCalls DEF ControlsInv, ControlsTypeOK
<1>2. /\ volume' = clamp_percent(p) /\ wantedVolume' = clamp_percent(p) /\ overlapped' = FALSE
      /\ brightness' = brightness /\ even' = even
      /\ onScreen' = onScreen /\ wishShown' = wishShown /\ spoiledWish' = spoiledWish
  BY DEF SetVolume, displayVars, screenVars
<1>3. ControlsTypeOK'
  BY <1>1, <1>2, ClampedIsPercent DEF ControlsInv, ControlsTypeOK
<1>4. VolumeKept'
  BY <1>1, <1>2 DEF ControlsInv, VolumeKept, ChangesAddUp
<1>5. DisplaysKept'
  BY <1>1, <1>2 DEF ControlsInv, DisplaysKept, DisplaysAgree
<1>6. PictureIsClean' /\ HidKept'
  BY <1>1, <1>2 DEF ControlsInv, ScreenKept, PictureIsClean, HidKept
<1>7. WishKept'
  BY <1>1, <1>2 DEF ControlsInv, ScreenKept, WishKept
<1> QED
  BY <1>3, <1>4, <1>5, <1>6, <1>7 DEF ControlsInv, ScreenKept

\* A relative change is written.  When nobody has come between, it leads from
\* the sum of those before to that sum with its own.
LEMMA VolumeChangedKeeps ==
  ASSUME ControlsInv, NEW t \in Callers, VolumeChanged(t)
  PROVE  ControlsInv'
<1> DEFINE calls == [tool EXCEPT ![t] = NoTool]
<1>1. /\ calls \in [Callers -> ToolType] /\ calls[t] = NoTool
      /\ \A u \in Callers \ {t} : calls[u] = tool[u]
  BY NoToolTyped, BecomesCalls DEF ControlsInv, ControlsTypeOK
<1>2. tool' = Outdated(calls, t, {"volume"})
  BY DEF VolumeChanged, Done, Becomes
<1> HIDE DEF calls
<1>3. /\ tool' \in [Callers -> ToolType]
      /\ tool'[t].place = "none" /\ ~tool'[t].hid
      /\ \A u \in Callers \ {t} :
            /\ tool'[u].place = tool[u].place /\ tool'[u].target = tool[u].target
            /\ tool'[u].delta = tool[u].delta /\ tool'[u].todo = tool[u].todo
            /\ tool'[u].hid = tool[u].hid /\ tool'[u].pictured = tool[u].pictured
            /\ tool'[u].stale <=> (tool[u].stale \/ tool[u].place \in {"volume"})
  BY <1>1, <1>2, OutdatedCalls DEF NoTool
<1>4. /\ tool[t].place = "volume" /\ volume' = tool[t].target
      /\ wantedVolume' = clamp_percent(wantedVolume + tool[t].delta)
      /\ overlapped' = (overlapped \/ tool[t].stale)
      /\ brightness' = brightness /\ even' = even
      /\ onScreen' = onScreen /\ wishShown' = wishShown /\ spoiledWish' = spoiledWish
  BY DEF VolumeChanged, displayVars, screenVars
<1>5. tool[t] \in ToolType /\ tool[t].target \in Percents
      /\ overlapped \in BOOLEAN /\ tool[t].stale \in BOOLEAN
  BY DEF ControlsInv, ControlsTypeOK, ToolType
<1>6. ControlsTypeOK'
  <2>1. volume' \in Percents /\ wantedVolume' \in Percents
    BY <1>4, <1>5, ClampedIsPercent
  <2>2. overlapped' \in BOOLEAN
    BY <1>4, <1>5
  <2> QED
    BY <1>3, <1>4, <2>1, <2>2 DEF ControlsInv, ControlsTypeOK
<1>7. VolumeKept'
  <2>1. ChangesAddUp'
    BY <1>4, <1>5 DEF ControlsInv, VolumeKept, ChangesAddUp
  <2> QED
    BY <1>3, <2>1 DEF VolumeKept
<1>8. DisplaysKept'
  BY <1>3, <1>4 DEF ControlsInv, DisplaysKept, DisplaysAgree
<1>9. ~tool[t].hid
  BY <1>4 DEF ControlsInv, ScreenKept, HidKept
<1>10. PictureIsClean' /\ HidKept'
  BY <1>3, <1>4, <1>9 DEF ControlsInv, ScreenKept, PictureIsClean, HidKept
<1>11. WishKept'
  BY <1>3, <1>4, <1>9 DEF ControlsInv, ScreenKept, WishKept
<1> QED
  BY <1>6, <1>7, <1>8, <1>10, <1>11 DEF ControlsInv, ScreenKept

\* One display is set.  It was the last one of a call nobody has come between:
\* then the others show the value already.
LEMMA DisplaySetKeeps ==
  ASSUME ControlsInv, NEW t \in Callers, NEW d \in Displays, DisplaySet(t, d)
  PROVE  ControlsInv'
<1> DEFINE last == tool[t].todo = {d}
           rest == [tool[t] EXCEPT !.todo = tool[t].todo \ {d}]
           call == IF last THEN NoTool ELSE rest
           calls == [tool EXCEPT ![t] = call]
<1>1. /\ tool[t] \in ToolType /\ tool[t].place = "brightness" /\ d \in tool[t].todo
      /\ tool[t].target \in Percents
  BY DEF DisplaySet, ControlsInv, ControlsTypeOK, ToolType
<1>2. /\ rest \in ToolType /\ rest.place = "brightness" /\ rest.target = tool[t].target
      /\ rest.todo = tool[t].todo \ {d} /\ rest.hid = tool[t].hid
      /\ rest.stale = tool[t].stale
  BY <1>1 DEF ToolType
<1>3. ~tool[t].hid
  BY <1>1 DEF ControlsInv, ScreenKept, HidKept
<1>4. /\ call \in ToolType /\ ~call.hid /\ call.place \in {"none", "brightness"}
      /\ call.place = "brightness" => /\ ~last /\ call.todo = tool[t].todo \ {d}
                                      /\ call.target = tool[t].target
                                      /\ call.stale = tool[t].stale
  <2> HIDE DEF rest, last
  <2>1. CASE last
    BY <2>1, NoToolTyped DEF NoTool
  <2>2. CASE ~last
    BY <2>2, <1>2, <1>3
  <2> QED
    BY <2>1, <2>2
<1>5. tool' = Outdated(calls, t, {"brightness"})
  BY DEF DisplaySet, Done, Becomes
<1>6. /\ brightness' = [brightness EXCEPT ![d] = tool[t].target]
      /\ even' = IF last /\ ~tool[t].stale THEN tool[t].target ELSE NotEven
      /\ volume' = volume /\ wantedVolume' = wantedVolume /\ overlapped' = overlapped
      /\ onScreen' = onScreen /\ wishShown' = wishShown /\ spoiledWish' = spoiledWish
  BY DEF DisplaySet, volumeVars, screenVars
<1> HIDE DEF call, rest
<1>7. /\ calls \in [Callers -> ToolType] /\ calls[t] = call
      /\ \A u \in Callers \ {t} : calls[u] = tool[u]
  BY <1>4, BecomesCalls DEF ControlsInv, ControlsTypeOK
<1> HIDE DEF calls
<1>8. /\ tool' \in [Callers -> ToolType]
      /\ tool'[t].place = call.place /\ ~tool'[t].hid
      /\ tool'[t].target = call.target /\ tool'[t].todo = call.todo
      /\ tool'[t].stale <=> call.stale
      /\ \A u \in Callers \ {t} :
            /\ tool'[u].place = tool[u].place /\ tool'[u].target = tool[u].target
            /\ tool'[u].delta = tool[u].delta /\ tool'[u].todo = tool[u].todo
            /\ tool'[u].hid = tool[u].hid /\ tool'[u].pictured = tool[u].pictured
            /\ tool'[u].stale <=> (tool[u].stale \/ tool[u].place \in {"brightness"})
  BY <1>4, <1>5, <1>7, OutdatedCalls
<1>9. ControlsTypeOK'
  BY <1>1, <1>6, <1>8 DEF ControlsInv, ControlsTypeOK
<1>10. VolumeKept'
  BY <1>4, <1>6, <1>8 DEF ControlsInv, VolumeKept, ChangesAddUp
<1>11. ~tool[t].stale => \A e \in Displays \ (tool[t].todo \ {d}) :
                            brightness'[e] = tool[t].target
  BY <1>1, <1>6 DEF ControlsInv, ControlsTypeOK, DisplaysKept
<1>12. DisplaysAgree'
  <2>1. CASE last /\ ~tool[t].stale
    BY <2>1, <1>6, <1>11 DEF DisplaysAgree
  <2>2. CASE ~(last /\ ~tool[t].stale)
    BY <2>2, <1>6 DEF DisplaysAgree
  <2> QED
    BY <2>1, <2>2
<1>13. DisplaysKept'
  BY <1>4, <1>8, <1>11, <1>12 DEF DisplaysKept
<1>14. PictureIsClean' /\ HidKept'
  BY <1>4, <1>6, <1>8 DEF ControlsInv, ScreenKept, PictureIsClean, HidKept
<1>15. WishKept'
  BY <1>3, <1>4, <1>6, <1>8 DEF ControlsInv, ScreenKept, WishKept
<1> QED
  BY <1>9, <1>10, <1>13, <1>14, <1>15 DEF ControlsInv, ScreenKept

LEMMA UserDimsKeeps ==
  ASSUME ControlsInv, NEW d \in Displays, UserDims(d)
  PROVE  ControlsInv'
<1>1. /\ tool' \in [Callers -> ToolType]
      /\ \A u \in Callers :
            /\ tool'[u].place = tool[u].place /\ tool'[u].target = tool[u].target
            /\ tool'[u].delta = tool[u].delta /\ tool'[u].todo = tool[u].todo
            /\ tool'[u].hid = tool[u].hid /\ tool'[u].pictured = tool[u].pictured
            /\ tool'[u].stale <=> (tool[u].stale \/ tool[u].place \in {"brightness"})
  <2>1. tool' = Outdated(tool, "user", {"brightness"})
    BY DEF UserDims
  <2>2. \A u \in Callers : u # "user"
    BY DEF Callers
  <2> QED
    BY <2>1, <2>2, OutdatedCalls DEF ControlsInv, ControlsTypeOK
<1>2. /\ volume' = volume /\ wantedVolume' = wantedVolume /\ overlapped' = overlapped
      /\ brightness' \in [Displays -> Percents] /\ even' = NotEven
      /\ onScreen' = onScreen /\ wishShown' = wishShown /\ spoiledWish' = spoiledWish
  BY DEF UserDims, volumeVars, screenVars, ControlsInv, ControlsTypeOK
<1>3. ControlsTypeOK'
  BY <1>1, <1>2 DEF ControlsInv, ControlsTypeOK
<1>4. VolumeKept'
  BY <1>1, <1>2 DEF ControlsInv, VolumeKept, ChangesAddUp
<1>5. DisplaysKept'
  BY <1>1, <1>2 DEF DisplaysKept, DisplaysAgree
<1>6. ScreenKept'
  BY <1>1, <1>2 DEF ControlsInv, ScreenKept, PictureIsClean, HidKept, WishKept
<1> QED
  BY <1>3, <1>4, <1>5, <1>6 DEF ControlsInv

----------------------------------------------------------------------------
\* The window is hidden, or it cannot be.  A call that is about to hide it has
\* found it on the screen, where the host wants it.
LEMMA CaptureHidesKeeps ==
  ASSUME ControlsInv, NEW t \in Callers, CaptureHides(t)
  PROVE  ControlsInv'
<1>1. tool[t] \in ToolType /\ tool[t].place = "hide" /\ ~tool[t].hid
  BY DEF CaptureHides, ControlsInv, ControlsTypeOK, ScreenKept, HidKept
<1>2. CASE /\ tool' = Becomes(t, [tool[t] EXCEPT !.place = "grab"])
           /\ UNCHANGED onScreen
  <2> DEFINE call == [tool[t] EXCEPT !.place = "grab"]
  <2>1. call \in ToolType /\ call.place = "grab" /\ ~call.hid
    BY <1>1 DEF ToolType
  <2>2. UNCHANGED <<volumeVars, displayVars, screenVars>>
    BY <1>2 DEF CaptureHides, screenVars
  <2> HIDE DEF call
  <2> QED
    BY <1>1, <1>2, <2>1, <2>2, CallReplaced DEF call
<1>3. CASE /\ onScreen' = FALSE
           /\ tool' = Becomes(t, [tool[t] EXCEPT !.place = "grab", !.hid = TRUE])
  <2> DEFINE call == [tool[t] EXCEPT !.place = "grab", !.hid = TRUE]
  <2>1. call \in ToolType /\ call.place = "grab" /\ call.hid
    BY <1>1 DEF ToolType
  <2> HIDE DEF call
  <2>2. /\ tool' \in [Callers -> ToolType] /\ tool'[t] = call
        /\ \A u \in Callers \ {t} : tool'[u] = tool[u]
    BY <1>3, <2>1, BecomesCalls DEF ControlsInv, ControlsTypeOK, Becomes, call
  <2>3. /\ volume' = volume /\ wantedVolume' = wantedVolume /\ overlapped' = overlapped
        /\ brightness' = brightness /\ even' = even
        /\ onScreen' = FALSE /\ wishShown' = wishShown /\ spoiledWish' = spoiledWish
    BY <1>3 DEF CaptureHides, volumeVars, displayVars
  <2>4. ControlsTypeOK'
    BY <2>2, <2>3 DEF ControlsInv, ControlsTypeOK
  <2>5. VolumeKept' /\ DisplaysKept'
    BY <2>1, <2>2, <2>3
    DEF ControlsInv, VolumeKept, ChangesAddUp, DisplaysKept, DisplaysAgree
  <2>6. PictureIsClean' /\ HidKept'
    BY <2>1, <2>2, <2>3 DEF ControlsInv, ScreenKept, PictureIsClean, HidKept
  <2>7. WishKept'
    BY <1>1, <2>1, <2>2, <2>3 DEF ControlsInv, ScreenKept, WishKept
  <2> QED
    BY <2>4, <2>5, <2>6, <2>7 DEF ControlsInv, ScreenKept
<1> QED
  BY <1>2, <1>3 DEF CaptureHides

\* The picture.  What a call has hidden is off the screen, unless it was shown.
LEMMA CaptureGrabsKeeps ==
  ASSUME ControlsInv, NEW t \in Callers, CaptureGrabs(t)
  PROVE  ControlsInv'
<1>1. /\ tool[t] \in ToolType /\ tool[t].place = "grab" /\ onScreen \in BOOLEAN
      /\ tool[t].hid /\ ~tool[t].stale => ~onScreen
  BY DEF CaptureGrabs, ControlsInv, ControlsTypeOK, ScreenKept, HidKept
<1>2. PICK raises \in BOOLEAN :
         tool' = Becomes(t, [tool[t] EXCEPT !.place = "restore", !.ok = ~raises,
                                            !.pictured = ~raises /\ onScreen])
  BY DEF CaptureGrabs
<1> DEFINE call == [tool[t] EXCEPT !.place = "restore", !.ok = ~raises,
                                   !.pictured = ~raises /\ onScreen]
<1>3. (~raises) \in BOOLEAN /\ (~raises /\ onScreen) \in BOOLEAN
  OBVIOUS
<1>4. /\ call \in ToolType /\ call.place = "restore" /\ call.hid = tool[t].hid
      /\ call.stale = tool[t].stale /\ (call.pictured => onScreen)
  BY <1>1, <1>3 DEF ToolType
<1> HIDE DEF call
<1>5. /\ tool' \in [Callers -> ToolType] /\ tool'[t] = call
      /\ \A u \in Callers \ {t} : tool'[u] = tool[u]
  BY <1>2, <1>4, BecomesCalls DEF ControlsInv, ControlsTypeOK, Becomes, call
<1>6. /\ volume' = volume /\ wantedVolume' = wantedVolume /\ overlapped' = overlapped
      /\ brightness' = brightness /\ even' = even
      /\ onScreen' = onScreen /\ wishShown' = wishShown /\ spoiledWish' = spoiledWish
  BY DEF CaptureGrabs, volumeVars, displayVars, screenVars
<1>7. ControlsTypeOK'
  BY <1>5, <1>6 DEF ControlsInv, ControlsTypeOK
<1>8. VolumeKept' /\ DisplaysKept'
  BY <1>4, <1>5, <1>6
  DEF ControlsInv, VolumeKept, ChangesAddUp, DisplaysKept, DisplaysAgree
<1>9. PictureIsClean' /\ HidKept'
  BY <1>1, <1>4, <1>5, <1>6 DEF ControlsInv, ScreenKept, PictureIsClean, HidKept
<1>10. WishKept'
  BY <1>1, <1>4, <1>5, <1>6 DEF ControlsInv, ScreenKept, WishKept
<1> QED
  BY <1>7, <1>8, <1>9, <1>10 DEF ControlsInv, ScreenKept

\* The end of a capture.  A call that brings the window back knows that the host
\* wants it, and makes it known to those who are about to take a picture.
LEMMA CaptureRestoresKeeps ==
  ASSUME ControlsInv, NEW t \in Callers, CaptureRestores(t)
  PROVE  ControlsInv'
<1> DEFINE calls == [tool EXCEPT ![t] = NoTool]
<1>1. /\ calls \in [Callers -> ToolType] /\ calls[t] = NoTool
      /\ \A u \in Callers \ {t} : calls[u] = tool[u]
  BY NoToolTyped, BecomesCalls DEF ControlsInv, ControlsTypeOK
<1>2. NoTool.place = "none" /\ ~NoTool.hid /\ NoTool \in ToolType
  BY NoToolTyped DEF NoTool
<1>3. CASE ~BringsBack(tool[t])
  <2>1. tool' = Becomes(t, NoTool) /\ onScreen' = (onScreen \/ FALSE)
        /\ UNCHANGED spoiledWish
    BY <1>3 DEF CaptureRestores, Done
  <2>2. onScreen' = onScreen
    BY <2>1 DEF ControlsInv, ControlsTypeOK
  <2>3. UNCHANGED <<volumeVars, displayVars, screenVars>>
    BY <2>1, <2>2 DEF CaptureRestores, screenVars
  <2>4. ~tool[t].hid
    BY <1>3 DEF BringsBack
  <2> QED
    BY <1>2, <2>1, <2>3, <2>4, CallReplaced
<1>4. CASE /\ BringsBack(tool[t])
           /\ onScreen' = (onScreen \/ BringsBack(tool[t]))
           /\ tool' = IF BringsBack(tool[t]) THEN Outdated(Done(t), t, {"grab"}) ELSE Done(t)
           /\ UNCHANGED spoiledWish
  <2>1. onScreen' = TRUE /\ tool' = Outdated(calls, t, {"grab"}) /\ spoiledWish' = spoiledWish
    BY <1>4 DEF ControlsInv, ControlsTypeOK, Done, Becomes
  <2>2. /\ volume' = volume /\ wantedVolume' = wantedVolume /\ overlapped' = overlapped
        /\ brightness' = brightness /\ even' = even /\ wishShown' = wishShown
        /\ tool[t].hid
    BY <1>4 DEF CaptureRestores, BringsBack, volumeVars, displayVars
  <2> HIDE DEF calls
  <2>3. /\ tool' \in [Callers -> ToolType]
        /\ tool'[t].place = "none" /\ ~tool'[t].hid
        /\ \A u \in Callers \ {t} :
              /\ tool'[u].place = tool[u].place /\ tool'[u].target = tool[u].target
              /\ tool'[u].delta = tool[u].delta /\ tool'[u].todo = tool[u].todo
              /\ tool'[u].hid = tool[u].hid /\ tool'[u].pictured = tool[u].pictured
              /\ tool'[u].stale <=> (tool[u].stale \/ tool[u].place \in {"grab"})
    BY <1>1, <1>2, <2>1, OutdatedCalls
  <2>4. ControlsTypeOK'
    BY <2>1, <2>2, <2>3 DEF ControlsInv, ControlsTypeOK
  <2>5. VolumeKept' /\ DisplaysKept'
    BY <2>2, <2>3 DEF ControlsInv, VolumeKept, ChangesAddUp, DisplaysKept, DisplaysAgree
  <2>6. PictureIsClean' /\ HidKept'
    BY <2>1, <2>3 DEF ControlsInv, ScreenKept, PictureIsClean, HidKept
  <2>7. WishKept'
    BY <2>1, <2>2, <2>3 DEF ControlsInv, ControlsTypeOK, ScreenKept, WishKept
  <2> QED
    BY <2>4, <2>5, <2>6, <2>7 DEF ControlsInv, ScreenKept
<1>5. CASE /\ BringsBack(tool[t]) /\ tool' = Done(t)
           /\ spoiledWish' = TRUE /\ UNCHANGED onScreen
  <2>1. /\ volume' = volume /\ wantedVolume' = wantedVolume /\ overlapped' = overlapped
        /\ brightness' = brightness /\ even' = even /\ wishShown' = wishShown
        /\ spoiledWish' = TRUE /\ onScreen' = onScreen /\ tool' = calls
    BY <1>5 DEF CaptureRestores, volumeVars, displayVars, Done, Becomes
  <2> HIDE DEF calls
  <2>2. ControlsTypeOK'
    BY <1>1, <2>1 DEF ControlsInv, ControlsTypeOK
  <2>3. VolumeKept' /\ DisplaysKept'
    BY <1>1, <1>2, <2>1 DEF ControlsInv, VolumeKept, ChangesAddUp, DisplaysKept, DisplaysAgree
  <2>4. PictureIsClean' /\ HidKept' /\ WishKept'
    BY <1>1, <1>2, <2>1 DEF ControlsInv, ScreenKept, PictureIsClean, HidKept, WishKept
  <2> QED
    BY <2>2, <2>3, <2>4 DEF ControlsInv, ScreenKept
<1> QED
  BY <1>3, <1>4, <1>5 DEF CaptureRestores

\* The process dies with whatever is in hand.
LEMMA ToolsDieKeeps ==
  ASSUME ControlsInv, ToolsDie
  PROVE  ControlsInv'
<1>1. tool' = [t \in Callers |-> NoTool]
  BY DEF ToolsDie
<1>2. /\ tool' \in [Callers -> ToolType]
      /\ \A t \in Callers : tool'[t].place = "none" /\ ~tool'[t].hid
  BY <1>1, NoToolTyped DEF NoTool
<1>3. /\ volume' = volume /\ wantedVolume' = wantedVolume /\ overlapped' = overlapped
      /\ brightness' = brightness /\ even' \in {even, NotEven}
      /\ onScreen' = onScreen /\ wishShown' = wishShown
      /\ spoiledWish' = (spoiledWish \/ HidesNow)
  BY DEF ToolsDie, volumeVars
<1>4. ControlsTypeOK'
  BY <1>2, <1>3 DEF ControlsInv, ControlsTypeOK, HidesNow
<1>5. VolumeKept' /\ DisplaysKept'
  BY <1>2, <1>3 DEF ControlsInv, VolumeKept, ChangesAddUp, DisplaysKept, DisplaysAgree
<1>6. ScreenKept'
  <2>1. PictureIsClean' /\ HidKept'
    BY <1>2 DEF PictureIsClean, HidKept
  <2>2. WishKept'
    BY <1>2, <1>3 DEF ControlsInv, ScreenKept, WishKept, HidesNow
  <2> QED
    BY <2>1, <2>2 DEF ScreenKept
<1> QED
  BY <1>4, <1>5, <1>6 DEF ControlsInv

\* The host shows its window, and those about to take a picture may see it.
LEMMA HostShowsKeeps ==
  ASSUME ControlsInv, HostShows
  PROVE  ControlsInv'
<1>1. /\ tool' \in [Callers -> ToolType]
      /\ \A u \in Callers :
            /\ tool'[u].place = tool[u].place /\ tool'[u].target = tool[u].target
            /\ tool'[u].delta = tool[u].delta /\ tool'[u].todo = tool[u].todo
            /\ tool'[u].hid = tool[u].hid /\ tool'[u].pictured = tool[u].pictured
            /\ tool'[u].stale <=> (tool[u].stale \/ tool[u].place \in {"grab"})
  <2>1. tool' = Outdated(tool, "host", {"grab"})
    BY DEF HostShows
  <2>2. \A u \in Callers : u # "host"
    BY DEF Callers
  <2> QED
    BY <2>1, <2>2, OutdatedCalls DEF ControlsInv, ControlsTypeOK
<1>2. /\ volume' = volume /\ wantedVolume' = wantedVolume /\ overlapped' = overlapped
      /\ brightness' = brightness /\ even' = even
      /\ onScreen' = TRUE /\ wishShown' = TRUE /\ spoiledWish' = FALSE
  BY DEF HostShows, volumeVars, displayVars
<1>3. ControlsTypeOK'
  BY <1>1, <1>2 DEF ControlsInv, ControlsTypeOK
<1>4. VolumeKept' /\ DisplaysKept'
  BY <1>1, <1>2 DEF ControlsInv, VolumeKept, ChangesAddUp, DisplaysKept, DisplaysAgree
<1>5. ScreenKept'
  BY <1>1, <1>2 DEF ControlsInv, ScreenKept, PictureIsClean, HidKept, WishKept
<1> QED
  BY <1>3, <1>4, <1>5 DEF ControlsInv

\* The host hides its window: when a call has hidden it as well, that call will
\* bring it back all the same.
LEMMA HostHidesKeeps ==
  ASSUME ControlsInv, HostHides
  PROVE  ControlsInv'
<1>1. /\ volume' = volume /\ wantedVolume' = wantedVolume /\ overlapped' = overlapped
      /\ brightness' = brightness /\ even' = even /\ tool' = tool
      /\ onScreen' = FALSE /\ wishShown' = FALSE /\ spoiledWish' = HidesNow
  BY DEF HostHides, volumeVars, displayVars
<1>2. ControlsTypeOK'
  BY <1>1 DEF ControlsInv, ControlsTypeOK, HidesNow
<1>3. VolumeKept' /\ DisplaysKept'
  BY <1>1 DEF ControlsInv, VolumeKept, ChangesAddUp, DisplaysKept, DisplaysAgree
<1>4. ScreenKept'
  <2>1. PictureIsClean' /\ HidKept'
    BY <1>1 DEF ControlsInv, ScreenKept, PictureIsClean, HidKept
  <2>2. WishKept'
    BY <1>1 DEF WishKept, HidesNow
  <2> QED
    BY <2>1, <2>2 DEF ScreenKept
<1> QED
  BY <1>2, <1>3, <1>4 DEF ControlsInv

----------------------------------------------------------------------------
LEMMA ControlsKept ==
  ASSUME ControlsInv, [ControlsNext]_controlVars
  PROVE  ControlsInv'
<1>1. ASSUME NEW t \in Callers, ToolSteps(t) PROVE ControlsInv'
  <2>1. CASE system_volume_set(t)
    BY <2>1, VolumeSet DEF system_volume_set
  <2>2. CASE VolumeChanged(t)
    BY <2>2, VolumeChangedKeeps
  <2>3. CASE \E d \in Displays : DisplaySet(t, d)
    BY <2>3, DisplaySetKeeps
  <2>4. CASE CaptureHides(t) \/ CaptureGrabs(t) \/ CaptureRestores(t)
    BY <2>4, CaptureHidesKeeps, CaptureGrabsKeeps, CaptureRestoresKeeps
  <2>5. CASE \/ system_volume_change(t) \/ screen_brightness_set(t)
             \/ screen_brightness_change(t) \/ BrightnessCutShort(t) \/ desktop_capture(t)
    BY <2>5, ToolBegins
  <2> QED
    BY <1>1, <2>1, <2>2, <2>3, <2>4, <2>5 DEF ToolSteps
<1>2. CASE UserSetsVolume
  <2>1. "user" \notin Callers
    BY DEF Callers
  <2> QED
    BY <1>2, <2>1, VolumeSet DEF UserSetsVolume
<1>3. CASE \E d \in Displays : UserDims(d)
  BY <1>3, UserDimsKeeps
<1>4. CASE ToolsDie \/ HostShows \/ HostHides
  BY <1>4, ToolsDieKeeps, HostShowsKeeps, HostHidesKeeps
<1>5. CASE UNCHANGED controlVars
  <2>1. /\ volume' = volume /\ wantedVolume' = wantedVolume /\ overlapped' = overlapped
        /\ brightness' = brightness /\ even' = even /\ tool' = tool
        /\ onScreen' = onScreen /\ wishShown' = wishShown /\ spoiledWish' = spoiledWish
    BY <1>5 DEF controlVars, volumeVars, displayVars, screenVars
  <2> QED
    BY <2>1 DEF ControlsInv, ControlsTypeOK, VolumeKept, ChangesAddUp, DisplaysKept,
                DisplaysAgree, ScreenKept, PictureIsClean, HidKept, WishKept
<1> QED
  BY <1>1, <1>2, <1>3, <1>4, <1>5 DEF ControlsNext

\* The tools that change the volume and the brightness and take pictures of the
\* desktop, in two threads at a time, with the user and the host in between and
\* a death at any point: changes of the volume add up, the displays agree, a
\* picture leaves the assistant out, and the window comes back, each unless
\* someone has come between as the property says.
THEOREM ControlsAreSettled == ControlsSpec => []ControlsSettle
<1>1. ControlsInit => ControlsInv
  BY ControlsBegin
<1>2. ControlsInv /\ [ControlsNext]_controlVars => ControlsInv'
  BY ControlsKept
<1>3. ControlsInv => ControlsSettle
  BY InvSuffices
<1> QED
  BY <1>1, <1>2, <1>3, PTL DEF ControlsSpec
================================================================================
