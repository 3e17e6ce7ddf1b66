---------------------------- MODULE SystemControls ----------------------------
(***************************************************************************)
(* system/tools.py with the controllers of system/windows.py that change   *)
(* something: the master volume, the brightness of the displays, and the   *)
(* picture of the desktop, for which the assistant's own window is hidden  *)
(* and brought back.                                                       *)
(*                                                                         *)
(* None of them takes a lock.  A turn calls one tool at a time; a worker   *)
(* of scheduler/executor.py whose step has timed out may be in another;    *)
(* the user has the mixer, the keys of the display and the tray.           *)
(***************************************************************************)
EXTENDS Integers, FiniteSets, Functions

CONSTANTS Displays,   \* displays that report a brightness
          Top,        \* 100 percent
          MaxDelta    \* bound: size of a relative change

ASSUME ControlsAssumption ==
    IsFiniteSet(Displays) /\ Displays # {} /\ {Top, MaxDelta} \subseteq Nat

VARIABLES volume,      \* the master volume
          brightness,  \* by display
          onScreen,    \* the assistant's window is visible
          tool,        \* the call each thread is in
          wantedVolume,\* history: the volume with every change added up
          overlapped,  \* history: a change was based on a volume gone by
          even,        \* history: the brightness all displays were set to, or none
          wishShown,   \* history: what the host did with the window last
          spoiledWish  \* history: it did so under a capture, or one did not bring it back

volumeVars  == <<volume, wantedVolume, overlapped>>
displayVars == <<brightness, even>>
screenVars  == <<onScreen, wishShown, spoiledWish>>
controlVars == <<volumeVars, displayVars, screenVars, tool>>

Callers  == {"turnTool", "lateTool"}
Percents == 0..Top
Deltas   == (-MaxDelta)..MaxDelta
NotEven  == -1

NoTool == [place |-> "none", target |-> 0, delta |-> 0, stale |-> FALSE, todo |-> {},
           hid |-> FALSE, pictured |-> FALSE, ok |-> FALSE]

\* stale: another has written what this call has read, or shown the window
\* this call has hidden.
ToolType == [place : {"none", "volume", "brightness", "hide", "grab", "restore"},
             target : Percents, delta : Deltas, stale : BOOLEAN, todo : SUBSET Displays,
             hid : BOOLEAN, pictured : BOOLEAN, ok : BOOLEAN]

ControlsTypeOK ==
    /\ volume \in Percents /\ wantedVolume \in Percents
    /\ brightness \in [Displays -> Percents] /\ even \in Percents \cup {NotEven}
    /\ {onScreen, overlapped, wishShown, spoiledWish} \subseteq BOOLEAN
    /\ tool \in [Callers -> ToolType]

\* The user can make any other state of it.
ControlsInit ==
    /\ volume = Top /\ wantedVolume = Top /\ overlapped = FALSE
    /\ brightness = [d \in Displays |-> Top] /\ even = NotEven
    /\ onScreen = TRUE /\ wishShown = TRUE /\ spoiledWish = FALSE
    /\ tool = [t \in Callers |-> NoTool]

\* What others have in hand at these places is outdated by a step of by.
Outdated(calls, by, places) ==
    [t \in Callers |->
        IF t # by /\ calls[t].place \in places THEN [calls[t] EXCEPT !.stale = TRUE]
                                               ELSE calls[t]]

Becomes(t, call) == [tool EXCEPT ![t] = call]
Done(t) == Becomes(t, NoTool)

----------------------------------------------------------------------------
clamp_percent(p) == IF p \in Percents THEN p ELSE IF p < 0 THEN 0 ELSE Top

\* set_volume_percent, for a tool or for the user's mixer: what counts is the
\* last absolute value.
SetVolume(p) ==
    /\ volume' = clamp_percent(p) /\ wantedVolume' = clamp_percent(p)
    /\ overlapped' = FALSE
    /\ UNCHANGED <<displayVars, screenVars>>

system_volume_set(t) ==
    /\ tool[t].place = "none"
    /\ \E p \in Percents \cup {Top + 1} : SetVolume(p)
    /\ tool' = Outdated(tool, t, {"volume"})

UserSetsVolume ==
    /\ \E p \in Percents : SetVolume(p)
    /\ tool' = Outdated(tool, "user", {"volume"})

\* _change_volume: get, then set.
system_volume_change(t) ==
    /\ tool[t].place = "none"
    /\ \E delta \in Deltas :
          tool' = Becomes(t, [NoTool EXCEPT !.place = "volume", !.delta = delta,
                                            !.target = clamp_percent(volume + delta)])
    /\ UNCHANGED <<volumeVars, displayVars, screenVars>>

VolumeChanged(t) ==
    LET call == tool[t] IN
    /\ call.place = "volume"
    /\ volume' = call.target
    /\ wantedVolume' = clamp_percent(wantedVolume + call.delta)
    /\ overlapped' = (overlapped \/ call.stale)
    /\ tool' = Outdated(Done(t), t, {"volume"})
    /\ UNCHANGED <<displayVars, screenVars>>

----------------------------------------------------------------------------
\* round(sum(levels) / len(levels)): a half goes to the even number.
RoundedMean(levels) ==
    LET sum  == FoldFunction(LAMBDA a, b : a + b, 0, levels)
        n    == Cardinality(Displays)
        down == sum \div n
        rest == 2 * (sum % n)
    IN  IF rest < n \/ (rest = n /\ down % 2 = 0) THEN down ELSE down + 1

\* set_brightness_percent: a PowerShell process that sets one display after
\* the other.
SetBrightness(t, p) ==
    /\ tool[t].place = "none"
    /\ tool' = Becomes(t, [NoTool EXCEPT !.place = "brightness", !.todo = Displays,
                                          !.target = clamp_percent(p)])
    /\ UNCHANGED <<volumeVars, displayVars, screenVars>>

screen_brightness_set(t) == \E p \in Percents \cup {Top + 1} : SetBrightness(t, p)

\* _change_brightness: from the mean, and so to one value for all.
screen_brightness_change(t) ==
    \E delta \in Deltas : SetBrightness(t, RoundedMean(brightness) + delta)

DisplaySet(t, d) ==
    LET call == tool[t]
        last == call.todo = {d}
    IN
    /\ call.place = "brightness" /\ d \in call.todo
    /\ brightness' = [brightness EXCEPT ![d] = call.target]
    /\ even' = IF last /\ ~call.stale THEN call.target ELSE NotEven
    /\ tool' = Outdated(IF last THEN Done(t)
                        ELSE Becomes(t, [call EXCEPT !.todo = call.todo \ {d}]),
                        t, {"brightness"})
    /\ UNCHANGED <<volumeVars, screenVars>>

\* The process exceeds its ten seconds, and is killed.
BrightnessCutShort(t) ==
    /\ tool[t].place = "brightness"
    /\ tool' = Done(t)
    /\ UNCHANGED <<volumeVars, displayVars, screenVars>>

UserDims(d) ==
    /\ \E p \in Percents : brightness' = [brightness EXCEPT ![d] = p]
    /\ even' = NotEven
    /\ tool' = Outdated(tool, "user", {"brightness"})
    /\ UNCHANGED <<volumeVars, screenVars>>

----------------------------------------------------------------------------
\* _find_top_level_window looks at windows that are visible.
FoundOnScreen == onScreen

\* capture_desktop: what it hides it has found on the screen.
CaptureBegins(t, include) ==
    /\ tool[t].place = "none"
    /\ tool' = Becomes(t, [NoTool EXCEPT !.place = IF ~include /\ FoundOnScreen
                                                   THEN "hide" ELSE "grab"])
    /\ UNCHANGED <<volumeVars, displayVars, screenVars>>

desktop_capture(t) == \E include \in BOOLEAN : CaptureBegins(t, include)

\* _hide_agent_window_for_capture.  It is not hidden with an error, or when
\* another has hidden it since it was found and IsWindowVisible says so.
CaptureHides(t) ==
    /\ tool[t].place = "hide"
    /\ \/ /\ onScreen' = FALSE
          /\ tool' = Becomes(t, [tool[t] EXCEPT !.place = "grab", !.hid = TRUE])
       \/ /\ tool' = Becomes(t, [tool[t] EXCEPT !.place = "grab"])
          /\ UNCHANGED onScreen
    /\ UNCHANGED <<volumeVars, displayVars, wishShown, spoiledWish>>

\* ImageGrab.grab; it, or the saving of the picture, may raise.
CaptureGrabs(t) ==
    /\ tool[t].place = "grab"
    /\ \E raises \in BOOLEAN :
          tool' = Becomes(t, [tool[t] EXCEPT !.place = "restore", !.ok = ~raises,
                                             !.pictured = ~raises /\ onScreen])
    /\ UNCHANGED <<volumeVars, displayVars, screenVars>>

\* Mutant of BringsBack: the window comes back when there is a picture.
BringsBackPictured(call) == call.hid /\ call.ok

\* finally: if hwnd is not None and was_visible
BringsBack(call) == call.hid

\* _restore_agent_window_after_capture, whose error is dropped.
CaptureRestores(t) ==
    /\ tool[t].place = "restore"
    /\ \/ /\ onScreen' = (onScreen \/ BringsBack(tool[t]))
          /\ tool' = IF BringsBack(tool[t]) THEN Outdated(Done(t), t, {"grab"}) ELSE Done(t)
          /\ UNCHANGED spoiledWish
       \/ /\ BringsBack(tool[t])
          /\ tool' = Done(t)
          /\ spoiledWish' = TRUE
          /\ UNCHANGED onScreen
    /\ UNCHANGED <<volumeVars, displayVars, wishShown>>

\* A call that has hidden the window, or is about to, and will bring it back.
HidesNow == \E t \in Callers : tool[t].place = "hide" \/ tool[t].hid

\* The process that runs the tools dies; the host and its window stay.
ToolsDie ==
    /\ \E t \in Callers : tool[t] # NoTool
    /\ even' = IF \E t \in Callers : tool[t].place = "brightness" THEN NotEven ELSE even
    /\ spoiledWish' = (spoiledWish \/ HidesNow)
    /\ tool' = [t \in Callers |-> NoTool]
    /\ UNCHANGED <<volumeVars, brightness, onScreen, wishShown>>

\* The host shows its window (the tray, a wake-up), ...
HostShows ==
    /\ onScreen' = TRUE /\ wishShown' = TRUE /\ spoiledWish' = FALSE
    /\ tool' = Outdated(tool, "host", {"grab"})
    /\ UNCHANGED <<volumeVars, displayVars>>

\* ... or hides it (the tray, agent_window_minimize).
HostHides ==
    /\ onScreen' = FALSE /\ wishShown' = FALSE /\ spoiledWish' = HidesNow
    /\ UNCHANGED <<volumeVars, displayVars, tool>>

----------------------------------------------------------------------------
ToolSteps(t) ==
    \/ system_volume_set(t) \/ system_volume_change(t) \/ VolumeChanged(t)
    \/ screen_brightness_set(t) \/ screen_brightness_change(t)
    \/ (\E d \in Displays : DisplaySet(t, d)) \/ BrightnessCutShort(t)
    \/ desktop_capture(t) \/ CaptureHides(t) \/ CaptureGrabs(t) \/ CaptureRestores(t)

ControlsNext ==
    \/ \E t \in Callers : ToolSteps(t)
    \/ UserSetsVolume \/ (\E d \in Displays : UserDims(d))
    \/ ToolsDie \/ HostShows \/ HostHides

ControlsSpec == ControlsInit /\ [][ControlsNext]_controlVars

----------------------------------------------------------------------------
\* Relative changes of the volume add up, from the last absolute one, unless
\* one was based on a volume another call or the user has changed meanwhile.
ChangesAddUp == overlapped \/ volume = wantedVolume

\* After a change of the brightness all displays show the one value it has
\* set, whatever they showed before, until the next change begins to write.
DisplaysAgree == even # NotEven => \A d \in Displays : brightness[d] = even

\* A picture said to leave the assistant out does so, unless the window was
\* shown by the host or by another capture after this one had hidden it.
PictureIsClean ==
    \A t \in Callers :
        tool[t].place = "restore" /\ tool[t].hid /\ tool[t].pictured => tool[t].stale

\* After captures, also two at once and failed ones, the window is as the host
\* has left it, unless the host hid it, or the process died, during one, or
\* Windows did not show it again.
WindowComesBack ==
    tool = [t \in Callers |-> NoTool] => spoiledWish \/ onScreen = wishShown

\* Four things that tools without a lock leave as they should be.
ControlsSettle == ChangesAddUp /\ DisplaysAgree /\ PictureIsClean /\ WindowComesBack
=============================================================================
