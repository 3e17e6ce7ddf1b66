----------------------------- MODULE DesktopHost -----------------------------
(***************************************************************************)
(* desktop/host.py, DesktopTerminalHost, with the voice loop it runs as a  *)
(* child process.  The host is one Tk thread: every callback runs to its   *)
(* end, and callbacks re-arm themselves; a callback that raises does not.  *)
(* The child runs beside it, and the two talk through files: the host      *)
(* writes the stop file, the child the wake file and the window command,   *)
(* which the host looks at by their times of change, in that order.        *)
(***************************************************************************)
EXTENDS Integers

VARIABLES child,          \* _process: none yet, running, closing (its output is
                          \* closed), dead
          output,         \* the reader thread: open, sentinel queued, drained
          stopRequested, closeAfterStop,
          grace,          \* _shutdown_deadline: none, running, over
          pollArmed,      \* _poll_shutdown is scheduled
          rootOpen,       \* _root is not None
          closeWanted,    \* history: the user has closed the window
          pollBroken,     \* history: taskkill did not come back in time
          visible,        \* the window
          wakeUnread,     \* the wake file has changed since the host looked
          command,        \* the window command file: none, empty, hide
          commandUnread,  \* it has changed since the host looked
          deleting,       \* the host has obeyed and will delete the file
          lastAsk,        \* history: what was asked of the window last
          crossed         \* history: that met another wish, or was deleted unseen

hostVars == <<child, output, stopRequested, closeAfterStop, grace, pollArmed,
              closeWanted, rootOpen, pollBroken, visible, wakeUnread, command, commandUnread,
              deleting, lastAsk, crossed>>
stopVars   == <<stopRequested, closeAfterStop, grace, pollArmed, closeWanted, pollBroken>>
signalVars == <<wakeUnread, command, commandUnread, deleting>>
windowVars == <<visible, signalVars, lastAsk, crossed>>

HostTypeOK ==
    /\ child \in {"none", "running", "closing", "dead"}
    /\ output \in {"open", "sentinel", "drained"}
    /\ {stopRequested, closeAfterStop, closeWanted, pollArmed, rootOpen, pollBroken, visible,
        wakeUnread, commandUnread, deleting, crossed} \subseteq BOOLEAN
    /\ grace \in {"none", "running", "over"}
    /\ command \in {"none", "empty", "hide"}
    /\ lastAsk \in {"show", "hide"}

HostInit ==
    /\ child = "none" /\ output = "open"
    /\ stopRequested = FALSE /\ closeAfterStop = FALSE /\ closeWanted = FALSE
    /\ grace = "none" /\ pollArmed = FALSE /\ rootOpen = TRUE /\ pollBroken = FALSE
    /\ visible = TRUE /\ wakeUnread = FALSE
    /\ command = "none" /\ commandUnread = FALSE /\ deleting = FALSE
    /\ lastAsk = "show" /\ crossed = FALSE

\* The Tk thread is free.
Idle  == rootOpen /\ ~deleting
Alive == child \in {"running", "closing"}   \* poll() returns None

----------------------------------------------------------------------------
\* _start_process, 80 ms after the window.
StartProcess ==
    /\ Idle /\ child = "none"
    /\ child' = "running"
    /\ UNCHANGED <<output, stopVars, rootOpen, windowVars>>

\* Mutant of CloseAsked: a close while it stops is dropped.
CloseAskedFirst(close) == IF stopRequested THEN closeAfterStop ELSE close

CloseAsked(close) == closeAfterStop \/ close

\* _request_stop while the child is alive: a second request can still ask for
\* the window to be closed.  The child is told (_signal_child_stop, by the stop
\* file or a break) and may heed it or not: see ChildCloses.
RequestStop(close) ==
    /\ Idle /\ Alive
    /\ closeAfterStop' = CloseAsked(close)
    /\ closeWanted' = (closeWanted \/ close)
    /\ IF stopRequested THEN UNCHANGED <<stopRequested, grace, pollArmed>>
       ELSE /\ stopRequested' = TRUE
            /\ grace' = "running" /\ pollArmed' = TRUE
    /\ UNCHANGED <<child, output, pollBroken, rootOpen, windowVars>>

\* The same with no child: nothing is to be stopped; a stop is forgotten.
CloseWithoutChild ==
    /\ Idle /\ ~Alive
    /\ rootOpen' = FALSE
    /\ UNCHANGED <<child, output, stopVars, windowVars>>

GraceOver ==
    /\ grace = "running"
    /\ grace' = "over"
    /\ UNCHANGED <<child, output, stopRequested, closeAfterStop, closeWanted, pollArmed,
                   pollBroken, rootOpen, windowVars>>

\* _finish_stop: the files are deleted, the window perhaps destroyed.
FinishStop ==
    /\ rootOpen' = ~closeAfterStop
    /\ wakeUnread' = FALSE /\ command' = "none" /\ commandUnread' = FALSE
    /\ UNCHANGED <<stopRequested, closeAfterStop, grace, closeWanted, pollBroken, visible,
                   deleting, lastAsk, crossed>>

\* _poll_shutdown, when the child is dead.
PollFindsItDead ==
    /\ Idle /\ pollArmed /\ child = "dead"
    /\ FinishStop
    /\ pollArmed' = FALSE
    /\ UNCHANGED <<child, output>>

\* _poll_shutdown after the grace: taskkill ends the child ...
ForceKill ==
    /\ Idle /\ pollArmed /\ Alive /\ grace = "over"
    /\ child' = "dead" /\ grace' = "running"
    /\ UNCHANGED <<output, stopRequested, closeAfterStop, closeWanted, pollArmed, pollBroken,
                   rootOpen, windowVars>>

\* ... or fails, and is tried again ...
KillFails ==
    /\ Idle /\ pollArmed /\ Alive /\ grace = "over"
    /\ grace' = "running"
    /\ UNCHANGED <<child, output, stopRequested, closeAfterStop, closeWanted, pollArmed,
                   pollBroken, rootOpen, windowVars>>

\* ... or takes longer than its own timeout, which raises in the callback.
KillRaises ==
    /\ Idle /\ pollArmed /\ Alive /\ grace = "over"
    /\ pollArmed' = FALSE /\ pollBroken' = TRUE
    /\ UNCHANGED <<child, output, stopRequested, closeAfterStop, closeWanted, grace, rootOpen,
                   windowVars>>

\* _read_output: the child has closed its output, or died.
ReaderEnds ==
    /\ output = "open" /\ child \in {"closing", "dead"}
    /\ output' = "sentinel"
    /\ UNCHANGED <<child, stopVars, rootOpen, windowVars>>

\* _drain_output
DrainOutput ==
    /\ Idle /\ output = "sentinel"
    /\ output' = "drained"
    /\ IF stopRequested THEN FinishStop ELSE UNCHANGED <<stopVars, rootOpen, windowVars>>
    /\ UNCHANGED <<child, pollArmed>>

----------------------------------------------------------------------------
\* The window.  The user shows it from the tray or minimizes it.
UserShows ==
    /\ Idle
    /\ visible' = TRUE /\ lastAsk' = "show" /\ crossed' = (command # "none")
    /\ UNCHANGED <<child, output, stopVars, rootOpen, signalVars>>

UserMinimizes ==
    /\ Idle
    /\ visible' = FALSE /\ lastAsk' = "hide" /\ crossed' = wakeUnread
    /\ UNCHANGED <<child, output, stopVars, rootOpen, signalVars>>

\* Mutant of LookOrder: the wake file is not looked at.
WakeSkipped == IF commandUnread /\ command = "hide" THEN FALSE ELSE visible

\* _check_wake_event, then _check_window_command: the wake file shows the
\* window, then a command to hide hides it.
LookOrder == IF commandUnread /\ command = "hide" THEN FALSE ELSE visible \/ wakeUnread

\* _poll_signals.  A file with a command, or an empty one, is deleted after.
PollSignals ==
    /\ Idle /\ (wakeUnread \/ commandUnread)
    /\ visible' = LookOrder
    /\ wakeUnread' = FALSE /\ commandUnread' = FALSE
    /\ deleting' = (commandUnread /\ command # "none")
    /\ UNCHANGED <<child, output, stopVars, rootOpen, command, lastAsk, crossed>>

\* _delete_window_command_file; it fails while the child has the file open.  A
\* command that was written since the look is lost.
DeleteCommand ==
    /\ deleting
    /\ deleting' = FALSE
    /\ IF command = "empty" THEN UNCHANGED <<command, commandUnread, crossed>>
       ELSE command' = "none" /\ commandUnread' = FALSE /\ crossed' = (crossed \/ commandUnread)
    /\ UNCHANGED <<child, output, stopVars, rootOpen, visible, wakeUnread, lastAsk>>

\* The child: signal_wake_event.
SignalWake ==
    /\ child = "running"
    /\ wakeUnread' = TRUE /\ lastAsk' = "show" /\ crossed' = (command # "none")
    /\ UNCHANGED <<child, output, stopVars, rootOpen, visible, command, commandUnread,
                   deleting>>

\* The child: _request_host_hide_to_tray empties the file, then writes it.
OpenCommand ==
    /\ child = "running" /\ command # "empty"
    /\ command' = "empty" /\ commandUnread' = TRUE
    /\ UNCHANGED <<child, output, stopVars, rootOpen, visible, wakeUnread, deleting,
                   lastAsk, crossed>>

WriteCommand ==
    /\ child = "running" /\ command = "empty"
    /\ command' = "hide" /\ commandUnread' = TRUE
    /\ lastAsk' = "hide" /\ crossed' = wakeUnread
    /\ UNCHANGED <<child, output, stopVars, rootOpen, visible, wakeUnread, deleting>>

\* The child ends its loop, asked or not, and then is gone.
ChildCloses ==
    /\ child = "running"
    /\ child' = "closing"
    /\ UNCHANGED <<output, stopVars, rootOpen, windowVars>>

ChildDies ==
    /\ Alive
    /\ child' = "dead"
    /\ UNCHANGED <<output, stopVars, rootOpen, windowVars>>

HostNext ==
    \/ StartProcess \/ (\E close \in BOOLEAN : RequestStop(close)) \/ CloseWithoutChild
    \/ GraceOver \/ PollFindsItDead \/ ForceKill \/ KillFails \/ KillRaises
    \/ ReaderEnds \/ DrainOutput
    \/ UserShows \/ UserMinimizes \/ PollSignals \/ DeleteCommand
    \/ SignalWake \/ OpenCommand \/ WriteCommand \/ ChildCloses \/ ChildDies

HostSpec == HostInit /\ [][HostNext]_hostVars

\* Timers fire, and a kill that is tried again and again succeeds or raises;
\* the child may ignore every request.
HostFairness ==
    /\ WF_hostVars(DeleteCommand) /\ WF_hostVars(GraceOver)
    /\ SF_hostVars(PollFindsItDead) /\ SF_hostVars(ForceKill)

----------------------------------------------------------------------------
\* A window that is closed leaves no voice loop running: it has closed its
\* output or is dead.
NoOrphan == ~rootOpen => child # "running"

\* With nothing left to look at the window is as it was last asked to be,
\* unless that met another wish the host had not looked at yet (a wake and a
\* hide in one look leave it hidden, whichever came last), or was written
\* between the host's look at the file and its deletion.
WindowFollows ==
    Idle /\ child = "running" /\ ~wakeUnread /\ ~commandUnread /\ command # "empty" /\ ~crossed
    => visible = (lastAsk = "show")

WindowIsKept == NoOrphan /\ WindowFollows
=============================================================================
