---------------------------------- MODULE Gui ----------------------------------
(***************************************************************************)
(* The desktop program (gui/gui.rs): one update per frame, and two kinds   *)
(* of background thread, whose handles the frames poll.  What the threads  *)
(* do is left to Desktop; here they start, end and panic.                  *)
(*                                                                         *)
(* egui is external.  It draws a frame when one was requested, and may     *)
(* draw one at any time (the pointer moves).  A frame is requested by      *)
(* request_repaint, by a spinner that is shown, and by a click, which is   *)
(* an input event.  A pointer can click one button in a frame and a key    *)
(* the other, which has the focus.                                         *)
(***************************************************************************)
EXTENDS Integers

VARIABLES
    up,          \* the program runs
    splash,      \* the splash screen is not over
    repaint,     \* a frame was requested
    testThread,  \* the handle test_thread and the state of its thread
    bootThread,  \* likewise
    bootPhase, logs,
    detached     \* history: threads that run and whose handle is gone

gui == <<up, splash, repaint, testThread, bootThread, bootPhase, logs, detached>>

Jobs == {"tests", "boot"}

---------------------------------------------------------------------------
\* The fields after the first half of update, which collects.

TestLeft == IF testThread = "finished" THEN "none" ELSE testThread

BootLeft == IF bootThread = "finished" THEN "none" ELSE bootThread

\* Mutant: busy looks at the tests only.
BusyTests == TestLeft # "none"

Busy == TestLeft # "none" \/ BootLeft # "none"

\* Mutant: the phase of a result is not looked at.
PhaseKept(result) == bootPhase

\* The phase and the log that are left by the threads that have finished; the
\* boot thread is looked at second.
PhaseLeft(result) == IF bootThread = "finished" THEN result ELSE bootPhase
LogsLeft ==
    CASE bootThread = "finished" -> "boot_log"
      [] bootThread # "finished" /\ testThread = "finished" -> "test_results"
      [] OTHER -> logs

\* Threads whose handle this frame throws away: one that was taken and not put
\* back, or one replaced by a click.
Dropped(clicks) ==
    (IF testThread \in {"spawned", "running"} /\ (TestLeft = "none" \/ "tests" \in clicks)
     THEN 1 ELSE 0)
    + (IF bootThread \in {"running", "returned"} /\ (BootLeft = "none" \/ "boot" \in clicks)
       THEN 1 ELSE 0)

\* Mutant: no spinner, so nothing asks for the next frame.
RepaintOnClick(clicks) == clicks # {}

RepaintAfter(clicks) == clicks # {} \/ Busy

---------------------------------------------------------------------------

\* While the splash screen is up, update draws it and asks for another frame.
SplashFrame ==
    /\ up /\ splash
    /\ repaint' = TRUE
    /\ UNCHANGED <<up, splash, testThread, bootThread, bootPhase, logs, detached>>

\* A frame in which the boot thread, if it has finished, left the phase `result`
\* behind, and in which these buttons are clicked; they are enabled when nothing
\* was left running.
Frame(clicks, result) ==
    /\ up /\ ~splash
    /\ bootThread # "panicked"
    /\ clicks # {} => ~Busy
    /\ testThread' = IF "tests" \in clicks THEN "spawned" ELSE TestLeft
    /\ bootThread' = IF "boot" \in clicks THEN "running" ELSE BootLeft
    /\ bootPhase' = IF "boot" \in clicks THEN "HardwareInit" ELSE PhaseLeft(result)
    /\ logs' = CASE "boot" \in clicks -> "booting"
                 [] "boot" \notin clicks /\ "tests" \in clicks -> "testing"
                 [] OTHER -> LogsLeft
    /\ repaint' = RepaintAfter(clicks)
    /\ detached' = detached + Dropped(clicks)
    /\ UNCHANGED <<up, splash>>

Down ==
    /\ up' = FALSE /\ splash' = FALSE /\ repaint' = FALSE
    /\ testThread' = "none" /\ bootThread' = "none" /\ bootPhase' = "Off"
    /\ logs' = "welcome" /\ detached' = 0

\* join().unwrap() on a thread that panicked panics in update, on the main thread.
PanickingFrame ==
    /\ up /\ ~splash
    /\ bootThread = "panicked"
    /\ Down

\* 20.8 seconds after the start.
SplashOver ==
    /\ up /\ splash
    /\ splash' = FALSE
    /\ UNCHANGED <<up, repaint, testThread, bootThread, bootPhase, logs, detached>>

---------------------------------------------------------------------------
\* The threads

\* The test thread asks for a frame before it runs the tests.
TestsBegin ==
    /\ testThread = "spawned"
    /\ testThread' = "running"
    /\ repaint' = TRUE
    /\ UNCHANGED <<up, splash, bootThread, bootPhase, logs, detached>>

TestsEnd ==
    /\ testThread = "running"
    /\ testThread' = "finished"
    /\ UNCHANGED <<up, splash, repaint, bootThread, bootPhase, logs, detached>>

\* The boot thread asks for a frame when boot has returned, before it finishes.
BootReturns ==
    /\ bootThread = "running"
    /\ bootThread' = "returned"
    /\ repaint' = TRUE
    /\ UNCHANGED <<up, splash, testThread, bootPhase, logs, detached>>

BootExits ==
    /\ bootThread = "returned"
    /\ bootThread' = "finished"
    /\ UNCHANGED <<up, splash, repaint, testThread, bootPhase, logs, detached>>

BootPanics ==
    /\ bootThread = "running"
    /\ bootThread' = "panicked"
    /\ UNCHANGED <<up, splash, repaint, testThread, bootPhase, logs, detached>>

\* The window is closed, or the host ends the program, at any moment; its threads
\* end with it.
Quit == up /\ Down

Launch ==
    /\ ~up
    /\ up' = TRUE /\ splash' = TRUE /\ repaint' = TRUE
    /\ UNCHANGED <<testThread, bootThread, bootPhase, logs, detached>>

GuiInit ==
    /\ up = TRUE /\ splash = TRUE /\ repaint = TRUE
    /\ testThread = "none" /\ bootThread = "none"
    /\ bootPhase = "Off" /\ logs = "welcome" /\ detached = 0

GuiNext ==
    \/ SplashFrame
    \/ \E clicks \in SUBSET Jobs, result \in {"Running", "Failed"} : Frame(clicks, result)
    \/ PanickingFrame \/ SplashOver
    \/ TestsBegin \/ TestsEnd
    \/ BootReturns \/ BootExits \/ BootPanics
    \/ Quit \/ Launch

GuiSpec == GuiInit /\ [][GuiNext]_gui

---------------------------------------------------------------------------
\* Properties

GuiTypeOK ==
    /\ up \in BOOLEAN /\ splash \in BOOLEAN /\ repaint \in BOOLEAN
    /\ testThread \in {"none", "spawned", "running", "finished"}
    /\ bootThread \in {"none", "running", "returned", "finished", "panicked"}
    /\ bootPhase \in {"Off", "HardwareInit", "Running", "Failed"}
    /\ logs \in {"welcome", "testing", "test_results", "booting", "boot_log"}
    /\ detached \in Nat

\* No thread ever runs on without a handle, so no two boots and no two test runs
\* overlap: busy is computed once a frame, between the take of a handle and the
\* clicks, which store new ones over whatever is there.
NoneDetached == detached = 0

\* The status bar says Hardware Init exactly while there is a boot to wait for,
\* and keeps the result of the last one otherwise; nothing ever reports the
\* phases between the two (BootPhase lists three).
PhaseTellsBoot == bootPhase = "HardwareInit" <=> bootThread # "none"
===============================================================================
