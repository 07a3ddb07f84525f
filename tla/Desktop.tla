--------------------------------- MODULE Desktop --------------------------------
(***************************************************************************)
(* The desktop program as a whole: Gui, with a boot thread that goes       *)
(* through Boot and a test thread that goes through TestRunner.            *)
(***************************************************************************)
EXTENDS Gui, Boot, TestRunner

CONSTANT Configs   \* package2 files boot is called with, or NoFile.  The program itself names none
                   \* (FirmwareConfig::default); the others are those of other callers.

ASSUME DesktopAssumption == \A file \in Configs : file # NoFile => file \in Seq(Byte)

VARIABLE report   \* the total of a run of the tests, and of how many there was no verdict

desktop == <<gui, boot, report>>

\* A frame takes the result of a boot that has finished, and a click calls the next.
DrawFrame(clicks) ==
    /\ Frame(clicks, bootResult)
    /\ report' = IF testThread = "finished" THEN NoReport ELSE report
    /\ IF bootThread = "finished" \/ "boot" \in clicks THEN TakeResult ELSE UNCHANGED boot
    /\ IF "boot" \in clicks THEN \E file \in Configs : Call(file)
       ELSE UNCHANGED <<bootPc, package2, failed>>

DrawSplash == SplashFrame /\ UNCHANGED <<boot, report>>

BeginTests == TestsBegin /\ UNCHANGED <<boot, report>>

\* run_tests returns when every program has stopped.
EndTests ==
    /\ TestsEnd
    /\ AllStop
    /\ \E results \in run_tests : report' = Total(results)
    /\ UNCHANGED boot

RunBoot == bootThread = "running" /\ BootStep /\ UNCHANGED <<gui, report>>

ReturnFromBoot == BootReturns /\ ThreadReturns /\ UNCHANGED report

ExitBoot == BootExits /\ UNCHANGED <<boot, report>>

PanicInBoot == BootPanics /\ PanicInNew /\ UNCHANGED report

\* The program ends, in a frame that panics or because someone ends it.
GoDown ==
    /\ PanickingFrame \/ Quit
    /\ Ended
    /\ report' = NoReport

\* Time passes, and the program can be started again.
Pass == SplashOver /\ UNCHANGED <<boot, report>>
Start == Launch /\ UNCHANGED <<boot, report>>

DesktopInit == GuiInit /\ BootInit /\ report = NoReport

DesktopNext ==
    \/ DrawSplash
    \/ \E clicks \in SUBSET Jobs : DrawFrame(clicks)
    \/ BeginTests \/ EndTests
    \/ RunBoot \/ ReturnFromBoot \/ ExitBoot \/ PanicInBoot
    \/ GoDown \/ Pass \/ Start

\* A frame that was requested is drawn, and a frame finds a panic; time passes; the
\* threads run.  Nobody has to click, to quit or to start the program.
Requested == repaint /\ (DrawSplash \/ DrawFrame({}) \/ (PanickingFrame /\ GoDown))

DesktopFairness ==
    /\ WF_desktop(Requested)
    /\ WF_desktop(Pass)
    /\ WF_desktop(BeginTests) /\ WF_desktop(EndTests)
    /\ WF_desktop(RunBoot) /\ WF_desktop(ReturnFromBoot) /\ WF_desktop(ExitBoot)

DesktopSpec == DesktopInit /\ [][DesktopNext]_desktop /\ DesktopFairness
---------------------------------------------------------------------------------
(* Properties *)

\* Every variable has the shape the code gives it, and a boot is under way exactly
\* while its thread says so.
DesktopTypeOK ==
    /\ GuiTypeOK /\ TypeOK
    /\ mem \in [Addresses -> Nat] /\ loaded \in 0 .. Len(code) + Len(stub_kernel)
    /\ bootPc = "off" <=> bootThread # "running"
    /\ bootResult \in {"none", "Running", "Failed"}
    /\ bootResult # "none" <=> bootPc = "done" \/ bootThread \in {"returned", "finished"}
    /\ report # NoReport <=> testThread = "finished"

\* Files of the NAND are open only while there is a boot thread or its result: a
\* panic, a failed boot, a result that is collected and the end of the program close
\* them, however they are interleaved with the frames.
NandIsClosed ==
    /\ mode[main] # "closed" =>
         bootThread \in {"running", "returned", "finished"}
    /\ mode[probe] # "closed" => mode[main] # "closed"

\* The status bar says Running only when the boot went all the way with the NAND open.
ResultHoldsNand ==
    bootResult = "Running" <=> bootResult # "none" /\ mode[main] = "rw"

\* The programs, the encoders and the checks of the tests agree: a test fails only when
\* it got no core or was late.  RET is the exception.  Its program runs on into memory
\* that was never written, and whether that is a success is for Unicorn to say.
TestsAreRight ==
    testThread = "finished" => report.passed + report.unlucky >= Len(Tests) - 1

\* A job that was started ends, and is collected: a frame finds the thread that has
\* ended, although the last frame it asked for may have been drawn before it did.  (A
\* frame that collects may start the next job at once.)
JobsEnd ==
    /\ testThread \in {"running", "finished"} ~> testThread \in {"none", "spawned"}
    /\ bootThread = "running" ~> bootThread # "running"
    /\ bootThread \in {"returned", "finished", "panicked"} ~> bootThread \in {"none", "running"}
=================================================================================
