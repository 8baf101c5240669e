------------------------------ MODULE AppMain ------------------------------
(***************************************************************************)
(* The emulator's main thread (src/main.cpp): it brings up SDL, the        *)
(* window, Vulkan, ImGui and the orbis subsystems, runs the frame loop     *)
(* until a quit event, and takes everything down again.                    *)
(*                                                                         *)
(* Around it the window system posts events at any time, the clock passes  *)
(* the end of the boot screen at any time, and the GPU finishes submitted  *)
(* frames later.                                                           *)
(*                                                                         *)
(* Left out: widget layout, colours and texts, the fade of the boot        *)
(* screen, and the bodies of the orbis stubs, which are empty.             *)
(***************************************************************************)
EXTENDS Integers, Sequences, FiniteSets

CONSTANTS
  MaxEvents,   \* bound of the model: events the window system ever posts
  MaxInFlight  \* frames the GPU may have outstanding (initInfo.ImageCount)

ASSUME AppMainAssumption ==
  /\ MaxEvents \in Nat
  /\ MaxInFlight \in Nat \ {0}

(***************************************************************************)
(* What main() acquires, in its order.  "boot_wav" is the buffer that      *)
(* SDL_LoadWAV fills, "boot_sound" the audio device it is played on.       *)
(***************************************************************************)
Startup ==
  <<"sdl", "window", "vulkan", "imgui", "pool", "sdl_backend",
    "vulkan_backend", "boot_wav", "boot_sound", "kernel", "modules", "audio",
    "pad", "savedata", "trophy">>

(* The calls that may fail and whose result main() does not look at. *)
Unchecked == {"pool", "sdl_backend", "vulkan_backend", "boot_wav", "boot_sound"}

(* Mutant of Cleanup: the window is forgotten. *)
CleanupWithoutWindow ==
  <<"vulkan_backend", "sdl_backend", "imgui", "pool", "vulkan", "kernel", "sdl">>

(* What it releases at the end, in its order, after waiting for the GPU. *)
Cleanup ==
  <<"vulkan_backend", "sdl_backend", "imgui", "pool", "vulkan", "kernel",
    "window", "sdl">>

(* Mutant of Unwinding: SDL goes before its window. *)
UnwindingSdlFirst == <<"sdl", "window">>

(* What it releases, in its order, when Vulkan fails. *)
Unwinding == <<"window", "sdl">>

Resources == {Startup[i] : i \in DOMAIN Startup}

(***************************************************************************)
(* What no call releases: the subsystems with an init function and no call *)
(* to a shutdown one, and the buffer, which is never freed.                *)
(***************************************************************************)
NeverReleased == {"boot_wav", "modules", "audio", "pad", "savedata", "trophy"}

(* What a resource is built on and refers to while it exists. *)
DependsOn(r) ==
  CASE r = "window"         -> {"sdl"}
    [] r = "vulkan"         -> {"window"}
    [] r = "pool"           -> {"vulkan"}
    [] r = "sdl_backend"    -> {"imgui", "window"}
    [] r = "vulkan_backend" -> {"imgui", "vulkan", "pool"}
    [] r = "boot_sound"     -> {"sdl", "boot_wav"}
    [] OTHER                -> {}

ThemeNames == {"Default", "Dark"}

VARIABLES
  pc,            \* where main() is
  step,          \* position in Startup or Cleanup
  up,            \* resources that exist
  failed,        \* history: the start-up calls that failed
  exitCode,
  done,          \* main()'s loop flag
  queue,         \* the SDL event queue
  posted,        \* events posted so far
  windowSize, swapchainSize,  \* versions: each resize makes a new size
  inFlight,      \* frames submitted and not finished by the GPU
  bootOver,      \* have 3000 ms passed since bootStart?
  themes, currentTheme,       \* the ThemeManager
  drawn,         \* theme of the latest dashboard frame
  chosen         \* history: the theme the user chose last

startup == <<up, failed, exitCode>>
window  == <<queue, posted, windowSize>>
ui      == <<themes, currentTheme, drawn, chosen>>
vars == <<pc, step, startup, done, window, swapchainSize, inFlight, bootOver, ui>>

TypeOK ==
  /\ pc \in {"start", "unwind", "poll", "frame", "submit", "idle", "cleanup",
             "exited", "crashed"}
  /\ step \in 1 .. Len(Startup)
  /\ up \subseteq Resources /\ failed \subseteq Resources
  /\ exitCode \in {"none", "0", "-1"}
  /\ done \in BOOLEAN
  /\ queue \in Seq({"quit", "resize", "other"})
  /\ posted \in 0 .. MaxEvents
  /\ windowSize \in 0 .. MaxEvents
  /\ swapchainSize \in 0 .. MaxEvents
  /\ inFlight \in 0 .. MaxInFlight
  /\ bootOver \in BOOLEAN
  /\ themes \subseteq ThemeNames
  /\ currentTheme \in ThemeNames \cup {"none"}
  /\ drawn \in ThemeNames \cup {"none"}
  /\ chosen \in ThemeNames \cup {"none"}

Queued(e) == \E i \in DOMAIN queue : queue[i] = e

-----------------------------------------------------------------------------
Exit(code) == pc' = "exited" /\ exitCode' = code /\ UNCHANGED step

(* On to the next statement of the start-up, and from the last one to the loop. *)
Proceed ==
  IF step < Len(Startup)
  THEN step' = step + 1 /\ UNCHANGED <<pc, exitCode>>
  ELSE step' = 1 /\ pc' = "poll" /\ UNCHANGED exitCode

(* Mutant of Acquire: a failed window is not looked at either. *)
AcquireAnyway ==
  /\ pc = "start"
  /\ \/ up' = up \cup {Startup[step]} /\ UNCHANGED failed
     \/ /\ Startup[step] \in Unchecked \cup {"window"}
        /\ failed' = failed \cup {Startup[step]} /\ UNCHANGED up
  /\ Proceed
  /\ UNCHANGED <<done, window, swapchainSize, inFlight, bootOver, ui>>

(***************************************************************************)
(* The next statement of the start-up.  A failed SDL or window ends main() *)
(* at once, a failed Vulkan after the unwinding; any other failure goes    *)
(* unnoticed.                                                              *)
(***************************************************************************)
Acquire ==
  LET r == Startup[step]
  IN  /\ pc = "start"
      /\ \/ /\ up' = up \cup {r} /\ UNCHANGED failed
            /\ swapchainSize' = IF r = "vulkan" THEN windowSize ELSE swapchainSize
            /\ Proceed
         \/ /\ failed' = failed \cup {r} /\ UNCHANGED <<up, swapchainSize>>
            /\ \/ r \in Unchecked /\ Proceed
               \/ r \in {"sdl", "window"} /\ Exit("-1")
               \/ r = "vulkan" /\ pc' = "unwind" /\ step' = 1 /\ UNCHANGED exitCode
      /\ UNCHANGED <<done, window, inFlight, bootOver, ui>>

(* Mutant of PollEvent: a later event overwrites the quit. *)
PollEventForgetsQuit ==
  /\ pc = "poll"
  /\ queue # <<>>
  /\ queue' = Tail(queue)
  /\ done' = (Head(queue) = "quit")
  /\ swapchainSize' = IF Head(queue) = "resize" THEN windowSize ELSE swapchainSize
  /\ UNCHANGED <<pc, step, startup, posted, windowSize, inFlight, bootOver, ui>>

(* Mutant of PollEvent: no resize is handled after the quit. *)
PollEventUntilQuit ==
  /\ pc = "poll"
  /\ queue # <<>>
  /\ queue' = Tail(queue)
  /\ done' = (done \/ Head(queue) = "quit")
  /\ swapchainSize' = IF Head(queue) = "resize" /\ ~done THEN windowSize
                      ELSE swapchainSize
  /\ UNCHANGED <<pc, step, startup, posted, windowSize, inFlight, bootOver, ui>>

(***************************************************************************)
(* The inner loop: one turn of  while (SDL_PollEvent(&ev)).  Once the      *)
(* queue is empty the frame begins.  The swapchain is recreated for the    *)
(* size the window has now, not the size in the event.                     *)
(***************************************************************************)
PollEvent ==
  /\ pc = "poll"
  /\ queue # <<>>
  /\ queue' = Tail(queue)
  /\ done' = (done \/ Head(queue) = "quit")
  /\ swapchainSize' = IF Head(queue) = "resize" THEN windowSize ELSE swapchainSize
  /\ UNCHANGED <<pc, step, startup, posted, windowSize, inFlight, bootOver, ui>>

BeginFrame ==
  /\ pc = "poll"
  /\ queue = <<>>
  /\ pc' = "frame"
  /\ UNCHANGED <<step, startup, done, window, swapchainSize, inFlight, bootOver, ui>>

selectTheme(name, known, current) == IF name \in known THEN name ELSE current

RenderPS4BootSequence == ~bootOver /\ UNCHANGED ui

(***************************************************************************)
(* Every dashboard frame adds both themes again and selects "Default"      *)
(* before it draws; a click in the Themes menu is handled after the        *)
(* background colour was pushed.  The vector of themes is the set of its   *)
(* names: equal names carry equal colours and the first one is selected.   *)
(***************************************************************************)
RenderPS4Dashboard ==
  /\ bootOver
  /\ themes' = themes \cup ThemeNames
  /\ drawn' = selectTheme("Default", themes', currentTheme)
  /\ \/ currentTheme' = drawn' /\ UNCHANGED chosen
     \/ \E name \in themes' :
          /\ currentTheme' = selectTheme(name, themes', drawn')
          /\ chosen' = name

Frame ==
  /\ pc = "frame"
  /\ RenderPS4BootSequence \/ RenderPS4Dashboard
  /\ pc' = "submit"
  /\ UNCHANGED <<step, startup, done, window, swapchainSize, inFlight, bootOver>>

(* Mutant of RenderFrame: does not wait for a free frame. *)
RenderFrameUnthrottled ==
  /\ pc = "submit"
  /\ inFlight' = inFlight + 1
  /\ pc' = IF done THEN "idle" ELSE "poll"
  /\ UNCHANGED <<step, startup, done, window, swapchainSize, bootOver, ui>>

(* layra_vulkan_render_frame, then the test of  while (!done). *)
RenderFrame ==
  /\ pc = "submit"
  /\ inFlight < MaxInFlight
  /\ inFlight' = inFlight + 1
  /\ pc' = IF done THEN "idle" ELSE "poll"
  /\ UNCHANGED <<step, startup, done, window, swapchainSize, bootOver, ui>>

(* Mutant of vkDeviceWaitIdle: goes on at once. *)
NoWaitIdle ==
  /\ pc = "idle"
  /\ pc' = "cleanup"
  /\ UNCHANGED <<step, startup, done, window, swapchainSize, inFlight, bootOver, ui>>

vkDeviceWaitIdle ==
  /\ pc = "idle"
  /\ inFlight = 0
  /\ pc' = "cleanup"
  /\ UNCHANGED <<step, startup, done, window, swapchainSize, inFlight, bootOver, ui>>

Releasing == IF pc = "unwind" THEN Unwinding ELSE Cleanup

(***************************************************************************)
(* The next statement of the unwinding or the cleanup.  Destroying a pool  *)
(* that was not created does nothing, and SDL_Quit closes the boot sound's *)
(* device.                                                                 *)
(***************************************************************************)
Release ==
  LET r == Releasing[step]
  IN  /\ pc \in {"unwind", "cleanup"}
      /\ up' = up \ IF r = "sdl" THEN {"sdl", "boot_sound"} ELSE {r}
      /\ IF step < Len(Releasing)
         THEN step' = step + 1 /\ UNCHANGED <<pc, exitCode>>
         ELSE Exit(IF pc = "unwind" THEN "-1" ELSE "0")
      /\ UNCHANGED <<failed, done, window, swapchainSize, inFlight, bootOver, ui>>

(* What the next statement of main() works on. *)
Needed ==
  CASE pc = "start"  -> DependsOn(Startup[step])
    [] pc = "poll"   -> IF queue = <<>> THEN {"sdl"}
                        ELSE {"sdl", "window", "vulkan", "sdl_backend"}
    [] pc = "frame"  -> {"imgui", "sdl_backend", "vulkan_backend"}
    [] pc = "submit" -> {"imgui", "vulkan", "vulkan_backend"}
    [] pc = "idle"   -> {"vulkan"}
    [] pc \in {"unwind", "cleanup"} ->
         DependsOn(Releasing[step]) \cup ({Releasing[step]} \ {"pool"})
    [] OTHER         -> {}

(***************************************************************************)
(* A statement that works on what does not exist is undefined: it may end  *)
(* the process, or go on as if nothing had happened.                       *)
(***************************************************************************)
Crash ==
  /\ ~(Needed \subseteq up)
  /\ pc' = "crashed"
  /\ UNCHANGED <<step, startup, done, window, swapchainSize, inFlight, bootOver, ui>>

MainStep ==
  \/ Acquire
  \/ PollEvent
  \/ BeginFrame
  \/ Frame
  \/ RenderFrame
  \/ vkDeviceWaitIdle
  \/ Release
  \/ Crash

-----------------------------------------------------------------------------
(* The user and the window system. *)
Post(e) ==
  /\ "window" \in up /\ pc # "crashed"
  /\ posted < MaxEvents
  /\ posted' = posted + 1
  /\ queue' = Append(queue, e)
  /\ windowSize' = IF e = "resize" THEN windowSize + 1 ELSE windowSize
  /\ UNCHANGED <<pc, step, startup, done, swapchainSize, inFlight, bootOver, ui>>

BootTimePasses ==
  /\ pc \notin {"start", "unwind", "exited", "crashed"}
  /\ ~bootOver
  /\ bootOver' = TRUE
  /\ UNCHANGED <<pc, step, startup, done, window, swapchainSize, inFlight, ui>>

GpuFinishes ==
  /\ inFlight > 0
  /\ inFlight' = inFlight - 1
  /\ UNCHANGED <<pc, step, startup, done, window, swapchainSize, bootOver, ui>>

Ended == pc \in {"exited", "crashed"}

Exited == Ended /\ UNCHANGED vars

Init ==
  /\ pc = "start" /\ step = 1
  /\ up = {} /\ failed = {} /\ exitCode = "none"
  /\ done = FALSE
  /\ queue = <<>> /\ posted = 0 /\ windowSize = 0
  /\ swapchainSize = 0
  /\ inFlight = 0
  /\ bootOver = FALSE
  /\ themes = {} /\ currentTheme = "none" /\ drawn = "none" /\ chosen = "none"

Next ==
  \/ MainStep
  \/ \E e \in {"quit", "resize", "other"} : Post(e)
  \/ BootTimePasses
  \/ GpuFinishes
  \/ Exited

(***************************************************************************)
(* The main thread keeps running and the GPU finishes what it was given.   *)
(* Nothing is assumed of the user and the clock.                           *)
(***************************************************************************)
Fairness == WF_vars(MainStep) /\ WF_vars(GpuFinishes)

Spec == Init /\ [][Next]_vars /\ Fairness

-----------------------------------------------------------------------------
(***************************************************************************)
(* Nothing is released, by the cleanup or by the unwinding of a failed     *)
(* start, while something that refers to it still exists, whichever of the *)
(* unchecked calls failed before.                                          *)
(***************************************************************************)
ReleaseOrder ==
  [][\A r \in up \ up' : \A d \in up' : r \notin DependsOn(d)]_vars

(***************************************************************************)
(* No statement of the start-up, the loop, the unwinding or the cleanup    *)
(* works on a resource that is not there yet or not any more.  What it may *)
(* miss is a resource whose own call failed and was not looked at: the     *)
(* failures main() does look at are behind none of the crashes.            *)
(***************************************************************************)
UsedWhileAlive == Needed \subseteq up \cup (failed \cap Unchecked)

(***************************************************************************)
(* While the GPU still works on a frame nothing is released.               *)
(***************************************************************************)
NoDestroyInFlight == [][inFlight > 0 => up \subseteq up']_vars

(***************************************************************************)
(* What exists when main() has returned: after a failed SDL_CreateWindow   *)
(* SDL, after the other failed starts nothing, and after the cleanup what  *)
(* no call releases, as far as it had been acquired.                       *)
(***************************************************************************)
ExitReleases ==
  pc = "exited" =>
    up = IF exitCode = "0" THEN NeverReleased \ failed
         ELSE IF "window" \in failed THEN {"sdl"} ELSE {}

(***************************************************************************)
(* A window whose size differs from the swapchain's has a resize event     *)
(* waiting, so no sequence of resizes, not even during the start-up or     *)
(* while older events are handled, leaves the picture at a stale size.     *)
(***************************************************************************)
NoResizeLost ==
  pc \in {"poll", "frame", "submit"} /\ swapchainSize # windowSize =>
    Queued("resize")

(***************************************************************************)
(* A quit event that was posted ends the program, whatever else is queued  *)
(* before or after it and whatever failed in the start-up.                 *)
(***************************************************************************)
QuitExits == (Queued("quit") \/ done) ~> Ended

(***************************************************************************)
(* Once a quit event is queued nothing takes it back, and every step of    *)
(* main() brings its end nearer, from whatever statement it is at: what is *)
(* queued is handled, at most one more turn of the loop is begun, and the  *)
(* rest of the start-up and the cleanup are gone through once.             *)
(***************************************************************************)
QuitPending == done \/ Queued("quit")

Ahead ==
  CASE pc = "start" -> 14 + Len(Startup) - step
    [] pc = "frame" -> IF done THEN 11 ELSE 14
    [] pc = "submit" -> IF done THEN 10 ELSE 13
    [] pc = "poll" -> 12
    [] pc = "idle" -> 9
    [] pc = "cleanup" -> Len(Cleanup) + 1 - step
    [] pc = "unwind" -> Len(Unwinding) + 1 - step
    [] OTHER -> 0

StepsLeft == Len(queue) + (MaxEvents - posted) + Ahead

QuitEnds ==
  [][QuitPending => /\ QuitPending'
                    /\ StepsLeft' <= StepsLeft
                    /\ MainStep => StepsLeft' < StepsLeft]_vars

(***************************************************************************)
(* "Users will be able to customize the look and feel of the UI with       *)
(* themes": a dashboard frame is drawn in the theme the user chose in an   *)
(* earlier one.                                                            *)
(***************************************************************************)
ChosenThemeDrawn ==
  [][pc = "frame" /\ pc' = "submit" /\ bootOver /\ chosen # "none" =>
       drawn' = chosen]_vars
=============================================================================
