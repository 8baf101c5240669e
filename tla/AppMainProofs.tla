---------------------------- MODULE AppMainProofs ---------------------------
(***************************************************************************)
(* Proofs about AppMain, for any number of events and of frames the GPU    *)
(* may have outstanding.                                                   *)
(*                                                                         *)
(* Progress says which resources exist at each statement of main():        *)
(* those of the start-up so far, all, those the unwinding or the cleanup   *)
(* has not come to, or those each way out leaves, without the ones whose   *)
(* own call failed.  Drawing says where frames may be outstanding, and     *)
(* Resizing how far a size may be behind.                                  *)
(***************************************************************************)
EXTENDS AppMain, TLAPS

(* What the start-up has come to before its n-th statement, and what the   *)
(* cleanup has left.                                                       *)
Begun(n) == {Startup[i] : i \in 1 .. n - 1}
Left(n) == Resources \ {Cleanup[i] : i \in 1 .. n - 1}

Running == {"poll", "frame", "submit", "idle"}

(* The resources in R exist and no other, but for those that failed. *)
Exist(R) == up = R \ failed

Progress ==
  /\ pc = "start" => Exist(Begun(step)) /\ failed \subseteq Begun(step) \cap Unchecked
  /\ pc = "unwind" => /\ step \in 1 .. 2 /\ failed = {"vulkan"}
                      /\ up = IF step = 1 THEN {"sdl", "window"} ELSE {"sdl"}
  /\ pc \in Running => Exist(Resources) /\ failed \subseteq Unchecked /\ step = 1
  /\ pc = "cleanup" => /\ Exist(Left(step)) /\ failed \subseteq Unchecked
                       /\ step \in 1 .. Len(Cleanup)
  /\ ExitReleases

Drawing == inFlight > 0 => pc \in Running \cup {"crashed"}

Resizing ==
  /\ windowSize <= posted
  /\ pc \in {"start", "poll", "frame", "submit"} /\ "vulkan" \in up =>
       swapchainSize = windowSize \/ Queued("resize")

IInv == TypeOK /\ Progress /\ Drawing /\ Resizing

USE DEF startup, window, ui

-----------------------------------------------------------------------------
(* The lists, as far as the proofs look into them. *)
LEMMA Lists ==
  /\ Len(Startup) = 15 /\ Len(Cleanup) = 8 /\ Len(Unwinding) = 2
  /\ \A i \in 1 .. 15 : Startup[i] \in Resources
  /\ \A r \in Resources : \E i \in 1 .. 15 : r = Startup[i]
BY DEF Startup, Cleanup, Unwinding, Resources

LEMMA Named ==
  /\ Startup[1] = "sdl" /\ Startup[2] = "window" /\ Startup[3] = "vulkan"
  /\ \A i \in 1 .. 15 : /\ Startup[i] = "sdl" => i = 1
                        /\ Startup[i] = "window" => i = 2
                        /\ Startup[i] = "vulkan" => i = 3
BY DEF Startup

LEMMA Distinct == \A i, j \in 1 .. 15 : Startup[i] = Startup[j] => i = j
BY DEF Startup

LEMMA AllResources ==
  Resources = {"sdl", "window", "vulkan", "imgui", "pool", "sdl_backend",
               "vulkan_backend", "boot_wav", "boot_sound", "kernel", "modules",
               "audio", "pad", "savedata", "trophy"}
<1>1. Resources = {Startup[i] : i \in 1 .. 15}
  BY DEF Resources, Startup
<1> QED
  BY <1>1 DEF Startup

LEMMA BegunGrows ==
  /\ Begun(1) = {}
  /\ \A n \in 1 .. 15 : /\ Begun(n + 1) = Begun(n) \cup {Startup[n]}
                        /\ Begun(n) \subseteq Resources
                        /\ Startup[n] \notin Begun(n)
  /\ Begun(16) = Resources
<1>1. Begun(1) = {}
  BY DEF Begun
<1>2. ASSUME NEW n \in 1 .. 15
      PROVE  /\ Begun(n + 1) = Begun(n) \cup {Startup[n]} /\ Begun(n) \subseteq Resources
             /\ Startup[n] \notin Begun(n)
  <2>1. 1 .. (n + 1) - 1 = (1 .. n - 1) \cup {n}
    OBVIOUS
  <2>2. Startup[n] \notin Begun(n)
    <3>1. \A i \in 1 .. n - 1 : i \in 1 .. 15 /\ i # n
      OBVIOUS
    <3> QED
      BY <3>1, Distinct DEF Begun
  <2> QED
    BY <2>1, <2>2, Lists DEF Begun
<1>3. Begun(16) = Resources
  BY Lists DEF Begun
<1> QED
  BY <1>1, <1>2, <1>3

(* The first statements, whose results main() looks at. *)
LEMMA FirstBegun == Begun(2) = {"sdl"} /\ Begun(3) = {"sdl", "window"}
<1>1. Begun(2) = Begun(1) \cup {Startup[1]} /\ Begun(1 + 1 + 1) = Begun(1 + 1) \cup {Startup[2]}
  BY BegunGrows
<1> QED
  BY <1>1, BegunGrows, Named

LEMMA LeftShrinks ==
  /\ Left(1) = Resources
  /\ \A n \in 1 .. 8 : Left(n + 1) = Left(n) \ {Cleanup[n]}
  /\ Left(9) \ {"boot_sound"} = NeverReleased
<1>1. Left(1) = Resources
  BY DEF Left
<1>2. ASSUME NEW n \in 1 .. 8 PROVE Left(n + 1) = Left(n) \ {Cleanup[n]}
  <2>1. 1 .. (n + 1) - 1 = (1 .. n - 1) \cup {n}
    OBVIOUS
  <2> QED
    BY <2>1 DEF Left
<1>3. {Cleanup[i] : i \in 1 .. 8} =
        {"vulkan_backend", "sdl_backend", "imgui", "pool", "vulkan", "kernel",
         "window", "sdl"}
  BY DEF Cleanup
<1>4. Left(9) \ {"boot_sound"} = NeverReleased
  BY <1>3, AllResources DEF Left, NeverReleased
<1> QED
  BY <1>1, <1>2, <1>4

-----------------------------------------------------------------------------
(***************************************************************************)
(* The queue: an event is lost only by being handled.                      *)
(***************************************************************************)
LEMMA QueueTyped ==
  ASSUME TypeOK, queue # <<>>
  PROVE  Head(queue) \in {"quit", "resize", "other"} /\ Tail(queue) \in Seq({"quit", "resize", "other"})
BY DEF TypeOK

LEMMA QueueKeeps ==
  ASSUME TypeOK, queue # <<>>, queue' = Tail(queue),
         NEW kept, Queued(kept), Head(queue) # kept
  PROVE  Queued(kept)'
<1>1. queue \in Seq({"quit", "resize", "other"})
  BY DEF TypeOK
<1>2. PICK i \in 1 .. Len(queue) : queue[i] = kept
  BY <1>1 DEF Queued
<1>3. i # 1 /\ i - 1 \in 1 .. Len(Tail(queue)) /\ Tail(queue)[i - 1] = kept
  BY <1>1, <1>2
<1>4. DOMAIN Tail(queue) = 1 .. Len(Tail(queue))
  BY <1>1
<1> QED
  BY <1>3, <1>4 DEF Queued

LEMMA QueueGrows ==
  ASSUME TypeOK, NEW e \in {"quit", "resize", "other"}, queue' = Append(queue, e),
         NEW kept, Queued(kept) \/ e = kept
  PROVE  Queued(kept)'
<1>1. queue \in Seq({"quit", "resize", "other"})
  BY DEF TypeOK
<1>2. /\ DOMAIN Append(queue, e) = 1 .. Len(queue) + 1
      /\ \A i \in 1 .. Len(queue) : Append(queue, e)[i] = queue[i]
      /\ Append(queue, e)[Len(queue) + 1] = e
      /\ DOMAIN queue = 1 .. Len(queue) /\ Len(queue) \in Nat
  BY <1>1
<1>3. CASE e = kept
  BY <1>2, <1>3 DEF Queued
<1>4. CASE Queued(kept)
  <2>1. PICK i \in 1 .. Len(queue) : queue[i] = kept
    BY <1>2, <1>4 DEF Queued
  <2>2. i \in 1 .. Len(queue) + 1 /\ Append(queue, e)[i] = kept
    BY <1>2, <2>1
  <2> QED
    BY <1>2, <2>2 DEF Queued
<1> QED
  BY <1>3, <1>4

-----------------------------------------------------------------------------
LEMMA InitIInv == Init => IInv
<1> SUFFICES ASSUME Init PROVE IInv
  OBVIOUS
<1>1. TypeOK
  <2>1. <<>> \in Seq({"quit", "resize", "other"}) /\ 1 \in 1 .. Len(Startup)
    BY Lists
  <2> QED
    <3>1. /\ queue \in Seq({"quit", "resize", "other"}) /\ step \in 1 .. Len(Startup)
          /\ posted \in 0 .. MaxEvents /\ windowSize \in 0 .. MaxEvents
          /\ swapchainSize \in 0 .. MaxEvents /\ inFlight \in 0 .. MaxInFlight
      BY <2>1, AppMainAssumption DEF Init
    <3> QED
      BY <3>1 DEF Init, TypeOK
<1>2. Progress
  BY BegunGrows DEF Init, Progress, Exist, Running, ExitReleases
<1> QED
  BY <1>1, <1>2 DEF Init, IInv, Drawing, Resizing

(* Theme names that are known stay among those there are. *)
LEMMA Themes ==
  ASSUME TypeOK, Frame
  PROVE  /\ themes' \subseteq ThemeNames /\ currentTheme' \in ThemeNames \cup {"none"}
         /\ drawn' \in ThemeNames \cup {"none"} /\ chosen' \in ThemeNames \cup {"none"}
<1>1. CASE RenderPS4BootSequence
  BY <1>1 DEF RenderPS4BootSequence, TypeOK
<1>2. CASE RenderPS4Dashboard
  <2>1. themes' = ThemeNames /\ "Default" \in ThemeNames
    BY <1>2 DEF RenderPS4Dashboard, TypeOK, ThemeNames
  <2>2. drawn' = "Default"
    BY <1>2, <2>1 DEF RenderPS4Dashboard, selectTheme
  <2>3. /\ currentTheme' \in ThemeNames \cup {"none"}
        /\ chosen' \in ThemeNames \cup {"none"}
    BY <1>2, <2>1, <2>2 DEF RenderPS4Dashboard, selectTheme, TypeOK
  <2> QED
    BY <2>1, <2>2, <2>3
<1> QED
  BY <1>1, <1>2 DEF Frame

LEMMA TypeStep == TypeOK /\ Progress /\ Resizing /\ [Next]_vars => TypeOK'
<1> SUFFICES ASSUME TypeOK, Progress, Resizing, [Next]_vars PROVE TypeOK'
  OBVIOUS
<1>0. MaxEvents \in Nat /\ MaxInFlight \in Nat
  BY AppMainAssumption
<1>1. CASE Acquire
  <2>0. step \in 1 .. 15 /\ Startup[step] \in Resources /\ Len(Startup) = 15
    BY Lists DEF TypeOK
  <2>1. up' \subseteq Resources /\ failed' \subseteq Resources
    BY <1>1, <2>0 DEF Acquire, TypeOK
  <2>2. step' \in 1 .. Len(Startup) /\ exitCode' \in {"none", "0", "-1"}
        /\ pc' \in {"start", "poll", "unwind", "exited"}
    <3>1. \/ step < 15 /\ step' = step + 1 /\ UNCHANGED <<pc, exitCode>>
          \/ step' = 1 /\ pc' = "poll" /\ UNCHANGED exitCode
          \/ step' = 1 /\ pc' = "unwind" /\ UNCHANGED exitCode
          \/ step' = step /\ pc' = "exited" /\ exitCode' = "-1"
      BY <1>1, <2>0 DEF Acquire, Proceed, Exit
    <3>2. pc = "start" /\ exitCode \in {"none", "0", "-1"}
      BY <1>1 DEF Acquire, TypeOK
    <3> QED
      BY <2>0, <3>1, <3>2
  <2>3. swapchainSize' \in 0 .. MaxEvents
    BY <1>1 DEF Acquire, TypeOK
  <2>4. UNCHANGED <<done, window, inFlight, bootOver, ui>>
    BY <1>1 DEF Acquire
  <2> QED
    BY <2>1, <2>2, <2>3, <2>4 DEF TypeOK
<1>2. CASE PollEvent
  <2>1. queue' \in Seq({"quit", "resize", "other"})
    BY <1>2, QueueTyped DEF PollEvent
  <2>2. done' \in BOOLEAN
    BY <1>2 DEF PollEvent, TypeOK
  <2>3. swapchainSize' \in 0 .. MaxEvents
    BY <1>2 DEF PollEvent, TypeOK
  <2> QED
    BY <1>2, <2>1, <2>2, <2>3 DEF PollEvent, TypeOK
<1>3. CASE BeginFrame \/ vkDeviceWaitIdle
  BY <1>3 DEF BeginFrame, vkDeviceWaitIdle, TypeOK
<1>4. CASE Frame
  BY <1>4, Themes DEF Frame, TypeOK
<1>5. CASE RenderFrame
  <2>1. inFlight' \in 0 .. MaxInFlight
    BY <1>0, <1>5 DEF RenderFrame, TypeOK
  <2> QED
    BY <1>5, <2>1 DEF RenderFrame, TypeOK
<1>6. CASE Release
  <2>1. step' \in 1 .. Len(Startup)
    <3>1. step \in 1 .. 8 /\ Len(Startup) = 15
      BY <1>6, Lists DEF Release, Progress
    <3>2. step' = step \/ (step < Len(Releasing) /\ step' = step + 1)
      BY <1>6 DEF Release, Exit
    <3>3. Len(Releasing) \in {2, 8}
      BY Lists DEF Releasing
    <3> QED
      BY <3>1, <3>2, <3>3
  <2>2. up' \subseteq Resources
    BY <1>6 DEF Release, TypeOK
  <2>3. pc' \in {"unwind", "cleanup", "exited"} /\ exitCode' \in {"none", "0", "-1"}
    BY <1>6 DEF Release, Exit, TypeOK
  <2>4. UNCHANGED <<failed, done, window, swapchainSize, inFlight, bootOver, ui>>
    BY <1>6 DEF Release
  <2> QED
    BY <2>1, <2>2, <2>3, <2>4 DEF TypeOK
<1>7. ASSUME NEW e \in {"quit", "resize", "other"}, Post(e) PROVE TypeOK'
  <2>1. queue' \in Seq({"quit", "resize", "other"})
    BY <1>7 DEF Post, TypeOK
  <2>2. posted' \in 0 .. MaxEvents
    BY <1>0, <1>7 DEF Post, TypeOK
  <2>3. windowSize' \in 0 .. MaxEvents
    BY <1>0, <1>7 DEF Post, TypeOK, Resizing
  <2> QED
    BY <1>7, <2>1, <2>2, <2>3 DEF Post, TypeOK
<1>8. CASE BootTimePasses
  BY <1>8 DEF BootTimePasses, TypeOK
<1>9. CASE GpuFinishes
  <2>1. inFlight' \in 0 .. MaxInFlight
    BY <1>0, <1>9 DEF GpuFinishes, TypeOK
  <2> QED
    BY <1>9, <2>1 DEF GpuFinishes, TypeOK
<1>10. CASE UNCHANGED vars
  BY <1>10 DEF vars, TypeOK
<1>11. CASE Crash
  BY <1>11 DEF Crash, TypeOK
<1> QED
  BY <1>1, <1>2, <1>3, <1>4, <1>5, <1>6, <1>7, <1>8, <1>9, <1>10, <1>11 DEF Next, MainStep, Exited

-----------------------------------------------------------------------------
LEMMA CleanupNames ==
  /\ Cleanup[8] = "sdl" /\ \A n \in 1 .. 7 : Cleanup[n] # "sdl"
  /\ Unwinding[1] = "window" /\ Unwinding[2] = "sdl"
BY DEF Cleanup, Unwinding

(* What a step of the cleanup or of the unwinding does to the resources. *)
LEMMA Released ==
  ASSUME Progress, Release
  PROVE  /\ failed' = failed
         /\ \/ /\ pc = "cleanup" /\ step \in 1 .. 7 /\ pc' = pc /\ step' = step + 1
               /\ up' = up \ {Cleanup[step]}
            \/ /\ pc = "cleanup" /\ step = 8 /\ pc' = "exited" /\ exitCode' = "0"
               /\ up' = up \ {Cleanup[8], "boot_sound"}
            \/ pc = "unwind" /\ step = 1 /\ pc' = pc /\ step' = 2 /\ up' = {"sdl"}
            \/ /\ pc = "unwind" /\ step = 2 /\ pc' = "exited" /\ exitCode' = "-1"
               /\ up' = {}
<1>1. CASE pc = "cleanup"
  <2>1. step \in 1 .. 8 /\ Releasing = Cleanup
    BY <1>1, Lists DEF Progress, Releasing
  <2>2. CASE step \in 1 .. 7
    BY <1>1, <2>1, <2>2, Lists, CleanupNames DEF Release
  <2>3. CASE step = 8
    BY <1>1, <2>1, <2>3, Lists, CleanupNames DEF Release, Exit
  <2> QED
    BY <2>1, <2>2, <2>3
<1>2. CASE pc = "unwind"
  <2>1. /\ step \in 1 .. 2 /\ Releasing = Unwinding
        /\ up = IF step = 1 THEN {"sdl", "window"} ELSE {"sdl"}
    BY <1>2 DEF Progress, Releasing
  <2>2. CASE step = 1
    <3>1. up' = up \ {"window"} /\ pc' = pc /\ step' = 2 /\ failed' = failed
      BY <1>2, <2>1, <2>2, Lists, CleanupNames DEF Release
    <3> QED
      BY <1>2, <2>1, <2>2, <3>1
  <2>3. CASE step = 2
    <3>1. /\ up' = up \ {"sdl", "boot_sound"} /\ failed' = failed
          /\ pc' = "exited" /\ exitCode' = "-1"
      BY <1>2, <2>1, <2>3, Lists, CleanupNames DEF Release, Exit
    <3> QED
      BY <1>2, <2>1, <2>3, <3>1
  <2> QED
    BY <2>1, <2>2, <2>3
<1> QED
  BY <1>1, <1>2 DEF Release

LEMMA ProgressStep == TypeOK /\ Progress /\ [Next]_vars => Progress'
<1> SUFFICES ASSUME TypeOK, Progress, [Next]_vars PROVE Progress'
  OBVIOUS
<1>1. CASE Acquire
  <2> DEFINE r == Startup[step]
  <2>1. /\ pc = "start" /\ step \in 1 .. 15 /\ Len(Startup) = 15
        /\ up = Begun(step) \ failed /\ failed \subseteq Begun(step) \cap Unchecked
    BY <1>1, Lists DEF Acquire, Progress, TypeOK, Exist
  <2>2. /\ Begun(step + 1) = Begun(step) \cup {r} /\ r \notin Begun(step)
    BY <2>1, BegunGrows
  <2>3. CASE /\ \/ up' = up \cup {r} /\ failed' = failed
                \/ up' = up /\ failed' = failed \cup {r} /\ r \in Unchecked
             /\ Proceed
    <3>1. /\ up' = Begun(step + 1) \ failed'
          /\ failed' \subseteq Begun(step + 1) \cap Unchecked
      BY <2>1, <2>2, <2>3
    <3>2. CASE step < 15 /\ step' = step + 1 /\ pc' = pc
      BY <2>1, <3>1, <3>2 DEF Progress, Exist, Running, ExitReleases
    <3>3. CASE step = 15 /\ step' = 1 /\ pc' = "poll"
      <4>1. Begun(step + 1) = Resources
        BY <3>3, BegunGrows
      <4> QED
        BY <3>1, <3>3, <4>1 DEF Progress, Exist, Running, ExitReleases
    <3> QED
      BY <2>1, <2>3, <3>2, <3>3 DEF Proceed
  <2>4. CASE /\ r \in {"sdl", "window"} /\ up' = up /\ failed' = failed \cup {r}
             /\ pc' = "exited" /\ exitCode' = "-1"
    <3>1. CASE r = "sdl"
      <4>1. step = 1
        BY <2>1, <3>1, Named
      <4>2. up' = {} /\ failed' = {"sdl"}
        BY <2>1, <2>4, <3>1, <4>1, BegunGrows
      <4> QED
        BY <2>4, <4>2 DEF Progress, Running, ExitReleases
    <3>2. CASE r = "window"
      <4>1. step = 2
        BY <2>1, <3>2, Named
      <4>2. up' = {"sdl"} /\ failed' = {"window"}
        BY <2>1, <2>4, <3>2, <4>1, FirstBegun DEF Unchecked
      <4> QED
        BY <2>4, <4>2 DEF Progress, Running, ExitReleases
    <3> QED
      BY <2>4, <3>1, <3>2
  <2>5. CASE /\ r = "vulkan" /\ up' = up /\ failed' = failed \cup {r}
             /\ pc' = "unwind" /\ step' = 1
    <3>1. step = 3
      BY <2>1, <2>5, Named
    <3>2. up' = {"sdl", "window"} /\ failed' = {"vulkan"}
      BY <2>1, <2>5, <3>1, FirstBegun DEF Unchecked
    <3> QED
      BY <2>5, <3>2 DEF Progress, Running, ExitReleases
  <2> QED
    BY <1>1, <2>3, <2>4, <2>5 DEF Acquire, Exit
<1>2. CASE PollEvent \/ BeginFrame \/ Frame \/ RenderFrame
  <2>1. pc \in Running /\ pc' \in Running /\ UNCHANGED <<up, failed, step>>
    BY <1>2 DEF PollEvent, BeginFrame, Frame, RenderFrame, Running
  <2> QED
    BY <2>1 DEF Progress, Running, Exist, ExitReleases
<1>3. CASE vkDeviceWaitIdle
  BY <1>3, LeftShrinks, Lists
     DEF vkDeviceWaitIdle, Progress, Running, Exist, ExitReleases
<1>4. CASE Release
  <2>1. CASE /\ pc = "cleanup" /\ step \in 1 .. 7 /\ pc' = pc /\ step' = step + 1
             /\ up' = up \ {Cleanup[step]} /\ failed' = failed
    <3>1. /\ up = Left(step) \ failed /\ failed \subseteq Unchecked
          /\ Left(step + 1) = Left(step) \ {Cleanup[step]}
      BY <2>1, LeftShrinks DEF Progress, Exist
    <3>2. up' = Left(step') \ failed'
      BY <2>1, <3>1
    <3> QED
      BY <2>1, <3>1, <3>2, Lists DEF Progress, Running, Exist, ExitReleases
  <2>2. CASE /\ pc = "cleanup" /\ step = 8 /\ pc' = "exited" /\ exitCode' = "0"
             /\ up' = up \ {Cleanup[8], "boot_sound"} /\ failed' = failed
    <3>1. up = Left(8) \ failed
      BY <2>2 DEF Progress, Exist
    <3>2. Left(8 + 1) = Left(8) \ {Cleanup[8]}
      BY LeftShrinks
    <3>3. up' = (Left(9) \ {"boot_sound"}) \ failed
      BY <2>2, <3>1, <3>2
    <3>4. up' = NeverReleased \ failed'
      BY <2>2, <3>3, LeftShrinks
    <3> QED
      BY <2>2, <3>4 DEF Progress, Running, ExitReleases
  <2>3. CASE /\ pc = "unwind" /\ step = 1 /\ pc' = pc /\ step' = 2 /\ up' = {"sdl"}
             /\ failed' = failed
    BY <2>3 DEF Progress, Running, ExitReleases
  <2>4. CASE /\ pc = "unwind" /\ step = 2 /\ pc' = "exited" /\ exitCode' = "-1"
             /\ up' = {} /\ failed' = failed
    BY <2>4 DEF Progress, Running, ExitReleases
  <2> QED
    BY <1>4, <2>1, <2>2, <2>3, <2>4, Released
<1>5. CASE Crash
  BY <1>5 DEF Crash, Progress, Running, ExitReleases
<1>6. ASSUME UNCHANGED <<pc, step, startup>> PROVE Progress'
  BY <1>6 DEF Progress, Exist, ExitReleases
<1> QED
  BY <1>1, <1>2, <1>3, <1>4, <1>5, <1>6
     DEF Next, MainStep, Exited, vars, Post, BootTimePasses, GpuFinishes

LEMMA DrawingStep == TypeOK /\ Drawing /\ [Next]_vars => Drawing'
BY DEF Next, MainStep, Exited, vars, Acquire, Proceed, PollEvent, BeginFrame, Frame, RenderFrame,
       vkDeviceWaitIdle, Release, Exit, Post, BootTimePasses, GpuFinishes, TypeOK,
       Drawing, Running, Crash

(* From the window's creation on the swapchain is at its size or a resize  *)
(* is queued.                                                              *)
LEMMA ResizingStep == TypeOK /\ Progress /\ Resizing /\ [Next]_vars => Resizing'
<1> SUFFICES ASSUME TypeOK, Progress, Resizing, [Next]_vars PROVE Resizing'
  OBVIOUS
<1>1. CASE Acquire
  <2>1. /\ pc = "start" /\ UNCHANGED <<queue, posted, windowSize>>
        /\ "vulkan" \in up' => \/ swapchainSize' = windowSize
                               \/ "vulkan" \in up /\ swapchainSize' = swapchainSize
    BY <1>1 DEF Acquire, Proceed
  <2> QED
    BY <2>1 DEF Resizing, Queued
<1>2. CASE PollEvent
  <2>1. CASE Head(queue) = "resize"
    BY <1>2, <2>1 DEF PollEvent, Resizing
  <2>2. CASE Head(queue) # "resize"
    <3>1. Queued("resize") => Queued("resize")'
      BY <1>2, <2>2, QueueKeeps DEF PollEvent
    <3> QED
      BY <1>2, <2>2, <3>1 DEF PollEvent, Resizing
  <2> QED
    BY <2>1, <2>2
<1>3. ASSUME NEW e \in {"quit", "resize", "other"}, Post(e) PROVE Resizing'
  <2>1. Queued("resize") \/ e = "resize" => Queued("resize")'
    BY <1>3, QueueGrows DEF Post
  <2> QED
    BY <1>3, <2>1 DEF Post, Resizing, TypeOK
<1>4. CASE BeginFrame \/ Frame \/ RenderFrame \/ vkDeviceWaitIdle \/ BootTimePasses
             \/ GpuFinishes \/ UNCHANGED vars
  <2>1. /\ UNCHANGED <<queue, posted, windowSize, swapchainSize, up>>
        /\ pc' \in {"start", "poll", "frame", "submit"} =>
             pc \in {"start", "poll", "frame", "submit"}
    BY <1>4 DEF BeginFrame, Frame, RenderFrame, vkDeviceWaitIdle, BootTimePasses,
                GpuFinishes, vars
  <2> QED
    BY <2>1 DEF Resizing, Queued
<1>5. CASE Release
  <2>1. pc' \in {"unwind", "cleanup", "exited"} /\ UNCHANGED <<posted, windowSize>>
    BY <1>5 DEF Release, Exit
  <2> QED
    BY <2>1 DEF Resizing
<1>6. CASE Crash
  BY <1>6 DEF Crash, Resizing
<1> QED
  BY <1>1, <1>2, <1>3, <1>4, <1>5, <1>6 DEF Next, MainStep, Exited

LEMMA Invariant == Spec => []IInv
<1>1. IInv /\ [Next]_vars => IInv'
  BY TypeStep, ProgressStep, DrawingStep, ResizingStep DEF IInv
<1> QED
  BY InitIInv, <1>1, PTL DEF Spec

-----------------------------------------------------------------------------
(* No sequence of events, frames and failures leaves the types.            *)
THEOREM TypeCorrect == Spec => []TypeOK
BY Invariant, PTL DEF IInv

(* main() destroys nothing while the GPU may still work on a frame,        *)
(* however many may be outstanding.                                        *)
THEOREM NothingDestroyedInFlight == Spec => NoDestroyInFlight
<1>1. IInv /\ [Next]_vars => [inFlight > 0 => up \subseteq up']_vars
  <2> SUFFICES ASSUME IInv, [Next]_vars, inFlight > 0 PROVE up \subseteq up'
    OBVIOUS
  <2>1. pc \notin {"unwind", "cleanup"}
    BY DEF IInv, Drawing, Running
  <2> QED
    BY <2>1 DEF Next, MainStep, Exited, vars, Acquire, PollEvent, BeginFrame, Frame, RenderFrame,
                vkDeviceWaitIdle, Release, Crash, Post, BootTimePasses, GpuFinishes
<1> QED
  BY Invariant, <1>1, PTL DEF Spec, NoDestroyInFlight

(* Which resources are left when main() has returned, on each way out and  *)
(* whichever of the unchecked calls failed.                                *)
THEOREM ExitsReleased == Spec => []ExitReleases
<1>1. IInv => ExitReleases
  BY DEF IInv, Progress
<1> QED
  BY Invariant, <1>1, PTL

(* No sequence of resize events leaves the swapchain at a stale size.      *)
THEOREM ResizeKept == Spec => []NoResizeLost
<1>1. IInv => NoResizeLost
  <2> SUFFICES ASSUME IInv, pc \in {"poll", "frame", "submit"}, swapchainSize # windowSize
               PROVE  Queued("resize")
    BY DEF NoResizeLost
  <2>1. "vulkan" \in up
    BY AllResources DEF IInv, Progress, Running, Exist, Unchecked
  <2> QED
    BY <2>1 DEF IInv, Resizing
<1> QED
  BY Invariant, <1>1, PTL

(* What a resource is built on is released after it. *)
LEMMA Dependants ==
  \A n \in 1 .. 8, d \in Resources : Cleanup[n] \in DependsOn(d) =>
    \/ d \in {Cleanup[i] : i \in 1 .. n - 1}
    \/ n = 8 /\ d = "boot_sound"
<1> SUFFICES ASSUME NEW n \in 1 .. 8, NEW d \in Resources, Cleanup[n] \in DependsOn(d)
             PROVE  \/ \E i \in 1 .. n - 1 : d = Cleanup[i]
                    \/ n = 8 /\ d = "boot_sound"
  OBVIOUS
<1>1. /\ Cleanup[1] = "vulkan_backend" /\ Cleanup[2] = "sdl_backend" /\ Cleanup[3] = "imgui"
      /\ Cleanup[4] = "pool" /\ Cleanup[5] = "vulkan" /\ Cleanup[6] = "kernel"
      /\ Cleanup[7] = "window" /\ Cleanup[8] = "sdl"
  BY DEF Cleanup
<1>2. \/ d \in {"window", "boot_sound"} /\ Cleanup[n] \in {"sdl", "boot_wav"}
      \/ d = "vulkan" /\ Cleanup[n] = "window"
      \/ d = "pool" /\ Cleanup[n] = "vulkan"
      \/ d = "sdl_backend" /\ Cleanup[n] \in {"imgui", "window"}
      \/ d = "vulkan_backend" /\ Cleanup[n] \in {"imgui", "vulkan", "pool"}
  BY AllResources DEF DependsOn
<1>3. /\ Cleanup[n] = "sdl" => n = 8
      /\ Cleanup[n] # "boot_wav"
      /\ Cleanup[n] = "window" => n = 7
      /\ Cleanup[n] = "vulkan" => n = 5
      /\ Cleanup[n] = "pool" => n = 4
      /\ Cleanup[n] = "imgui" => n = 3
  BY <1>1
<1> QED
  BY <1>1, <1>2, <1>3

LEMMA NoneOnBootSound == \A d \in Resources : "boot_sound" \notin DependsOn(d)
BY AllResources DEF DependsOn

(* Neither the cleanup nor the unwinding, each a statement at a time,      *)
(* releases what something that still exists refers to.                    *)
THEOREM ReleasedInOrder == Spec => ReleaseOrder
<1>1. IInv /\ [Next]_vars =>
        [\A r \in up \ up' : \A d \in up' : r \notin DependsOn(d)]_vars
  <2> SUFFICES ASSUME IInv, [Next]_vars, NEW r \in up \ up', NEW d \in up'
               PROVE  r \notin DependsOn(d)
    OBVIOUS
  <2>1. TypeOK /\ Progress /\ d \in Resources
    BY TypeStep DEF IInv, TypeOK
  <2>2. CASE Release
    <3>1. CASE pc = "cleanup" /\ step \in 1 .. 7 /\ up' = up \ {Cleanup[step]}
      <4>1. r = Cleanup[step] /\ d \in Left(step)
        BY <2>1, <3>1 DEF Progress, Exist
      <4>2. d \notin {Cleanup[i] : i \in 1 .. step - 1}
        BY <4>1 DEF Left
      <4> QED
        BY <2>1, <3>1, <4>1, <4>2, Dependants
    <3>2. CASE pc = "cleanup" /\ step = 8 /\ up' = up \ {Cleanup[8], "boot_sound"}
      <4>1. r \in {Cleanup[8], "boot_sound"} /\ d \in Left(8) /\ d # "boot_sound"
        BY <2>1, <3>2 DEF Progress, Exist
      <4>2. d \notin {Cleanup[i] : i \in 1 .. 8 - 1}
        BY <4>1 DEF Left
      <4> QED
        BY <2>1, <4>1, <4>2, Dependants, NoneOnBootSound
    <3>3. CASE pc = "unwind" /\ up' = {"sdl"}
      <4>1. d = "sdl"
        BY <3>3
      <4> QED
        BY <4>1 DEF DependsOn
    <3>4. CASE up' = {}
      BY <3>4
    <3> QED
      BY <2>1, <2>2, <3>1, <3>2, <3>3, <3>4, Released
  <2>3. CASE up \subseteq up'
    BY <2>3
  <2> QED
    BY <2>2, <2>3 DEF Next, MainStep, Exited, vars, Acquire, PollEvent, BeginFrame, Frame,
                      RenderFrame, vkDeviceWaitIdle, Crash, Post, BootTimePasses, GpuFinishes
<1> QED
  BY Invariant, <1>1, PTL DEF Spec, ReleaseOrder

(* What the n-th statement of the start-up builds on comes before it. *)
LEMMA Foundations == \A n \in 1 .. 15 : DependsOn(Startup[n]) \subseteq Begun(n)
<1> SUFFICES ASSUME NEW n \in 1 .. 15, NEW d \in DependsOn(Startup[n])
             PROVE  \E i \in 1 .. n - 1 : d = Startup[i]
  BY DEF Begun
<1>1. /\ Startup[1] = "sdl" /\ Startup[2] = "window" /\ Startup[3] = "vulkan"
      /\ Startup[4] = "imgui" /\ Startup[5] = "pool" /\ Startup[8] = "boot_wav"
      /\ \A i \in 1 .. 15 : /\ Startup[i] = "window" => i > 1
                            /\ Startup[i] = "vulkan" => i > 2
                            /\ Startup[i] = "pool" => i > 3
                            /\ Startup[i] \in {"sdl_backend", "vulkan_backend"} => i > 5
                            /\ Startup[i] = "boot_sound" => i > 8
  BY DEF Startup
<1>2. \/ Startup[n] = "window" /\ d = "sdl"
      \/ Startup[n] = "vulkan" /\ d = "window"
      \/ Startup[n] = "pool" /\ d = "vulkan"
      \/ /\ Startup[n] \in {"sdl_backend", "vulkan_backend"}
         /\ d \in {"window", "vulkan", "imgui", "pool"}
      \/ Startup[n] = "boot_sound" /\ d \in {"sdl", "boot_wav"}
  BY DEF DependsOn
<1> QED
  BY <1>1, <1>2

(* What the n-th statement of the cleanup works on has not been released   *)
(* by an earlier one.                                                      *)
LEMMA Standing == \A n \in 1 .. 8 : {Cleanup[n]} \cup DependsOn(Cleanup[n]) \subseteq Left(n)
<1> SUFFICES ASSUME NEW n \in 1 .. 8, NEW d \in {Cleanup[n]} \cup DependsOn(Cleanup[n])
             PROVE  d \in Resources /\ \A i \in 1 .. n - 1 : d # Cleanup[i]
  BY DEF Left
<1>1. /\ Cleanup[1] = "vulkan_backend" /\ Cleanup[2] = "sdl_backend" /\ Cleanup[3] = "imgui"
      /\ Cleanup[4] = "pool" /\ Cleanup[5] = "vulkan" /\ Cleanup[6] = "kernel"
      /\ Cleanup[7] = "window" /\ Cleanup[8] = "sdl"
  BY DEF Cleanup
<1>2. /\ DependsOn("vulkan_backend") = {"imgui", "vulkan", "pool"}
      /\ DependsOn("sdl_backend") = {"imgui", "window"} /\ DependsOn("imgui") = {}
      /\ DependsOn("pool") = {"vulkan"} /\ DependsOn("vulkan") = {"window"}
      /\ DependsOn("kernel") = {} /\ DependsOn("window") = {"sdl"} /\ DependsOn("sdl") = {}
  BY DEF DependsOn
<1>3. PICK k \in n .. 8 : d = Cleanup[k]
  <2>1. n = 1 \/ n = 2 \/ n = 3 \/ n = 4 \/ n = 5 \/ n = 6 \/ n = 7 \/ n = 8
    OBVIOUS
  <2> QED
    BY <1>1, <1>2, <2>1
<1>4. \A i, j \in 1 .. 8 : Cleanup[i] = Cleanup[j] => i = j
  BY DEF Cleanup
<1> QED
  BY <1>1, <1>3, <1>4, AllResources

(* No statement of main() works on what is not there, but for what failed  *)
(* in a call whose result main() does not look at.                         *)
THEOREM UsedAlive == Spec => []UsedWhileAlive
<1>1. IInv => UsedWhileAlive
  <2> SUFFICES ASSUME IInv, NEW d \in Needed PROVE d \in up \/ d \in failed \cap Unchecked
    BY DEF UsedWhileAlive
  <2>0. TypeOK /\ Progress
    BY DEF IInv
  <2>1. CASE pc = "start"
    <3>1. d \in Begun(step)
      BY <2>0, <2>1, Lists, Foundations DEF Needed, TypeOK
    <3> QED
      BY <2>0, <2>1, <3>1 DEF Progress, Exist
  <2>2. CASE pc \in Running
    <3>1. d \in Resources
      BY <2>2, AllResources DEF Needed, Running
    <3> QED
      BY <2>0, <2>2, <3>1 DEF Progress, Exist
  <2>3. CASE pc = "cleanup"
    <3>1. step \in 1 .. 8 /\ d \in {Cleanup[step]} \cup DependsOn(Cleanup[step])
      BY <2>0, <2>3, Lists DEF Progress, Needed, Releasing
    <3>2. d \in Left(step)
      BY <3>1, Standing
    <3> QED
      BY <2>0, <2>3, <3>2 DEF Progress, Exist
  <2>4. CASE pc = "unwind"
    <3>1. /\ step \in 1 .. 2 /\ d \in {Unwinding[step]} \cup DependsOn(Unwinding[step])
          /\ up = IF step = 1 THEN {"sdl", "window"} ELSE {"sdl"}
      BY <2>0, <2>4 DEF Progress, Needed, Releasing
    <3>2. DependsOn("window") = {"sdl"} /\ DependsOn("sdl") = {}
      BY DEF DependsOn
    <3> QED
      BY <3>1, <3>2, CleanupNames
  <2>5. CASE pc \in {"exited", "crashed"}
    BY <2>5 DEF Needed
  <2> QED
    BY <2>0, <2>1, <2>2, <2>3, <2>4, <2>5 DEF TypeOK, Running
<1> QED
  BY Invariant, <1>1, PTL

-----------------------------------------------------------------------------
(***************************************************************************)
(* The end after a quit: what is left at each statement, and what the      *)
(* events that may still come and those that are queued add to it.         *)
(***************************************************************************)
Waiting == Len(queue) + (MaxEvents - posted)

PlaceFacts ==
  /\ pc = "start" => Ahead = 29 - step /\ step \in 1 .. 15
  /\ pc = "frame" => Ahead = IF done THEN 11 ELSE 14
  /\ pc = "submit" => Ahead = IF done THEN 10 ELSE 13
  /\ pc = "poll" => Ahead = 12
  /\ pc = "idle" => Ahead = 9 /\ step = 1
  /\ pc = "cleanup" => Ahead = 9 - step /\ step \in 1 .. 8
  /\ pc = "unwind" => Ahead = 3 - step /\ step \in 1 .. 2
  /\ pc \in {"exited", "crashed"} => Ahead = 0
  /\ Ahead \in Int /\ Waiting \in Int

LEMMA Places == IInv => PlaceFacts
<1> SUFFICES ASSUME IInv PROVE PlaceFacts
  OBVIOUS
<1>1. /\ pc \in {"start", "unwind", "poll", "frame", "submit", "idle", "cleanup", "exited",
                "crashed"}
      /\ step \in 1 .. 15
      /\ pc = "idle" => step = 1
      /\ pc = "cleanup" => step \in 1 .. 8
      /\ pc = "unwind" => step \in 1 .. 2
  BY Lists DEF IInv, TypeOK, Progress, Running
<1>2. Waiting \in Int
  <2>1. MaxEvents \in Int /\ posted \in Int /\ queue \in Seq({"quit", "resize", "other"})
    BY AppMainAssumption DEF IInv, TypeOK
  <2> QED
    BY <2>1 DEF Waiting
<1> QED
  BY <1>1, <1>2, Lists DEF PlaceFacts, Ahead

LEMMA PlacesNext == IInv' => PlaceFacts'
BY Places, PTL

LEMMA Nearer ==
  ASSUME PlaceFacts, PlaceFacts'
  PROVE  /\ Waiting' <= Waiting /\ Ahead' <= Ahead => StepsLeft' <= StepsLeft
         /\ Waiting' <= Waiting /\ Ahead' < Ahead => StepsLeft' < StepsLeft
         /\ Waiting' < Waiting /\ Ahead' <= Ahead => StepsLeft' < StepsLeft
<1>1. StepsLeft = Waiting + Ahead /\ StepsLeft' = Waiting' + Ahead'
  BY DEF StepsLeft, Waiting
<1>2. Waiting \in Int /\ Ahead \in Int /\ Waiting' \in Int /\ Ahead' \in Int
  BY DEF PlaceFacts
<1>3. \A v, w, a, b \in Int :
        /\ v <= w /\ a <= b => v + a <= w + b
        /\ v <= w /\ a < b => v + a < w + b
        /\ v < w /\ a <= b => v + a < w + b
  OBVIOUS
<1> HIDE DEF PlaceFacts
<1> QED
  BY <1>1, <1>2, <1>3

(* A step of main() with a quit queued or handled.                         *)
LEMMA MainNearer ==
  ASSUME IInv, IInv', QuitPending, MainStep
  PROVE  QuitPending' /\ StepsLeft' < StepsLeft
<1>0. TypeOK /\ Progress /\ PlaceFacts /\ PlaceFacts'
  BY Places, PlacesNext DEF IInv
<1>1. CASE PollEvent
  <2>1. /\ pc = "poll" /\ pc' = "poll" /\ queue # <<>> /\ queue' = Tail(queue)
        /\ posted' = posted /\ done' = (done \/ Head(queue) = "quit")
    BY <1>1 DEF PollEvent
  <2>2. QuitPending'
    <3>1. CASE done \/ Head(queue) = "quit"
      BY <2>1, <3>1 DEF QuitPending
    <3>2. CASE ~done /\ Head(queue) # "quit"
      BY <1>0, <2>1, <3>2, QueueKeeps DEF QuitPending
    <3> QED
      BY <3>1, <3>2
  <2>3. Waiting' < Waiting
    <3>1. queue \in Seq({"quit", "resize", "other"}) /\ MaxEvents \in Int /\ posted \in Int
      BY <1>0, AppMainAssumption DEF TypeOK
    <3>2. Len(Tail(queue)) = Len(queue) - 1 /\ Len(queue) \in Int
      BY <2>1, <3>1
    <3> QED
      BY <2>1, <3>1, <3>2 DEF Waiting
  <2>4. Ahead' <= Ahead
    BY <1>0, <2>1 DEF PlaceFacts
  <2> QED
    BY <1>0, <2>2, <2>3, <2>4, Nearer
<1>2. ASSUME UNCHANGED <<queue, posted, done>>, Ahead' < Ahead
      PROVE  QuitPending' /\ StepsLeft' < StepsLeft
  <2>1. Waiting' = Waiting /\ QuitPending'
    BY <1>2 DEF Waiting, QuitPending, Queued
  <2> QED
    BY <1>0, <1>2, <2>1, Nearer DEF PlaceFacts
<1>3. CASE Acquire
  <2>1. /\ pc = "start" /\ step \in 1 .. 15 /\ UNCHANGED <<queue, posted, done>>
        /\ \/ pc' = "start" /\ step' = step + 1
           \/ pc' = "unwind" /\ step' = 1
           \/ pc' \in {"poll", "exited"}
    BY <1>0, <1>3, Lists DEF Acquire, Proceed, Exit, TypeOK
  <2> QED
    BY <1>0, <1>2, <2>1 DEF PlaceFacts
<1>4. CASE BeginFrame
  <2>1. /\ pc = "poll" /\ pc' = "frame" /\ queue = <<>> /\ UNCHANGED <<queue, posted, done>>
    BY <1>4 DEF BeginFrame
  <2>2. done
    BY <2>1 DEF QuitPending, Queued
  <2> QED
    BY <1>0, <1>2, <2>1, <2>2 DEF PlaceFacts
<1>5. CASE Frame
  <2>1. pc = "frame" /\ pc' = "submit" /\ UNCHANGED <<queue, posted, done>>
    BY <1>5 DEF Frame
  <2> QED
    BY <1>0, <1>2, <2>1 DEF PlaceFacts
<1>6. CASE RenderFrame
  <2>1. /\ pc = "submit" /\ pc' = IF done THEN "idle" ELSE "poll"
        /\ UNCHANGED <<queue, posted, done>>
    BY <1>6 DEF RenderFrame
  <2> QED
    BY <1>0, <1>2, <2>1 DEF PlaceFacts
<1>7. CASE vkDeviceWaitIdle
  <2>1. /\ pc = "idle" /\ pc' = "cleanup" /\ step' = step
        /\ UNCHANGED <<queue, posted, done>>
    BY <1>7 DEF vkDeviceWaitIdle
  <2> QED
    BY <1>0, <1>2, <2>1 DEF PlaceFacts
<1>8. CASE Release
  <2>1. /\ \/ pc = "cleanup" /\ step \in 1 .. 8
           \/ pc = "unwind" /\ step \in 1 .. 2
        /\ UNCHANGED <<queue, posted, done>>
        /\ \/ pc' = pc /\ step' = step + 1
           \/ pc' = "exited"
    BY <1>0, <1>8, Released DEF Release
  <2> QED
    BY <1>0, <1>2, <2>1 DEF PlaceFacts
<1>9. CASE Crash
  <2>1. pc' = "crashed" /\ UNCHANGED <<queue, posted, done>>
    BY <1>9 DEF Crash
  <2>2. pc \notin {"exited", "crashed"}
    BY <1>9 DEF Crash, Needed
  <2>3. pc \in {"start", "unwind", "poll", "frame", "submit", "idle", "cleanup"}
    BY <1>0, <2>2 DEF TypeOK
  <2> QED
    BY <1>0, <1>2, <2>1, <2>3 DEF PlaceFacts
<1> QED
  BY <1>1, <1>3, <1>4, <1>5, <1>6, <1>7, <1>8, <1>9 DEF MainStep

(* What happens around main() takes back no quit and adds no work to what  *)
(* is left: an event that is posted was among those that may still come.   *)
LEMMA OthersNeutral ==
  ASSUME IInv, IInv', QuitPending,
         \/ \E e \in {"quit", "resize", "other"} : Post(e)
         \/ BootTimePasses \/ GpuFinishes \/ UNCHANGED vars
  PROVE  QuitPending' /\ StepsLeft' <= StepsLeft
<1>0. TypeOK /\ PlaceFacts /\ PlaceFacts'
  BY Places, PlacesNext DEF IInv
<1>1. UNCHANGED <<pc, step, done>>
  BY DEF Post, BootTimePasses, GpuFinishes, vars
<1>2. Ahead' = Ahead
  BY <1>1 DEF Ahead
<1>3. CASE \E e \in {"quit", "resize", "other"} : Post(e)
  <2>1. PICK e \in {"quit", "resize", "other"} : Post(e)
    BY <1>3
  <2>2. queue' = Append(queue, e) /\ posted' = posted + 1
    BY <2>1 DEF Post
  <2>3. QuitPending'
    BY <1>0, <1>1, <2>2, QueueGrows DEF QuitPending
  <2>4. Waiting' = Waiting
    <3>1. queue \in Seq({"quit", "resize", "other"}) /\ MaxEvents \in Int /\ posted \in Int
      BY <1>0, AppMainAssumption DEF TypeOK
    <3>2. Len(queue') = Len(queue) + 1 /\ Len(queue) \in Int
      BY <2>2, <3>1
    <3> QED
      BY <2>2, <3>1, <3>2 DEF Waiting
  <2> QED
    BY <1>0, <1>2, <2>3, <2>4, Nearer DEF PlaceFacts
<1>4. CASE UNCHANGED <<queue, posted>>
  <2>1. Waiting' = Waiting /\ QuitPending'
    BY <1>1, <1>4 DEF Waiting, QuitPending, Queued
  <2> QED
    BY <1>0, <1>2, <2>1, Nearer DEF PlaceFacts
<1> QED
  BY <1>3, <1>4 DEF BootTimePasses, GpuFinishes, vars

(* A quit that was posted is never lost, and main() ends within a number   *)
(* of its own steps that is known then, whatever is queued and posted      *)
(* before and after it.                                                    *)
THEOREM QuitBounded == Spec => QuitEnds
<1>1. ASSUME IInv, IInv', [Next]_vars, QuitPending
      PROVE  /\ QuitPending'
             /\ StepsLeft' <= StepsLeft
             /\ MainStep => StepsLeft' < StepsLeft
  <2>0. StepsLeft \in Int /\ StepsLeft' \in Int
    BY <1>1, Places, PlacesNext DEF PlaceFacts, StepsLeft, Waiting
  <2>1. CASE MainStep
    BY <1>1, <2>0, <2>1, MainNearer
  <2>2. CASE ~MainStep
    BY <1>1, <2>2, OthersNeutral DEF Next, Exited
  <2> QED
    BY <2>1, <2>2
<1>2. IInv /\ IInv' /\ [Next]_vars =>
        [QuitPending => /\ QuitPending'
                        /\ StepsLeft' <= StepsLeft
                        /\ MainStep => StepsLeft' < StepsLeft]_vars
  BY <1>1
<1> QED
  BY <1>2, Invariant, PTL DEF Spec, QuitEnds
=============================================================================
