--------------------------- MODULE OverlayPresent ---------------------------
(***************************************************************************)
(* The Vulkan layer's swapchain hooks (src/layer/swapchain.cpp): the       *)
(* per-image command buffer, fence and overlay_done semaphore, and the     *)
(* three entry points that use them.                                       *)
(*                                                                         *)
(*   presenter   the application thread inside QueuePresentKHR.  It holds  *)
(*               g_sc_lock from the first record_one to the down-chain     *)
(*               present, i.e. while pc is not "idle";                     *)
(*   workers     application threads inside Create/DestroySwapchainKHR.    *)
(*               They take g_sc_lock only to move a SwapchainState in or   *)
(*               out of the map; waiting and destroying happen unlocked;   *)
(*   GPU         executes each queue in order: a draw waits semaphores,    *)
(*               runs the image's command buffer, signals overlay_done     *)
(*               and, some time later, the fence; a present waits          *)
(*               semaphores and releases the images.                       *)
(*                                                                         *)
(* Application calls obey Vulkan's external-synchronisation rules: one     *)
(* swapchain is not used by two calls at once, and only acquired images    *)
(* are presented.                                                          *)
(***************************************************************************)
EXTENDS Naturals, Sequences

CONSTANTS
    Swapchains,       \* VkSwapchainKHR handle values
    Index,            \* image indices of a swapchain
    Queues,           \* VkQueues the application presents on
    GraphicsQueues,   \* those whose family is graphics_queue_family
    Workers,          \* threads that create and destroy swapchains
    MaxPresent,       \* bound on VkPresentInfoKHR::swapchainCount
    None              \* VK_NULL_HANDLE

ASSUME PresentAssumption ==
    /\ GraphicsQueues \subseteq Queues
    /\ MaxPresent \in Nat \ {0}
    /\ None \notin Swapchains

VARIABLES
    handle,       \* the application's view of a handle: none, live, retired
    where,        \* its SwapchainState: none, in g_swapchains (map), or moved
    ok,           \* SwapchainState::ok
    renderer,     \* imgui_tried/imgui: untried, ready, failed
    inFlight,     \* ImageState::fence_in_flight
    fence,        \* ImageState::fence: absent, signaled, unsignaled, or
                  \* signaling: its draw has executed, the host cannot see it yet
    overlayDone,  \* is ImageState::overlay_done signaled
    appDone,      \* the app's render-finished semaphore of an acquired image
    image,        \* who has the image: free, acquired (app), queued (present)
    gpu,          \* work submitted to each queue and not yet executed
    lost,         \* VK_ERROR_DEVICE_LOST
    inVoice,      \* StateClient::latest()->in_voice
    hostDisabled, \* StateClient::disabled()
    overlayFailed,\* DeviceData::overlay_failed
    envDisabled,  \* overlay_disabled(), read once
    context,      \* ImGui's process-global current context
    pc,           \* where the presenter is
    call,         \* its arguments: the queue and the images to present
    recorded,     \* the images recorded in phase 1
    at,           \* index of the loop in progress (phase 1 or phase 2)
    overlaySems,  \* overlay_done semaphores of the submits that succeeded
    dropped,      \* history: images of a present the driver refused after
                  \* overlay submits had consumed its wait semaphores
    unwaited,     \* history: images let go of by a fence wait that failed
    wpc,          \* where each worker is
    job           \* its arguments

appVars    == <<handle, image, appDone>>
stateVars  == <<where, ok, renderer, inFlight, fence, unwaited>>
gpuVars    == <<overlayDone, gpu, lost>>
hostVars   == <<inVoice, hostDisabled, envDisabled>>
callVars   == <<call, recorded, at, overlaySems, dropped>>
workerVars == <<wpc, job>>
vars == <<handle, image, appDone, where, ok, renderer, inFlight, fence,
          overlayDone, gpu, lost, inVoice, hostDisabled, envDisabled,
          overlayFailed, context, pc, call, recorded, at, overlaySems, dropped,
          unwaited, wpc, job>>

-----------------------------------------------------------------------------
(* Data *)

Image == Swapchains \X Index
ImagesOf(s) == {s} \X Index

AppSem(im)  == [kind |-> "app", img |-> im]
DoneSem(im) == [kind |-> "overlay", img |-> im]
Semaphore   == [kind : {"app", "overlay"}, img : Image]

Draw(im, waits)       == [op |-> "draw", imgs |-> {im}, waits |-> waits]
Present(imgs, waits)  == [op |-> "present", imgs |-> imgs, waits |-> waits]
Batch == [op : {"draw", "present"}, imgs : SUBSET Image, waits : SUBSET Semaphore]

NoCall == [queue |-> None, list |-> <<>>]
NoJob  == [new |-> None, victim |-> None, capable |-> FALSE]

Elems(q) == {q[n] : n \in DOMAIN q}
Batches  == UNION {Elems(gpu[q]) : q \in Queues}

(* A draw of im is queued, or its fence has not told the host it is over:   *)
(* the image's command buffer is in Vulkan's pending state.                 *)
Queued(im)  == \E q \in Queues : \E n \in DOMAIN gpu[q] :
                  gpu[q][n].op = "draw" /\ im \in gpu[q][n].imgs
Pending(im) == Queued(im) \/ fence[im] = "signaling"

(* vkWaitForFences on im's fence has returned VK_SUCCESS, or was not called *)
(* because nothing is in flight on it.                                      *)
FenceWaited(im) == inFlight[im] => fence[im] = "signaled"

(* Swapchains a call in progress has as an argument. *)
CallBusy   == {call.list[n][1] : n \in DOMAIN call.list}
JobBusy(w) == {job[w].new, job[w].victim}
Busy       == CallBusy \cup UNION {JobBusy(w) : w \in Workers}

(* Argument lists of one vkQueuePresentKHR: distinct swapchains. *)
PresentLists ==
    {l \in UNION {[1..n -> Image] : n \in 1..MaxPresent} :
        \A m, n \in DOMAIN l : l[m][1] = l[n][1] => m = n}

Init ==
    /\ handle = [s \in Swapchains |-> "none"]
    /\ where = [s \in Swapchains |-> "none"]
    /\ ok = [s \in Swapchains |-> FALSE]
    /\ renderer = [s \in Swapchains |-> "untried"]
    /\ inFlight = [im \in Image |-> FALSE]
    /\ fence = [im \in Image |-> "absent"]
    /\ overlayDone = [im \in Image |-> FALSE]
    /\ appDone = [im \in Image |-> "idle"]
    /\ image = [im \in Image |-> "free"]
    /\ gpu = [q \in Queues |-> <<>>]
    /\ lost = FALSE
    /\ inVoice = FALSE
    /\ hostDisabled = FALSE
    /\ overlayFailed = FALSE
    /\ envDisabled \in BOOLEAN
    /\ context = None
    /\ pc = "idle"
    /\ call = NoCall
    /\ recorded = <<>>
    /\ at = 1
    /\ overlaySems = <<>>
    /\ dropped = {}
    /\ unwaited = {}
    /\ wpc = [w \in Workers |-> "idle"]
    /\ job = [w \in Workers |-> NoJob]

-----------------------------------------------------------------------------
(* The environment: application rendering, the GPU, the host's snapshots. *)

(* vkAcquireNextImageKHR, and the app's own rendering into the image, which *)
(* will signal its render-finished semaphore.                              *)
Acquire(im) ==
    /\ ~lost
    /\ handle[im[1]] = "live" /\ im[1] \notin Busy
    /\ image[im] = "free"
    /\ image' = [image EXCEPT ![im] = "acquired"]
    /\ appDone' = [appDone EXCEPT ![im] = "pending"]
    /\ UNCHANGED <<handle, stateVars, gpuVars, hostVars, overlayFailed, context,
                   pc, callVars, workerVars>>

AppRendered(im) ==
    /\ ~lost
    /\ appDone[im] = "pending"
    /\ appDone' = [appDone EXCEPT ![im] = "signaled"]
    /\ UNCHANGED <<handle, image, stateVars, gpuVars, hostVars, overlayFailed,
                   context, pc, callVars, workerVars>>

Signaled(sem) == IF sem.kind = "app" THEN appDone[sem.img] = "signaled"
                                     ELSE overlayDone[sem.img]

(* The head of queue q executes once every semaphore it waits is signaled;  *)
(* the wait unsignals them.  A draw whose objects were freed under it has   *)
(* no fence left to signal (undefined behaviour; DeviceLost is the other    *)
(* outcome).                                                                *)
Execute(q) ==
    /\ gpu[q] # <<>>
    /\ LET b == Head(gpu[q]) IN
       /\ \A sem \in b.waits : Signaled(sem)
       /\ appDone' = [im \in Image |->
                        IF AppSem(im) \in b.waits THEN "idle" ELSE appDone[im]]
       /\ overlayDone' = [im \in Image |->
                            \/ b.op = "draw" /\ im \in b.imgs
                            \/ overlayDone[im] /\ DoneSem(im) \notin b.waits]
       /\ fence' = [im \in Image |->
                      IF b.op = "draw" /\ im \in b.imgs /\ fence[im] # "absent"
                      THEN "signaling" ELSE fence[im]]
       /\ image' = [im \in Image |->
                      IF b.op = "present" /\ im \in b.imgs THEN "free"
                                                           ELSE image[im]]
    /\ gpu' = [gpu EXCEPT ![q] = Tail(@)]
    /\ UNCHANGED <<handle, where, ok, renderer, inFlight, unwaited, lost, hostVars,
                   overlayFailed, context, pc, callVars, workerVars>>

(* The fence of an executed draw becomes visible to the host. *)
SignalFence(im) ==
    /\ fence[im] = "signaling"
    /\ fence' = [fence EXCEPT ![im] = "signaled"]
    /\ UNCHANGED <<appVars, where, ok, renderer, inFlight, unwaited, gpuVars, hostVars,
                   overlayFailed, context, pc, callVars, workerVars>>

(* Device loss: nothing submitted executes any more, waits return an error. *)
DeviceLost ==
    /\ ~lost
    /\ lost' = TRUE
    /\ gpu' = [q \in Queues |-> <<>>]
    /\ fence' = [im \in Image |-> IF fence[im] = "signaling" THEN "unsignaled"
                                                             ELSE fence[im]]
    /\ UNCHANGED <<appVars, where, ok, renderer, inFlight, unwaited, overlayDone, hostVars,
                   overlayFailed, context, pc, callVars, workerVars>>

SnapshotChanges ==
    /\ inVoice' = ~inVoice
    /\ UNCHANGED <<appVars, stateVars, gpuVars, hostDisabled, envDisabled,
                   overlayFailed, context, pc, callVars, workerVars>>

HostDisables ==
    /\ ~hostDisabled
    /\ hostDisabled' = TRUE
    /\ UNCHANGED <<appVars, stateVars, gpuVars, inVoice, envDisabled,
                   overlayFailed, context, pc, callVars, workerVars>>

-----------------------------------------------------------------------------
(* QueuePresentKHR *)

(* The down-chain vkQueuePresentKHR; the hook returns and drops its locals. *)
(* It may also refuse for want of memory, enqueueing nothing: the images    *)
(* stay the application's, which may call again, but the submits this call  *)
(* made stand.                                                              *)
PresentDownChain(q, list, waits) ==
    /\ \/ /\ gpu' = IF lost THEN gpu
                            ELSE [gpu EXCEPT ![q] = Append(@, Present(Elems(list), waits))]
          /\ image' = [im \in Image |-> IF im \in Elems(list) THEN "queued" ELSE image[im]]
          /\ UNCHANGED dropped
       \/ /\ ~lost
          /\ dropped' = IF overlaySems = <<>> THEN dropped ELSE dropped \cup Elems(list)
          /\ UNCHANGED <<gpu, image>>
    /\ pc' = "idle"
    /\ call' = NoCall
    /\ recorded' = <<>>
    /\ at' = 1
    /\ overlaySems' = <<>>

AppSems(list) == {AppSem(im) : im \in Elems(list)}

(* The forward lambda: the application's own present info, untouched. *)
Forward == PresentDownChain(call.queue, call.list, AppSems(call.list))

Current == call.list[at]

(* Gates checked before the lock; past them the presenter holds g_sc_lock. *)
QueuePresentKHR(q, list) ==
    /\ pc = "idle"
    /\ \A im \in Elems(list) : image[im] = "acquired" /\ im[1] \notin Busy
    /\ IF envDisabled \/ overlayFailed \/ q \notin GraphicsQueues
       THEN PresentDownChain(q, list, AppSems(list))
       ELSE /\ pc' = "record"
            /\ call' = [queue |-> q, list |-> list]
            /\ UNCHANGED <<gpu, image, recorded, at, overlaySems, dropped>>
    /\ UNCHANGED <<handle, appDone, stateVars, overlayDone, lost, hostVars,
                   overlayFailed, context, workerVars>>

(* Untracked swapchain, or a SwapchainState that is not ok: Failed. *)
RecordRefused ==
    /\ pc = "record" /\ at <= Len(call.list)
    /\ where[Current[1]] # "map" \/ ~ok[Current[1]]
    /\ Forward
    /\ UNCHANGED <<handle, appDone, stateVars, overlayDone, lost, hostVars,
                   overlayFailed, context, workerVars>>

(* Lazy init: the renderer is tried once, on the first in-voice snapshot.   *)
RendererAfter(s) ==
    IF inVoice /\ renderer[s] = "untried" THEN {"ready", "failed"} ELSE {renderer[s]}

(* record_one up to begin_frame's SetCurrentContext.  A disabled process or *)
(* a missing renderer is Skipped; otherwise the snapshot just read decides  *)
(* whether the frame about to be built can have content.                    *)
RecordBegin ==
    /\ pc = "record" /\ at <= Len(call.list)
    /\ where[Current[1]] = "map" /\ ok[Current[1]]
    /\ \/ /\ hostDisabled
          /\ at' = at + 1
          /\ UNCHANGED <<pc, renderer, context>>
       \/ /\ ~hostDisabled
          /\ \E r \in RendererAfter(Current[1]) :
                /\ renderer' = [renderer EXCEPT ![Current[1]] = r]
                /\ IF r = "ready"
                   THEN /\ pc' = IF inVoice THEN "frame" ELSE "blank"
                        /\ context' = Current[1]
                        /\ UNCHANGED at
                   ELSE /\ at' = at + 1
                        /\ UNCHANGED <<pc, context>>
    /\ UNCHANGED <<appVars, where, ok, inFlight, fence, unwaited, gpuVars, hostVars,
                   overlayFailed, call, recorded, overlaySems, dropped, workerVars>>

(* begin_frame and frame_has_content: an empty frame is discarded, Skipped. *)
BuildFrame ==
    /\ pc \in {"frame", "blank"}
    /\ \/ /\ pc' = "record"
          /\ at' = at + 1
       \/ /\ pc = "frame"
          /\ pc' = "fence"
          /\ UNCHANGED at
    /\ UNCHANGED <<appVars, stateVars, gpuVars, hostVars, overlayFailed, context,
                   call, recorded, overlaySems, dropped, workerVars>>

(* Fault: the command buffer is recorded without waiting for its fence. *)
RecordDraw_NoWait ==
    /\ pc = "fence"
    /\ recorded' = Append(recorded, Current)
    /\ pc' = "record"
    /\ at' = at + 1
    /\ context' = Current[1]
    /\ UNCHANGED <<appVars, stateVars, gpuVars, hostVars, overlayFailed,
                   call, overlaySems, dropped, workerVars>>

(* The fence wait (only when in flight) has returned and the command buffer *)
(* is recorded: Drawn.                                                      *)
RecordDraw ==
    /\ pc = "fence"
    /\ FenceWaited(Current)
    /\ recorded' = Append(recorded, Current)
    /\ pc' = "record"
    /\ at' = at + 1
    /\ context' = Current[1]
    /\ UNCHANGED <<appVars, stateVars, gpuVars, hostVars, overlayFailed,
                   call, overlaySems, dropped, workerVars>>

(* Fault: an error of vkWaitForFences is retried. *)
RecordFails_Retried ==
    /\ pc = "fence"
    /\ FenceWaited(Current)
    /\ Forward
    /\ UNCHANGED <<handle, appDone, stateVars, overlayDone, lost, hostVars,
                   overlayFailed, context, workerVars>>

(* The wait returned that the device is lost, or Begin/EndCommandBuffer     *)
(* failed: Failed.                                                          *)
RecordFails ==
    /\ pc = "fence"
    /\ FenceWaited(Current) \/ lost
    /\ Forward
    /\ UNCHANGED <<handle, appDone, stateVars, overlayDone, lost, hostVars,
                   overlayFailed, context, workerVars>>

(* The wait returned any other error (out of memory): Failed. *)
RecordWaitFails ==
    /\ pc = "fence"
    /\ ~FenceWaited(Current) /\ ~lost
    /\ Forward
    /\ UNCHANGED <<handle, appDone, stateVars, overlayDone, lost, hostVars,
                   overlayFailed, context, workerVars>>

(* Any C++ exception of phase 1: latch the overlay off and forward. *)
OverlayThrows ==
    /\ pc \in {"record", "frame", "blank"}
       \/ (pc = "fence" /\ FenceWaited(Current))
    /\ overlayFailed' = TRUE
    /\ Forward
    /\ UNCHANGED <<handle, appDone, stateVars, overlayDone, lost, hostVars,
                   context, workerVars>>

(* Fault: phase 2 counts from 0. *)
EndPhase1_FromZero ==
    /\ pc = "record" /\ at > Len(call.list) /\ recorded # <<>>
    /\ pc' = "submit"
    /\ at' = 0
    /\ UNCHANGED <<appVars, stateVars, gpuVars, hostVars, overlayFailed, context,
                   call, recorded, overlaySems, dropped, workerVars>>

(* Phase 1 is over; with nothing drawn the present goes down untouched. *)
EndPhase1 ==
    /\ pc = "record" /\ at > Len(call.list)
    /\ IF recorded = <<>>
       THEN Forward
       ELSE /\ pc' = "submit"
            /\ at' = 1
            /\ UNCHANGED <<gpu, image, call, recorded, overlaySems, dropped>>
    /\ UNCHANGED <<handle, appDone, stateVars, overlayDone, lost, hostVars,
                   overlayFailed, context, workerVars>>

(* Faults: every submit waits the app's semaphores; the first waits none. *)
SubmitWaits_Unchained == AppSems(call.list)
SubmitWaits_Dropped   == IF at = 1 THEN {} ELSE {DoneSem(recorded[at - 1])}

(* What submit[at] waits: the app's semaphores first, then the chain. *)
SubmitWaits == IF at = 1 THEN AppSems(call.list) ELSE {DoneSem(recorded[at - 1])}

(* Reset the fence, submit, and only then count the fence as in flight. *)
Submit ==
    /\ pc = "submit" /\ at <= Len(recorded)
    /\ ~lost
    /\ LET im == recorded[at] IN
       /\ fence' = [fence EXCEPT ![im] = "unsignaled"]
       /\ inFlight' = [inFlight EXCEPT ![im] = TRUE]
       /\ gpu' = [gpu EXCEPT ![call.queue] = Append(@, Draw(im, SubmitWaits))]
       /\ overlaySems' = Append(overlaySems, im)
    /\ at' = at + 1
    /\ UNCHANGED <<appVars, where, ok, renderer, unwaited, overlayDone, lost, hostVars,
                   overlayFailed, context, pc, call, recorded, dropped, workerVars>>

(* Fault: the fence is counted as in flight before the submit succeeds. *)
SubmitFails_StillInFlight(resetFailed) ==
    /\ pc = "submit" /\ at <= Len(recorded)
    /\ inFlight' = [inFlight EXCEPT ![recorded[at]] = TRUE]
    /\ fence' = [fence EXCEPT ![recorded[at]] = "unsignaled"]
    /\ overlayFailed' = TRUE
    /\ IF at = 1 THEN Forward
                 ELSE pc' = "present" /\ UNCHANGED <<gpu, image, callVars>>
    /\ UNCHANGED <<handle, appDone, where, ok, renderer, unwaited, overlayDone, lost,
                   hostVars, context, workerVars>>

(* vkResetFences or vkQueueSubmit fails.  At i = 0 nothing was consumed, so *)
(* latch and forward; later, present what was submitted.  A failed reset    *)
(* past i = 0 does not latch.                                               *)
SubmitFails(resetFailed) ==
    /\ pc = "submit" /\ at <= Len(recorded)
    /\ LET im == recorded[at] IN
       /\ inFlight' = [inFlight EXCEPT ![im] = FALSE]
       /\ fence' = IF resetFailed THEN fence
                                  ELSE [fence EXCEPT ![im] = "unsignaled"]
    /\ IF at = 1
       THEN /\ overlayFailed' = TRUE
            /\ Forward
       ELSE /\ overlayFailed' = (overlayFailed \/ ~resetFailed)
            /\ pc' = "present"
            /\ UNCHANGED <<gpu, image, callVars>>
    /\ UNCHANGED <<handle, appDone, where, ok, renderer, unwaited, overlayDone, lost,
                   hostVars, context, workerVars>>

(* Fault: the present waits the images recorded, submitted or not. *)
PresentDrawn_AllRecorded ==
    /\ pc = "present" \/ (pc = "submit" /\ at > Len(recorded))
    /\ PresentDownChain(call.queue, call.list, {DoneSem(im) : im \in Elems(recorded)})
    /\ UNCHANGED <<handle, appDone, stateVars, overlayDone, lost, hostVars,
                   overlayFailed, context, workerVars>>

(* The present that waits every overlay_done submitted in this call. *)
PresentDrawn ==
    /\ pc = "present" \/ (pc = "submit" /\ at > Len(recorded))
    /\ PresentDownChain(call.queue, call.list, {DoneSem(im) : im \in Elems(overlaySems)})
    /\ UNCHANGED <<handle, appDone, stateVars, overlayDone, lost, hostVars,
                   overlayFailed, context, workerVars>>

-----------------------------------------------------------------------------
(* CreateSwapchainKHR and DestroySwapchainKHR *)

(* g_sc_lock is free: the workers' critical sections are single steps. *)
LockFree == pc = "idle"

(* The handle value names a new object: nothing of an old one is queued. *)
Fresh(s) == \A b \in Batches : \A im \in b.imgs : im[1] # s

(* The down-chain create.  A driver that rejects the added usage bit is     *)
(* retried with the app's request: live but not overlay-capable.  Vulkan    *)
(* retires oldSwapchain whatever the result.                                *)
CreateSwapchainKHR(w, s, old) ==
    /\ wpc[w] = "idle"
    /\ handle[s] = "none" /\ s \notin Busy /\ Fresh(s)
    /\ old # None => handle[old] = "live" /\ old \notin Busy
    /\ \/ /\ handle' = [h \in Swapchains |-> IF h = old THEN "retired" ELSE handle[h]]
          /\ UNCHANGED workerVars
       \/ /\ ~lost
          /\ handle' = [h \in Swapchains |->
                          IF h = s THEN "live"
                          ELSE IF h = old THEN "retired" ELSE handle[h]]
          /\ wpc' = [wpc EXCEPT ![w] = "retire"]
          /\ \E c \in BOOLEAN :
                job' = [job EXCEPT ![w] = [new |-> s, victim |-> old, capable |-> c]]
    /\ UNCHANGED <<image, appDone, stateVars, gpuVars, hostVars, overlayFailed,
                   context, pc, callVars>>

(* A legal destroy: the app holds no image of it and its rendering is done. *)
DestroySwapchainKHR(w, s) ==
    /\ wpc[w] = "idle"
    /\ handle[s] # "none" /\ s \notin Busy
    /\ \A im \in ImagesOf(s) :
          lost \/ (image[im] # "acquired" /\ appDone[im] # "pending")
    /\ wpc' = [wpc EXCEPT ![w] = "retire"]
    /\ job' = [job EXCEPT ![w] = [new |-> None, victim |-> s, capable |-> FALSE]]
    /\ UNCHANGED <<appVars, stateVars, gpuVars, hostVars, overlayFailed, context,
                   pc, callVars>>

AfterRetire(w) == IF job[w].new # None THEN "build" ELSE "release"

(* Under g_sc_lock: move the victim's SwapchainState out of the map. *)
MoveOut(w) ==
    /\ wpc[w] = "retire" /\ LockFree
    /\ IF job[w].victim # None /\ where[job[w].victim] = "map"
       THEN /\ where' = [where EXCEPT ![job[w].victim] = "moved"]
            /\ wpc' = [wpc EXCEPT ![w] = "wait"]
       ELSE /\ wpc' = [wpc EXCEPT ![w] = AfterRetire(w)]
            /\ UNCHANGED where
    /\ UNCHANGED <<appVars, ok, renderer, inFlight, fence, unwaited, gpuVars, hostVars,
                   overlayFailed, context, pc, callVars, job>>

(* Fault: the flags are cleared without waiting. *)
WaitOverlayIdle_NoWait(w) ==
    /\ wpc[w] = "wait"
    /\ inFlight' = [im \in Image |-> inFlight[im] /\ im[1] # job[w].victim]
    /\ wpc' = [wpc EXCEPT ![w] = "free"]
    /\ UNCHANGED <<appVars, where, ok, renderer, fence, unwaited, gpuVars, hostVars,
                   overlayFailed, context, pc, callVars, job>>

(* wait_overlay_idle: every in-flight fence has signaled, or the device is  *)
(* lost.                                                                    *)
WaitOverlayIdle(w) ==
    /\ wpc[w] = "wait"
    /\ \A im \in ImagesOf(job[w].victim) : FenceWaited(im) \/ lost
    /\ inFlight' = [im \in Image |-> inFlight[im] /\ im[1] # job[w].victim]
    /\ wpc' = [wpc EXCEPT ![w] = "free"]
    /\ UNCHANGED <<appVars, where, ok, renderer, fence, unwaited, gpuVars, hostVars,
                   overlayFailed, context, pc, callVars, job>>

(* Any other error of vkWaitForFences (out of memory): the code ignores it  *)
(* and goes on as if the fence had signaled.                                *)
WaitOverlayIdleFails(w) ==
    /\ wpc[w] = "wait"
    /\ LET early == {im \in Image : im[1] = job[w].victim /\ ~FenceWaited(im)} IN
       /\ early # {} /\ ~lost
       /\ unwaited' = unwaited \cup early
    /\ inFlight' = [im \in Image |-> inFlight[im] /\ im[1] # job[w].victim]
    /\ wpc' = [wpc EXCEPT ![w] = "free"]
    /\ UNCHANGED <<appVars, where, ok, renderer, fence, gpuVars, hostVars,
                   overlayFailed, context, pc, callVars, job>>

(* destroy_state, without the lock.  Shutting a renderer down makes its     *)
(* ImGui context current and destroys it, which leaves none current.        *)
DestroyState(w) ==
    /\ wpc[w] = "free"
    /\ LET v == job[w].victim IN
       /\ context' = IF renderer[v] = "ready" THEN None ELSE context
       /\ fence' = [im \in Image |-> IF im[1] = v THEN "absent" ELSE fence[im]]
       /\ ok' = [ok EXCEPT ![v] = FALSE]
       /\ renderer' = [renderer EXCEPT ![v] = "untried"]
       /\ where' = [where EXCEPT ![v] = "none"]
    /\ wpc' = [wpc EXCEPT ![w] = AfterRetire(w)]
    /\ UNCHANGED <<appVars, inFlight, unwaited, gpuVars, hostVars, overlayFailed, pc,
                   callVars, job>>

Return(w) ==
    /\ wpc' = [wpc EXCEPT ![w] = "idle"]
    /\ job' = [job EXCEPT ![w] = NoJob]

(* build_state and the insertion under g_sc_lock.  A state that could not   *)
(* be built is stored with ok = FALSE; an exception stores nothing.         *)
StoreState(s, built) ==
    /\ where' = [where EXCEPT ![s] = "map"]
    /\ ok' = [ok EXCEPT ![s] = built]
    /\ fence' = [im \in Image |->
                   IF im[1] # s THEN fence[im]
                   ELSE IF built THEN "signaled" ELSE "absent"]
    /\ overlayDone' = [im \in Image |-> overlayDone[im] /\ im[1] # s]
    /\ unwaited' = unwaited \ ImagesOf(s)
    /\ UNCHANGED <<renderer, inFlight, overlayFailed>>

BuildState(w) ==
    /\ wpc[w] = "build"
    /\ \/ /\ envDisabled
          /\ UNCHANGED <<stateVars, overlayDone, overlayFailed>>
       \/ /\ ~envDisabled /\ LockFree
          /\ \E built \in BOOLEAN :
                /\ built => job[w].capable
                /\ StoreState(job[w].new, built)
       \/ /\ ~envDisabled
          /\ overlayFailed' = TRUE
          /\ UNCHANGED <<stateVars, overlayDone>>
    /\ Return(w)
    /\ UNCHANGED <<appVars, gpu, lost, hostVars, context, pc, callVars>>

(* The down-chain destroy of the application's swapchain. *)
Release(w) ==
    /\ wpc[w] = "release"
    /\ LET v == job[w].victim IN
       /\ handle' = [handle EXCEPT ![v] = "none"]
       /\ image' = [im \in Image |-> IF im[1] = v THEN "free" ELSE image[im]]
       /\ appDone' = [im \in Image |-> IF im[1] = v /\ lost THEN "idle" ELSE appDone[im]]
    /\ Return(w)
    /\ UNCHANGED <<stateVars, gpuVars, hostVars, overlayFailed, context, pc, callVars>>

-----------------------------------------------------------------------------
PresenterStep ==
    \/ RecordRefused \/ RecordBegin \/ BuildFrame \/ RecordDraw \/ RecordFails
    \/ EndPhase1 \/ Submit \/ PresentDrawn
    \/ \E r \in BOOLEAN : SubmitFails(r)

WorkerStep(w) ==
    MoveOut(w) \/ WaitOverlayIdle(w) \/ DestroyState(w) \/ BuildState(w) \/ Release(w)

Next ==
    \/ \E im \in Image : Acquire(im) \/ AppRendered(im) \/ SignalFence(im)
    \/ \E q \in Queues : Execute(q)
    \/ DeviceLost \/ SnapshotChanges \/ HostDisables
    \/ \E q \in Queues, l \in PresentLists : QueuePresentKHR(q, l)
    \/ PresenterStep \/ RecordWaitFails \/ OverlayThrows
    \/ \E w \in Workers : WorkerStep(w) \/ WaitOverlayIdleFails(w)
    \/ \E w \in Workers, s \in Swapchains, old \in Swapchains \cup {None} :
          CreateSwapchainKHR(w, s, old)
    \/ \E w \in Workers, s \in Swapchains : DestroySwapchainKHR(w, s)

Spec == Init /\ [][Next]_vars

(* Fairness: threads inside a hook keep running, the GPU keeps executing    *)
(* what it can, the app's rendering finishes.  Nothing obliges the app to   *)
(* call, g_sc_lock is a plain std::mutex, so a worker is not promised the   *)
(* lock, and no fence wait is promised to fail: RecordWaitFails and         *)
(* WaitOverlayIdleFails are not under fairness.                             *)
Fairness ==
    /\ WF_vars(PresenterStep)
    /\ \A w \in Workers : WF_vars(WorkerStep(w))
    /\ \A q \in Queues : WF_vars(Execute(q))
    /\ \A im \in Image : WF_vars(AppRendered(im)) /\ WF_vars(SignalFence(im))

FairSpec == Spec /\ Fairness

-----------------------------------------------------------------------------
(* Properties *)

(* Every variable keeps its type. *)
TypeOK ==
    /\ handle \in [Swapchains -> {"none", "live", "retired"}]
    /\ where \in [Swapchains -> {"none", "map", "moved"}]
    /\ ok \in [Swapchains -> BOOLEAN]
    /\ renderer \in [Swapchains -> {"untried", "ready", "failed"}]
    /\ inFlight \in [Image -> BOOLEAN]
    /\ fence \in [Image -> {"absent", "signaled", "unsignaled", "signaling"}]
    /\ overlayDone \in [Image -> BOOLEAN]
    /\ appDone \in [Image -> {"idle", "pending", "signaled"}]
    /\ image \in [Image -> {"free", "acquired", "queued"}]
    /\ gpu \in [Queues -> Seq(Batch)]
    /\ lost \in BOOLEAN
    /\ inVoice \in BOOLEAN /\ hostDisabled \in BOOLEAN /\ envDisabled \in BOOLEAN
    /\ overlayFailed \in BOOLEAN
    /\ context \in Swapchains \cup {None}
    /\ pc \in {"idle", "record", "frame", "blank", "fence", "submit", "present"}
    /\ call \in [queue : Queues \cup {None}, list : Seq(Image)]
    /\ recorded \in Seq(Image)
    /\ at \in Nat \ {0}
    /\ pc \in {"frame", "blank", "fence"} => at <= Len(call.list)
    /\ overlaySems \in Seq(Image)
    /\ dropped \in SUBSET Image /\ unwaited \in SUBSET Image
    /\ wpc \in [Workers -> {"idle", "retire", "wait", "free", "build", "release"}]
    /\ job \in [Workers -> [new : Swapchains \cup {None},
                            victim : Swapchains \cup {None}, capable : BOOLEAN]]

(* An in-flight flag stands for a submitted draw: its fence has signaled or *)
(* a draw the GPU still holds will signal it.  A flag left over a           *)
(* reset-but-unsubmitted fence would hang the next UINT64_MAX wait however  *)
(* well the GPU behaves (ImageState::fence_in_flight).                      *)
FenceHasItsDraw ==
    \A im \in Image :
        inFlight[im] /\ ~lost => fence[im] = "signaled" \/ Pending(im)

(* While the GPU may still run an image's command buffer, its fence is      *)
(* unsignaled and flagged, and the SwapchainState that owns the buffer and  *)
(* its framebuffer is not destroyed (wait_overlay_idle, destroy_state);     *)
(* the one way out is a fence wait that returned an error.                  *)
DrawOwnsItsObjects ==
    \A im \in Image : Pending(im) =>
        \/ im \in unwaited
        \/ inFlight[im] /\ fence[im] # "signaled" /\ where[im[1]] # "none"

(* A command buffer recorded in this present and not yet submitted is not   *)
(* in flight, whatever happened to it in earlier presents: record_one       *)
(* never re-records a buffer the GPU still reads.                           *)
NeverRerecordInFlight ==
    \A n \in DOMAIN recorded :
        (pc \in {"record", "frame", "blank", "fence"} \/ (pc = "submit" /\ n >= at))
            => ~Pending(recorded[n])

(* At most one queued operation waits sem. *)
WaitedOnce(sem) ==
    \A q1, q2 \in Queues : \A n1 \in DOMAIN gpu[q1], n2 \in DOMAIN gpu[q2] :
        sem \in gpu[q1][n1].waits /\ sem \in gpu[q2][n2].waits => q1 = q2 /\ n1 = n2

(* Binary semaphores signal and wait in turn, whichever submit or reset of  *)
(* the call fails.  overlay_done is unsignaled again before its image is    *)
(* drawn a second time, and the application's render-finished semaphore is  *)
(* waited at most once per acquisition: never by both an overlay submit and *)
(* a forwarded present.  An image whose present was refused after its       *)
(* submits is set apart from then on, as its overlay_done is then signaled  *)
(* with nothing to wait for it, and the game's semaphore is waited again.   *)
SemaphoresPaired ==
    \A im \in Image \ dropped :
        /\ Queued(im) => ~overlayDone[im]
        /\ WaitedOnce(AppSem(im))
        /\ \A b \in Batches : AppSem(im) \in b.waits => appDone[im] # "idle"

(* sem is signaled, or something submitted will signal it. *)
WillSignal(sem) ==
    \/ Signaled(sem)
    \/ sem.kind = "app" /\ appDone[sem.img] = "pending"
    \/ sem.kind = "overlay" /\ Queued(sem.img)

(* Queue q is jammed: its head waits a semaphore nothing will signal. *)
Jammed(q) == gpu[q] # <<>> /\ \E sem \in Head(gpu[q]).waits : ~WillSignal(sem)

(* A queue jams in two ways only: a present after two overlay submits waits *)
(* an overlay_done the second submit has consumed, and a call after a       *)
(* refused present waits the application's semaphores once more.  A present *)
(* after a submit or a reset that failed waits for the draws submitted and  *)
(* for no other, so a failed call never leaves a queue stuck.               *)
KnownJams ==
    \A q \in Queues : Jammed(q) =>
        LET waits == Head(gpu[q]).waits
            drawn == {im \in Image : DoneSem(im) \in waits}
        IN  \/ /\ \E im1, im2 \in drawn : im1 # im2
               /\ \A im \in drawn : inFlight[im] \/ where[im[1]] # "map"
            \/ \E im \in dropped : AppSem(im) \in waits

(* A frame is shown only after the application's rendering of it has been   *)
(* waited for, drawn over or not, and whichever submit of the batch failed. *)
FrameShownAfterRender ==
    [][\A im \in Image :
          image[im] = "queued" /\ image'[im] = "free" /\ handle'[im[1]] # "none"
              => appDone'[im] = "idle"]_vars

SomeJam == \E q \in Queues : Jammed(q)

(* A present returns, releasing the lock it holds: its fence waits end      *)
(* unless a queue is jammed.                                                *)
PresentReturns == (pc # "idle") ~> (pc = "idle" \/ SomeJam)

(* Tearing a swapchain down hangs on one of its fences only behind a jam.   *)
IdleWaitReturns ==
    \A w \in Workers : (wpc[w] = "wait") ~> (wpc[w] # "wait" \/ SomeJam)

(* "A binary semaphore can be waited at most once" (phase 2): each          *)
(* overlay_done is waited by one queued operation per signal.               *)
OverlaySemaphoreWaitedOnce ==
    \A im \in Image : WaitedOnce(DoneSem(im))

(* "Caller holds g_sc_lock" (destroy_state): the frame the presenter builds *)
(* under that lock keeps its own ImGui context current.                     *)
FrameKeepsItsContext == pc \in {"frame", "blank"} => context = Current[1]
=============================================================================
