----------------------- MODULE OverlayPresent_proofs -----------------------
(***************************************************************************)
(* Proofs about OverlayPresent for any number of swapchains, images,       *)
(* queues and worker threads: type correctness; that the fence protocol of *)
(* swapchain.cpp counts a fence in flight only with a draw behind it, never*)
(* re-records a command buffer in flight, and destroys the objects of one  *)
(* only after a fence wait that returned an error; that its semaphores     *)
(* signal and wait in turn except for the images of a present refused after*)
(* its submits; and that, refused presents or not, no frame is shown before*)
(* the application has rendered it.                                        *)
(***************************************************************************)
EXTENDS OverlayPresent, SequenceTheorems, TLAPS

-----------------------------------------------------------------------------
(* The inductive invariant of the fences *)

(* No image has two queued draws. *)
UniqueDraws ==
    \A q1, q2 \in Queues : \A n1 \in DOMAIN gpu[q1], n2 \in DOMAIN gpu[q2] :
       gpu[q1][n1].op = "draw" /\ gpu[q2][n2].op = "draw"
           /\ gpu[q1][n1].imgs \cap gpu[q2][n2].imgs # {}
       => q1 = q2 /\ n1 = n2

(* A queued draw has an unsignaled fence, or none if its image was let go   *)
(* of by a failed wait, and is the only one of its image; a lost device has *)
(* no queued draw.                                                          *)
OneDraw ==
    /\ UniqueDraws
    /\ \A im \in Image : Queued(im) =>
          fence[im] = "unsignaled" \/ (im \in unwaited /\ fence[im] = "absent")
    /\ lost => \A im \in Image : ~Queued(im) /\ fence[im] # "signaling"

(* Two workers never have the same swapchain as an argument. *)
Exclusive ==
    /\ \A w1, w2 \in Workers :
          w1 # w2 => JobBusy(w1) \cap JobBusy(w2) \subseteq {None}
    /\ \A w \in Workers :
          /\ wpc[w] = "idle" => job[w] = NoJob
          /\ wpc[w] = "retire" => job[w].new # None \/ job[w].victim # None
          /\ wpc[w] \in {"wait", "free", "release"} => job[w].victim # None
          /\ wpc[w] = "build" <=> (job[w].new # None /\ wpc[w] \notin {"retire", "wait", "free"})
          /\ job[w].new # None => job[w].new # job[w].victim

(* A SwapchainState outside the map belongs to the worker that moved it out,*)
(* and has no in-flight image once that worker is about to destroy it.      *)
MovedIsOwned ==
    /\ \A s \in Swapchains :
          where[s] = "moved" => \E w \in Workers :
                wpc[w] \in {"wait", "free"} /\ job[w].victim = s
    /\ \A s \in Swapchains : handle[s] = "none" => where[s] = "none"
    /\ \A im \in Image : where[im[1]] = "none" => ~inFlight[im]
    /\ \A w \in Workers :
          /\ wpc[w] \in {"wait", "free"} => where[job[w].victim] = "moved"
          /\ wpc[w] = "release" => where[job[w].victim] = "none"
          /\ job[w].new # None =>
                where[job[w].new] = "none" /\ handle[job[w].new] = "live"
          /\ wpc[w] = "free" => \A im \in Image :
                im[1] = job[w].victim => ~inFlight[im]

(* An image let go of by a failed wait is out of the presenter's reach; the *)
(* fences of a swapchain without state are gone, and a new swapchain starts *)
(* with no draw queued, so that nothing of the old one reaches it.          *)
LetGo ==
    /\ \A im \in unwaited : where[im[1]] # "map" /\ ~inFlight[im]
    /\ \A im \in Image : where[im[1]] = "none" => fence[im] = "absent"
    /\ \A im \in Image, w \in Workers : job[w].new = im[1] => ~Queued(im)

Recording == pc \in {"record", "frame", "blank", "fence"}

(* What the presenter has recorded and not yet submitted is tracked, waited *)
(* for, and without duplicates.                                             *)
RecordedIsReady ==
    /\ pc # "idle" => call.queue \in Queues /\ at >= 1
    /\ pc = "idle" => recorded = <<>> /\ at = 1
    /\ \A m, n \in DOMAIN call.list : call.list[m][1] = call.list[n][1] => m = n
    /\ pc \in {"frame", "blank", "fence"} =>
          at <= Len(call.list) /\ where[Current[1]] = "map"
    /\ \A m, n \in DOMAIN recorded : recorded[m] = recorded[n] => m = n
    /\ Recording => \A n \in DOMAIN recorded : \E m \in DOMAIN call.list :
          m < at /\ recorded[n] = call.list[m]
    /\ \A n \in DOMAIN recorded :
          Recording \/ (pc = "submit" /\ n >= at) =>
              where[recorded[n][1]] = "map" /\ FenceWaited(recorded[n])

FenceInv ==
    /\ FenceHasItsDraw
    /\ DrawOwnsItsObjects
    /\ OneDraw
    /\ Exclusive
    /\ MovedIsOwned
    /\ LetGo
    /\ RecordedIsReady

-----------------------------------------------------------------------------
(* Type correctness *)

(* The images a present names are images. *)
LEMMA ElemsType ==
    ASSUME NEW S, NEW l \in Seq(S)
    PROVE  Elems(l) \subseteq S
BY DEF Elems

(* The batches the hooks submit are batches. *)
LEMMA BatchType ==
    /\ \A im \in Image : AppSem(im) \in Semaphore /\ DoneSem(im) \in Semaphore
    /\ \A im \in Image, ws \in SUBSET Semaphore : Draw(im, ws) \in Batch
    /\ \A ims \in SUBSET Image, ws \in SUBSET Semaphore : Present(ims, ws) \in Batch
BY DEF AppSem, DoneSem, Semaphore, Draw, Present, Batch

(* Submitting a batch keeps the queues well typed. *)
LEMMA EnqueueType ==
    ASSUME gpu \in [Queues -> Seq(Batch)], NEW q, NEW b \in Batch
    PROVE  [gpu EXCEPT ![q] = Append(@, b)] \in [Queues -> Seq(Batch)]
<1>1. CASE q \in Queues
  <2>1. Append(gpu[q], b) \in Seq(Batch)
    BY <1>1
  <2> QED BY <1>1, <2>1
<1>2. CASE q \notin Queues
  BY <1>2
<1> QED BY <1>1, <1>2

(* A list of images to present is a sequence of images. *)
LEMMA PresentListType ==
    ASSUME NEW l \in PresentLists
    PROVE  /\ l \in Seq(Image)
           /\ \A m, n \in DOMAIN l : l[m][1] = l[n][1] => m = n
<1>1. PICK n \in 1..MaxPresent : l \in [1..n -> Image]
  BY DEF PresentLists
<1>2. n \in Nat
  BY PresentAssumption
<1>3. l \in Seq(Image)
  BY <1>1, <1>2, SeqDef
<1> QED BY <1>3 DEF PresentLists

(* What a down-chain present leaves well typed. *)
LEMMA PresentDownChainType ==
    ASSUME TypeOK, NEW q, NEW list \in Seq(Image), NEW waits \in SUBSET Semaphore,
           PresentDownChain(q, list, waits)
    PROVE  /\ gpu' \in [Queues -> Seq(Batch)]
           /\ image' \in [Image -> {"free", "acquired", "queued"}]
           /\ pc' = "idle" /\ call' = NoCall /\ recorded' = <<>> /\ at' = 1
           /\ overlaySems' = <<>> /\ dropped' \in SUBSET Image
           /\ call' \in [queue : Queues \cup {None}, list : Seq(Image)]
           /\ recorded' \in Seq(Image) /\ at' \in Nat \ {0} /\ overlaySems' \in Seq(Image)
<1>1. Present(Elems(list), waits) \in Batch
  BY ElemsType, BatchType
<1>2. gpu' \in [Queues -> Seq(Batch)]
  <2>1. gpu' = gpu \/ gpu' = [gpu EXCEPT ![q] = Append(@, Present(Elems(list), waits))]
    BY DEF PresentDownChain
  <2>2. gpu \in [Queues -> Seq(Batch)]
    BY DEF TypeOK
  <2>3. [gpu EXCEPT ![q] = Append(@, Present(Elems(list), waits))] \in [Queues -> Seq(Batch)]
    BY <1>1, <2>2, EnqueueType
  <2> QED BY <2>1, <2>2, <2>3, Zenon
<1>3. call' \in [queue : Queues \cup {None}, list : Seq(Image)]
  BY DEF PresentDownChain, NoCall
<1>4. dropped' \in SUBSET Image
  BY ElemsType DEF PresentDownChain, TypeOK
<1>5. image' \in [Image -> {"free", "acquired", "queued"}]
  BY DEF PresentDownChain, TypeOK
<1> QED
  BY <1>2, <1>3, <1>4, <1>5 DEF PresentDownChain, TypeOK

(* The same, for the forwarded present. *)
LEMMA ForwardType ==
    ASSUME TypeOK, Forward
    PROVE  /\ gpu' \in [Queues -> Seq(Batch)]
           /\ image' \in [Image -> {"free", "acquired", "queued"}]
           /\ pc' = "idle" /\ call' = NoCall /\ recorded' = <<>> /\ at' = 1
           /\ overlaySems' = <<>> /\ dropped' \in SUBSET Image
           /\ call' \in [queue : Queues \cup {None}, list : Seq(Image)]
           /\ recorded' \in Seq(Image) /\ at' \in Nat \ {0} /\ overlaySems' \in Seq(Image)
<1>1. call.list \in Seq(Image)
  BY DEF TypeOK
<1>2. AppSems(call.list) \in SUBSET Semaphore
  BY <1>1, ElemsType, BatchType DEF AppSems
<1> QED
  BY <1>1, <1>2, PresentDownChainType DEF Forward

(* Every step of the specification preserves the types. *)
THEOREM TypeCorrect == Spec => []TypeOK
<1>1. Init => TypeOK
  <2> SUFFICES ASSUME Init PROVE TypeOK
    OBVIOUS
  <2>1. call \in [queue : Queues \cup {None}, list : Seq(Image)]
    BY DEF Init, NoCall
  <2>2. job \in [Workers -> [new : Swapchains \cup {None},
                            victim : Swapchains \cup {None}, capable : BOOLEAN]]
    BY DEF Init, NoJob
  <2>3. gpu \in [Queues -> Seq(Batch)]
    BY DEF Init
  <2>4. /\ recorded \in Seq(Image) /\ overlaySems \in Seq(Image)
        /\ at \in Nat \ {0} /\ pc \notin {"frame", "blank", "fence"}
    BY DEF Init
  <2>5. /\ ok \in [Swapchains -> BOOLEAN] /\ inFlight \in [Image -> BOOLEAN]
        /\ overlayDone \in [Image -> BOOLEAN] /\ lost \in BOOLEAN
        /\ inVoice \in BOOLEAN /\ hostDisabled \in BOOLEAN /\ envDisabled \in BOOLEAN
        /\ overlayFailed \in BOOLEAN
    BY Zenon DEF Init
  <2> QED BY <2>1, <2>2, <2>3, <2>4, <2>5 DEF Init, TypeOK
<1>2. TypeOK /\ [Next]_vars => TypeOK'
  <2> SUFFICES ASSUME TypeOK, [Next]_vars PROVE TypeOK'
    OBVIOUS
  <2> USE DEF TypeOK, appVars, stateVars, gpuVars, hostVars, callVars, workerVars
  <2>1. ASSUME NEW im \in Image, Acquire(im) PROVE TypeOK'
    BY <2>1 DEF Acquire
  <2>2. ASSUME NEW im \in Image, AppRendered(im) PROVE TypeOK'
    BY <2>2 DEF AppRendered
  <2>3. ASSUME NEW im \in Image, SignalFence(im) PROVE TypeOK'
    BY <2>3 DEF SignalFence
  <2>4. ASSUME NEW q \in Queues, Execute(q) PROVE TypeOK'
    <3>1. gpu' \in [Queues -> Seq(Batch)]
      BY <2>4 DEF Execute
    <3>2. /\ appDone' \in [Image -> {"idle", "pending", "signaled"}]
          /\ overlayDone' \in [Image -> BOOLEAN]
          /\ fence' \in [Image -> {"absent", "signaled", "unsignaled", "signaling"}]
          /\ image' \in [Image -> {"free", "acquired", "queued"}]
      BY <2>4 DEF Execute
    <3> QED BY <2>4, <3>1, <3>2 DEF Execute
  <2>5. CASE DeviceLost
    BY <2>5 DEF DeviceLost
  <2>6. CASE SnapshotChanges
    BY <2>6 DEF SnapshotChanges
  <2>7. CASE HostDisables
    BY <2>7 DEF HostDisables
  <2>8. ASSUME NEW q \in Queues, NEW l \in PresentLists, QueuePresentKHR(q, l)
        PROVE TypeOK'
    <3>1. l \in Seq(Image)
      BY PresentListType
    <3>2. AppSems(l) \in SUBSET Semaphore
      BY <3>1, ElemsType, BatchType DEF AppSems
    <3>3. CASE PresentDownChain(q, l, AppSems(l))
      BY <2>8, <3>1, <3>2, <3>3, PresentDownChainType DEF QueuePresentKHR
    <3>4. CASE ~(envDisabled \/ overlayFailed \/ q \notin GraphicsQueues)
      BY <2>8, <3>1, <3>4 DEF QueuePresentKHR
    <3> QED BY <2>8, <3>3, <3>4 DEF QueuePresentKHR
  <2>9. CASE RecordRefused
    BY <2>9, ForwardType DEF RecordRefused
  <2>10. CASE RecordBegin
    <3>1. Current \in Image /\ Current[1] \in Swapchains
      BY <2>10 DEF RecordBegin, Current, Image
    <3>2. renderer' \in [Swapchains -> {"untried", "ready", "failed"}]
      <4>1. CASE hostDisabled
        BY <2>10, <4>1 DEF RecordBegin
      <4>2. CASE ~hostDisabled
        <5>1. PICK r \in RendererAfter(Current[1]) :
                 renderer' = [renderer EXCEPT ![Current[1]] = r]
          BY <2>10, <4>2 DEF RecordBegin
        <5>2. r \in {"untried", "ready", "failed"}
          BY <3>1 DEF RendererAfter
        <5> QED BY <5>1, <5>2
      <4> QED BY <4>1, <4>2
    <3>3. /\ context' \in Swapchains \cup {None}
          /\ at' \in Nat \ {0} /\ pc' \in {"record", "frame", "blank"}
          /\ pc' \in {"frame", "blank"} => at' <= Len(call.list)
      BY <2>10, <3>1 DEF RecordBegin
    <3> QED BY <2>10, <3>2, <3>3 DEF RecordBegin
  <2>11. CASE BuildFrame
    BY <2>11 DEF BuildFrame
  <2>12. CASE RecordDraw
    <3>1. Current \in Image /\ Current[1] \in Swapchains
      BY <2>12 DEF RecordDraw, Current, Image
    <3>2. recorded' \in Seq(Image) /\ context' \in Swapchains \cup {None}
      BY <2>12, <3>1 DEF RecordDraw
    <3> QED BY <2>12, <3>2 DEF RecordDraw
  <2>13. CASE RecordFails
    BY <2>13, ForwardType DEF RecordFails
  <2>13a. CASE RecordWaitFails
    BY <2>13a, ForwardType DEF RecordWaitFails
  <2>14. CASE OverlayThrows
    BY <2>14, ForwardType DEF OverlayThrows
  <2>15. CASE EndPhase1
    BY <2>15, ForwardType DEF EndPhase1
  <2>16. CASE Submit
    <3>1. recorded[at] \in Image
      BY <2>16 DEF Submit
    <3>2. SubmitWaits \in SUBSET Semaphore
      <4>1. CASE at = 1
        BY <4>1, ElemsType, BatchType DEF SubmitWaits, AppSems
      <4>2. CASE at # 1
        <5>1. recorded[at - 1] \in Image
          BY <2>16, <4>2 DEF Submit
        <5> QED BY <4>2, <5>1, BatchType DEF SubmitWaits
      <4> QED BY <4>1, <4>2
    <3>3. Draw(recorded[at], SubmitWaits) \in Batch
      BY <3>1, <3>2, BatchType
    <3>4. gpu' \in [Queues -> Seq(Batch)]
      BY <2>16, <3>3, EnqueueType DEF Submit
    <3>5. overlaySems' \in Seq(Image)
      BY <2>16, <3>1 DEF Submit
    <3> QED BY <2>16, <3>1, <3>4, <3>5 DEF Submit
  <2>17. ASSUME NEW r \in BOOLEAN, SubmitFails(r) PROVE TypeOK'
    <3>1. recorded[at] \in Image
      BY <2>17 DEF SubmitFails
    <3>2. /\ inFlight' \in [Image -> BOOLEAN]
          /\ fence' \in [Image -> {"absent", "signaled", "unsignaled", "signaling"}]
      BY <2>17, <3>1 DEF SubmitFails
    <3>3. CASE at = 1
      BY <2>17, <3>2, <3>3, ForwardType DEF SubmitFails
    <3>4. CASE at # 1
      BY <2>17, <3>2, <3>4 DEF SubmitFails
    <3> QED BY <3>3, <3>4
  <2>18. CASE PresentDrawn
    <3>1. {DoneSem(im) : im \in Elems(overlaySems)} \in SUBSET Semaphore
      BY ElemsType, BatchType
    <3>2. call.list \in Seq(Image)
      OBVIOUS
    <3> QED BY <2>18, <3>1, <3>2, PresentDownChainType DEF PresentDrawn
  <2>19. ASSUME NEW w \in Workers, MoveOut(w) PROVE TypeOK'
    <3>1. AfterRetire(w) \in {"build", "release"}
      BY DEF AfterRetire
    <3>2. /\ where' \in [Swapchains -> {"none", "map", "moved"}]
          /\ wpc' \in [Workers -> {"idle", "retire", "wait", "free", "build", "release"}]
      <4>1. CASE job[w].victim # None /\ where[job[w].victim] = "map"
        <5>1. /\ where' = [where EXCEPT ![job[w].victim] = "moved"]
              /\ wpc' = [wpc EXCEPT ![w] = "wait"]
          BY <2>19, <4>1 DEF MoveOut
        <5> QED BY <5>1
      <4>2. CASE ~(job[w].victim # None /\ where[job[w].victim] = "map")
        <5>1. wpc' = [wpc EXCEPT ![w] = AfterRetire(w)] /\ UNCHANGED where
          BY <2>19, <4>2 DEF MoveOut
        <5> QED BY <3>1, <5>1
      <4> QED BY <4>1, <4>2
    <3> QED BY <2>19, <3>2 DEF MoveOut
  <2>20. ASSUME NEW w \in Workers, WaitOverlayIdle(w) PROVE TypeOK'
    BY <2>20 DEF WaitOverlayIdle
  <2>20a. ASSUME NEW w \in Workers, WaitOverlayIdleFails(w) PROVE TypeOK'
    BY <2>20a DEF WaitOverlayIdleFails
  <2>21. ASSUME NEW w \in Workers, DestroyState(w) PROVE TypeOK'
    BY <2>21, ZenonT(60) DEF DestroyState, AfterRetire
  <2>22. ASSUME NEW w \in Workers, BuildState(w) PROVE TypeOK'
    <3>1. /\ wpc' \in [Workers -> {"idle", "retire", "wait", "free", "build", "release"}]
          /\ job' \in [Workers -> [new : Swapchains \cup {None},
                            victim : Swapchains \cup {None}, capable : BOOLEAN]]
      BY <2>22 DEF BuildState, Return, NoJob
    <3>2. /\ where' \in [Swapchains -> {"none", "map", "moved"}]
          /\ ok' \in [Swapchains -> BOOLEAN]
          /\ fence' \in [Image -> {"absent", "signaled", "unsignaled", "signaling"}]
          /\ overlayDone' \in [Image -> BOOLEAN] /\ overlayFailed' \in BOOLEAN
          /\ unwaited' \in SUBSET Image
          /\ UNCHANGED <<renderer, inFlight>>
      <4>1. CASE UNCHANGED <<stateVars, overlayDone>> /\ overlayFailed' \in BOOLEAN
        BY <4>1
      <4>2. ASSUME NEW built \in BOOLEAN, StoreState(job[w].new, built)
            PROVE  /\ where' \in [Swapchains -> {"none", "map", "moved"}]
                   /\ ok' \in [Swapchains -> BOOLEAN]
                   /\ fence' \in [Image -> {"absent", "signaled", "unsignaled", "signaling"}]
                   /\ overlayDone' \in [Image -> BOOLEAN] /\ overlayFailed' \in BOOLEAN
                   /\ unwaited' \in SUBSET Image
                   /\ UNCHANGED <<renderer, inFlight>>
        <5>1. /\ where' \in [Swapchains -> {"none", "map", "moved"}]
              /\ ok' \in [Swapchains -> BOOLEAN]
          BY <4>2 DEF StoreState
        <5>2. overlayDone' \in [Image -> BOOLEAN]
          BY <4>2 DEF StoreState
        <5>3. fence' \in [Image -> {"absent", "signaled", "unsignaled", "signaling"}]
          BY <4>2 DEF StoreState
        <5> QED BY <4>2, <5>1, <5>2, <5>3 DEF StoreState
      <4>3. \/ UNCHANGED <<stateVars, overlayDone>> /\ overlayFailed' \in BOOLEAN
            \/ \E built \in BOOLEAN : StoreState(job[w].new, built)
        BY <2>22, ZenonT(60) DEF BuildState
      <4> QED BY <4>1, <4>2, <4>3
    <3> QED BY <2>22, <3>1, <3>2 DEF BuildState
  <2>23. ASSUME NEW w \in Workers, Release(w) PROVE TypeOK'
    <3>1. /\ wpc' \in [Workers -> {"idle", "retire", "wait", "free", "build", "release"}]
          /\ job' \in [Workers -> [new : Swapchains \cup {None},
                            victim : Swapchains \cup {None}, capable : BOOLEAN]]
      BY <2>23 DEF Release, Return, NoJob
    <3>2. /\ handle' \in [Swapchains -> {"none", "live", "retired"}]
          /\ image' \in [Image -> {"free", "acquired", "queued"}]
          /\ appDone' \in [Image -> {"idle", "pending", "signaled"}]
      BY <2>23 DEF Release
    <3> QED BY <2>23, <3>1, <3>2 DEF Release
  <2>24. ASSUME NEW w \in Workers, NEW s \in Swapchains,
                NEW old \in Swapchains \cup {None}, CreateSwapchainKHR(w, s, old)
         PROVE TypeOK'
    <3>1. handle' \in [Swapchains -> {"none", "live", "retired"}]
      BY <2>24 DEF CreateSwapchainKHR
    <3>2. /\ wpc' \in [Workers -> {"idle", "retire", "wait", "free", "build", "release"}]
          /\ job' \in [Workers -> [new : Swapchains \cup {None},
                            victim : Swapchains \cup {None}, capable : BOOLEAN]]
      <4>1. CASE UNCHANGED workerVars
        BY <4>1
      <4>2. CASE wpc' = [wpc EXCEPT ![w] = "retire"] /\ ~lost
        <5>1. PICK c \in BOOLEAN :
                 job' = [job EXCEPT ![w] = [new |-> s, victim |-> old, capable |-> c]]
          BY <2>24, <4>2 DEF CreateSwapchainKHR
        <5> QED BY <4>2, <5>1
      <4> QED BY <2>24, <4>1, <4>2 DEF CreateSwapchainKHR
    <3> QED BY <2>24, <3>1, <3>2 DEF CreateSwapchainKHR
  <2>25. ASSUME NEW w \in Workers, NEW s \in Swapchains, DestroySwapchainKHR(w, s)
         PROVE TypeOK'
    BY <2>25 DEF DestroySwapchainKHR
  <2>26. CASE UNCHANGED vars
    BY <2>26 DEF vars
  <2> QED
    BY <2>1, <2>2, <2>3, <2>4, <2>5, <2>6, <2>7, <2>8, <2>9, <2>10, <2>11, <2>12,
       <2>13, <2>13a, <2>14, <2>15, <2>16, <2>17, <2>18, <2>19, <2>20, <2>20a, <2>21,
       <2>22, <2>23, <2>24, <2>25, <2>26, SMTT(60) DEF Next, PresenterStep, WorkerStep
<1> QED
  BY <1>1, <1>2, PTL DEF Spec

-----------------------------------------------------------------------------
(* How the three GPU operations change the set of queued draws *)

(* Queueing a present adds and removes no draw. *)
LEMMA PresentKeepsDraws ==
    ASSUME TypeOK, NEW q, NEW b \in Batch, b.op = "present",
           gpu' = gpu \/ gpu' = [gpu EXCEPT ![q] = Append(@, b)]
    PROVE  /\ \A im \in Image : Queued(im)' <=> Queued(im)
           /\ UniqueDraws => UniqueDraws'
<1>1. CASE gpu' = gpu
  BY <1>1 DEF Queued, UniqueDraws
<1>2. CASE q \in Queues /\ gpu' = [gpu EXCEPT ![q] = Append(@, b)]
  <2>1. /\ \A r \in Queues : r # q => gpu'[r] = gpu[r]
        /\ gpu'[q] = Append(gpu[q], b) /\ gpu[q] \in Seq(Batch)
    BY <1>2 DEF TypeOK
  <2>2. /\ DOMAIN gpu[q] = 1..Len(gpu[q]) /\ Len(gpu[q]) \in Nat
        /\ DOMAIN gpu'[q] = 1..(Len(gpu[q]) + 1)
        /\ gpu'[q][Len(gpu[q]) + 1] = b
        /\ \A n \in DOMAIN gpu[q] : n \in DOMAIN gpu'[q] /\ gpu'[q][n] = gpu[q][n]
    BY <2>1
  <2>3. \A r \in Queues : \A n \in DOMAIN gpu'[r] :
           gpu'[r][n].op = "draw" => n \in DOMAIN gpu[r] /\ gpu'[r][n] = gpu[r][n]
    BY <2>1, <2>2
  <2>4. \A r \in Queues : \A n \in DOMAIN gpu[r] :
           n \in DOMAIN gpu'[r] /\ gpu'[r][n] = gpu[r][n]
    BY <2>1, <2>2
  <2>5. \A im \in Image : Queued(im)' <=> Queued(im)
    BY <2>3, <2>4 DEF Queued
  <2>6. UniqueDraws => UniqueDraws'
    BY <2>3 DEF UniqueDraws
  <2> QED BY <2>5, <2>6
<1>3. CASE q \notin Queues /\ gpu' = [gpu EXCEPT ![q] = Append(@, b)]
  <2>1. gpu' = gpu
    BY <1>3 DEF TypeOK
  <2> QED BY <2>1 DEF Queued, UniqueDraws
<1> QED BY <1>1, <1>2, <1>3

(* Queueing a draw of an image that has none adds exactly that one. *)
LEMMA SubmitAddsDraw ==
    ASSUME TypeOK, NEW q \in Queues, NEW im \in Image, NEW ws \in SUBSET Semaphore,
           gpu' = [gpu EXCEPT ![q] = Append(@, Draw(im, ws))],
           ~Queued(im), UniqueDraws
    PROVE  /\ Queued(im)'
           /\ \A j \in Image : j # im => (Queued(j)' <=> Queued(j))
           /\ UniqueDraws'
<1> DEFINE b == Draw(im, ws)
           k == Len(gpu[q]) + 1
<1>1. b.op = "draw" /\ b.imgs = {im}
  BY DEF Draw
<1>2. /\ \A r \in Queues : r # q => gpu'[r] = gpu[r]
      /\ gpu'[q] = Append(gpu[q], b) /\ gpu[q] \in Seq(Batch)
  BY DEF TypeOK
<1>3. /\ DOMAIN gpu[q] = 1..Len(gpu[q]) /\ Len(gpu[q]) \in Nat
      /\ DOMAIN gpu'[q] = 1..k /\ k \notin DOMAIN gpu[q] /\ gpu'[q][k] = b
      /\ \A n \in DOMAIN gpu[q] : n \in DOMAIN gpu'[q] /\ gpu'[q][n] = gpu[q][n]
  <2> HIDE DEF b
  <2> QED BY <1>2
<1> HIDE DEF b, k
<1>4. \A r \in Queues : \A n \in DOMAIN gpu'[r] :
         \/ n \in DOMAIN gpu[r] /\ gpu'[r][n] = gpu[r][n]
         \/ r = q /\ n = k
  BY <1>2, <1>3 DEF k
<1>5. \A r \in Queues : \A n \in DOMAIN gpu[r] :
         n \in DOMAIN gpu'[r] /\ gpu'[r][n] = gpu[r][n]
  BY <1>2, <1>3
<1>6. Queued(im)'
  BY <1>1, <1>3 DEF Queued, k
<1>7. \A j \in Image : j # im => (Queued(j)' <=> Queued(j))
  BY <1>1, <1>3, <1>4, <1>5 DEF Queued
<1>8. UniqueDraws'
  <2>1. \A r \in Queues : \A n \in DOMAIN gpu[r] :
           ~(gpu[r][n].op = "draw" /\ gpu[r][n].imgs \cap {im} # {})
    BY DEF Queued
  <2> QED BY <1>1, <1>3, <1>4, <2>1 DEF UniqueDraws
<1> QED BY <1>6, <1>7, <1>8

(* Executing the head of a queue removes exactly its draw. *)
LEMMA ExecuteRemovesDraw ==
    ASSUME TypeOK, NEW q \in Queues, gpu[q] # <<>>, UniqueDraws,
           gpu' = [gpu EXCEPT ![q] = Tail(@)]
    PROVE  /\ Head(gpu[q]) \in Batch
           /\ \A im \in Image : Queued(im)' => Queued(im)
           /\ \A im \in Image :
                 Head(gpu[q]).op = "draw" /\ im \in Head(gpu[q]).imgs
                    => Queued(im) /\ ~Queued(im)'
           /\ \A im \in Image :
                 ~(Head(gpu[q]).op = "draw" /\ im \in Head(gpu[q]).imgs)
                    => (Queued(im) => Queued(im)')
           /\ UniqueDraws'
<1>1. /\ \A r \in Queues : r # q => gpu'[r] = gpu[r]
      /\ gpu'[q] = Tail(gpu[q]) /\ gpu[q] \in Seq(Batch)
  BY DEF TypeOK
<1>2. /\ DOMAIN gpu[q] = 1..Len(gpu[q]) /\ Len(gpu[q]) \in Nat /\ Len(gpu[q]) >= 1
      /\ DOMAIN gpu'[q] = 1..(Len(gpu[q]) - 1)
      /\ Head(gpu[q]) = gpu[q][1] /\ 1 \in DOMAIN gpu[q]
      /\ \A n \in DOMAIN gpu'[q] : n + 1 \in DOMAIN gpu[q] /\ gpu'[q][n] = gpu[q][n + 1]
  <2>1. Len(gpu[q]) \in Nat \ {0} /\ DOMAIN gpu[q] = 1..Len(gpu[q])
    BY <1>1, EmptySeq
  <2>2. /\ Len(gpu'[q]) = Len(gpu[q]) - 1 /\ gpu'[q] \in Seq(Batch)
        /\ \A n \in 1..Len(gpu'[q]) : gpu'[q][n] = gpu[q][n + 1]
    <3>1. \A s \in Seq(Batch) : s # <<>> =>
             /\ Tail(s) \in Seq(Batch) /\ Len(Tail(s)) = Len(s) - 1
             /\ \A n \in 1..Len(Tail(s)) : Tail(s)[n] = s[n + 1]
      BY HeadTailProperties, Zenon
    <3>2. gpu'[q] = Tail(gpu[q]) /\ gpu[q] \in Seq(Batch) /\ gpu[q] # <<>>
      BY <1>1
    <3> QED BY <3>1, <3>2, Zenon
  <2>3. Head(gpu[q]) = gpu[q][1]
    BY <1>1
  <2> QED BY <2>1, <2>2, <2>3
<1>3. Head(gpu[q]) \in Batch
  BY <1>1, <1>2
<1>4. \A im \in Image : Queued(im)' => Queued(im)
  BY <1>1, <1>2 DEF Queued
<1>5. ASSUME NEW im \in Image, Head(gpu[q]).op = "draw", im \in Head(gpu[q]).imgs
      PROVE  Queued(im) /\ ~Queued(im)'
  <2>1. Queued(im)
    BY <1>2, <1>5 DEF Queued
  <2>2. ASSUME NEW r \in Queues, NEW n \in DOMAIN gpu'[r],
               gpu'[r][n].op = "draw", im \in gpu'[r][n].imgs
        PROVE  FALSE
    <3>1. CASE r = q
      <4>1. n \in 1..(Len(gpu[q]) - 1) /\ n + 1 # 1
        BY <1>2, <2>2, <3>1
      <4>2. n + 1 \in DOMAIN gpu[q] /\ gpu[q][n + 1].op = "draw" /\ im \in gpu[q][n + 1].imgs
        BY <1>2, <2>2, <3>1
      <4> QED BY <1>2, <1>5, <4>1, <4>2 DEF UniqueDraws
    <3>2. CASE r # q
      BY <1>1, <1>2, <1>5, <2>2, <3>2 DEF UniqueDraws
    <3> QED BY <3>1, <3>2
  <2>3. ~Queued(im)'
    BY <2>2 DEF Queued
  <2> QED BY <2>1, <2>3
<1>6. ASSUME NEW im \in Image, Queued(im),
             ~(Head(gpu[q]).op = "draw" /\ im \in Head(gpu[q]).imgs)
      PROVE  Queued(im)'
  <2>0. PICK r \in Queues : \E n \in DOMAIN gpu[r] :
           gpu[r][n].op = "draw" /\ im \in gpu[r][n].imgs
    BY <1>6 DEF Queued
  <2>1. PICK n \in DOMAIN gpu[r] : gpu[r][n].op = "draw" /\ im \in gpu[r][n].imgs
    BY <2>0
  <2>2. CASE r = q
    <3>1. n # 1 /\ n \in 1..Len(gpu[q])
      BY <1>2, <1>6, <2>1, <2>2
    <3>2. n - 1 \in DOMAIN gpu'[q] /\ (n - 1) + 1 = n
      BY <1>2, <3>1
    <3>3. gpu'[q][n - 1] = gpu[q][n]
      BY <1>2, <3>2
    <3> QED BY <2>1, <2>2, <3>2, <3>3 DEF Queued
  <2>3. CASE r # q
    BY <1>1, <2>1, <2>3 DEF Queued
  <2> QED BY <2>2, <2>3
<1>7. UniqueDraws'
  <2> SUFFICES ASSUME NEW q1 \in Queues, NEW q2 \in Queues,
                      NEW n1 \in DOMAIN gpu'[q1], NEW n2 \in DOMAIN gpu'[q2],
                      gpu'[q1][n1].op = "draw", gpu'[q2][n2].op = "draw",
                      gpu'[q1][n1].imgs \cap gpu'[q2][n2].imgs # {}
               PROVE  q1 = q2 /\ n1 = n2
    BY DEF UniqueDraws
  <2> DEFINE shift(r, n) == IF r = q THEN n + 1 ELSE n
  <2>1. /\ shift(q1, n1) \in DOMAIN gpu[q1] /\ gpu[q1][shift(q1, n1)] = gpu'[q1][n1]
        /\ shift(q2, n2) \in DOMAIN gpu[q2] /\ gpu[q2][shift(q2, n2)] = gpu'[q2][n2]
    BY <1>1, <1>2
  <2>2. q1 = q2 /\ shift(q1, n1) = shift(q2, n2)
    BY <2>1 DEF UniqueDraws
  <2>3. q1 # q => n1 = n2
    BY <2>2
  <2>4. q1 = q => n1 = n2
    BY <1>2, <2>2
  <2> QED BY <2>2, <2>3, <2>4
<1> QED BY <1>3, <1>4, <1>5, <1>6, <1>7

-----------------------------------------------------------------------------
(* The fence invariant is inductive *)

(* Steps that leave the fence protocol's state alone preserve the invariant. *)
LEMMA FenceStutter ==
    ASSUME FenceInv,
           UNCHANGED <<handle, where, inFlight, fence, unwaited, gpu, lost, pc, call,
                       recorded, at, wpc, job>>
    PROVE  FenceInv'
BY DEF FenceInv, FenceHasItsDraw, DrawOwnsItsObjects, OneDraw, LetGo, UniqueDraws, Exclusive,
       MovedIsOwned, RecordedIsReady, Recording, Pending, Queued, FenceWaited, JobBusy,
       Current

(* So does a present that goes down the chain, forwarded or not. *)
LEMMA FencePresent ==
    ASSUME TypeOK, FenceInv, NEW q, NEW list \in Seq(Image),
           NEW waits \in SUBSET Semaphore, PresentDownChain(q, list, waits),
           UNCHANGED <<handle, where, unwaited, lost, wpc, job>>,
           \A im \in Image : \/ inFlight'[im] = inFlight[im] /\ fence'[im] = fence[im]
                             \/ /\ ~inFlight'[im] /\ ~Pending(im) /\ fence'[im] # "signaling"
                                /\ where[im[1]] = "map"
    PROVE  FenceInv'
<1>1. Present(Elems(list), waits) \in Batch /\ Present(Elems(list), waits).op = "present"
  BY ElemsType, BatchType DEF Present
<1>2. gpu' = gpu \/ gpu' = [gpu EXCEPT ![q] = Append(@, Present(Elems(list), waits))]
  BY DEF PresentDownChain
<1>3. /\ \A im \in Image : Queued(im)' <=> Queued(im)
      /\ UniqueDraws'
  BY <1>1, <1>2, PresentKeepsDraws DEF FenceInv, OneDraw
<1>4. FenceHasItsDraw'
  BY <1>3 DEF FenceInv, FenceHasItsDraw, Pending
<1>5. DrawOwnsItsObjects'
  BY <1>3 DEF FenceInv, DrawOwnsItsObjects, Pending
<1>6. OneDraw'
  BY <1>3 DEF FenceInv, OneDraw, Pending
<1>7. Exclusive'
  BY DEF FenceInv, Exclusive, JobBusy
<1>8. MovedIsOwned'
  BY DEF FenceInv, MovedIsOwned
<1>9. RecordedIsReady'
  BY DEF PresentDownChain, RecordedIsReady, NoCall, Recording
<1>10. LetGo'
  BY <1>3 DEF FenceInv, LetGo, TypeOK
<1> QED BY <1>4, <1>5, <1>6, <1>7, <1>8, <1>9, <1>10 DEF FenceInv

(* A forwarded present keeps FenceInv as long as the fences it touches are  *)
(* retired: no image stays in flight whose fence nothing will signal.       *)
LEMMA FenceForward ==
    ASSUME TypeOK, FenceInv, Forward, UNCHANGED <<handle, where, unwaited, lost, wpc, job>>,
           \A im \in Image : \/ inFlight'[im] = inFlight[im] /\ fence'[im] = fence[im]
                             \/ /\ ~inFlight'[im] /\ ~Pending(im) /\ fence'[im] # "signaling"
                                /\ where[im[1]] = "map"
    PROVE  FenceInv'
<1>1. call.list \in Seq(Image)
  BY DEF TypeOK
<1>2. AppSems(call.list) \in SUBSET Semaphore
  BY <1>1, ElemsType, BatchType DEF AppSems
<1> QED BY <1>1, <1>2, FencePresent DEF Forward

(* A forwarded present that touches no fence. *)
LEMMA FenceForwardOnly ==
    ASSUME TypeOK, FenceInv, Forward,
           UNCHANGED <<handle, where, inFlight, fence, unwaited, lost, wpc, job>>
    PROVE  FenceInv'
<1>1. \A im \in Image : inFlight'[im] = inFlight[im] /\ fence'[im] = fence[im]
  OBVIOUS
<1>2. UNCHANGED <<handle, where, unwaited, lost, wpc, job>>
  OBVIOUS
<1> QED BY <1>1, <1>2, FenceForward

(* An image recorded and not yet submitted has no pending draw. *)
LEMMA RecordedNotPending ==
    ASSUME TypeOK, FenceInv, NEW n \in DOMAIN recorded,
           Recording \/ (pc = "submit" /\ n >= at)
    PROVE  ~Pending(recorded[n]) /\ recorded[n] \in Image
<1>1. recorded[n] \in Image /\ where[recorded[n][1]] = "map" /\ FenceWaited(recorded[n])
  BY DEF TypeOK, FenceInv, RecordedIsReady
<1>2. recorded[n] \notin unwaited
  BY <1>1 DEF FenceInv, LetGo
<1> QED BY <1>1, <1>2 DEF FenceInv, DrawOwnsItsObjects, FenceWaited

(* Moving a SwapchainState out of the map, under the lock, hands it to the  *)
(* one worker that retires it.                                              *)
LEMMA FenceMoved ==
    ASSUME TypeOK, FenceInv, NEW w \in Workers, NEW v \in Swapchains, v = job[w].victim,
           where[v] = "map", where'[v] = "moved",
           \A s \in Swapchains : s # v => where'[s] = where[s],
           wpc[w] = "retire", wpc'[w] = "wait",
           \A u \in Workers : u # w => wpc'[u] = wpc[u],
           \A u \in Workers : u # w => job[u].victim # v /\ job[u].new # v,
           UNCHANGED <<handle, inFlight, fence, unwaited, gpu, lost, job>>, RecordedIsReady'
    PROVE  FenceInv'
<1>1. \A im \in Image : (Queued(im)' <=> Queued(im)) /\ im[1] \in Swapchains
  BY DEF Queued, Image
<1>2. FenceHasItsDraw' /\ DrawOwnsItsObjects' /\ OneDraw'
  BY <1>1 DEF FenceInv, FenceHasItsDraw, DrawOwnsItsObjects, OneDraw, UniqueDraws, Pending
<1>2a. LetGo'
  BY <1>1 DEF FenceInv, LetGo, TypeOK
<1>3. Exclusive'
  BY PresentAssumption DEF FenceInv, Exclusive, JobBusy
<1>4. /\ \A u \in Workers : job[u].new # None => job[u].new \in Swapchains
      /\ \A u \in Workers : wpc[u] \in {"wait", "free", "release"} => job[u].victim \in Swapchains
      /\ job[w].new # None => job[w].new # v
  BY DEF FenceInv, Exclusive, TypeOK
<1>5. \A s \in Swapchains : where'[s] = "moved" => \E u \in Workers :
         wpc'[u] \in {"wait", "free"} /\ job[u].victim = s
  <2> SUFFICES ASSUME NEW s \in Swapchains, where'[s] = "moved", s # v
               PROVE  \E u \in Workers : wpc'[u] \in {"wait", "free"} /\ job[u].victim = s
    OBVIOUS
  <2>1. PICK u \in Workers : wpc[u] \in {"wait", "free"} /\ job[u].victim = s
    BY DEF FenceInv, MovedIsOwned
  <2> QED BY <2>1
<1>6. /\ \A s \in Swapchains : handle[s] = "none" => where'[s] = "none"
      /\ \A im \in Image : where'[im[1]] = "none" => ~inFlight[im]
  BY <1>1 DEF FenceInv, MovedIsOwned
<1>7. ASSUME NEW u \in Workers
      PROVE  /\ wpc'[u] \in {"wait", "free"} => where'[job[u].victim] = "moved"
             /\ wpc'[u] = "release" => where'[job[u].victim] = "none"
             /\ job[u].new # None => where'[job[u].new] = "none" /\ handle[job[u].new] = "live"
             /\ wpc'[u] = "free" => \A im \in Image : im[1] = job[u].victim => ~inFlight[im]
  <2>1. CASE u = w
    BY <1>4, <2>1 DEF FenceInv, MovedIsOwned
  <2>2. CASE u # w
    BY <1>4, <2>2 DEF FenceInv, MovedIsOwned
  <2> QED BY <2>1, <2>2
<1>8. MovedIsOwned'
  BY <1>5, <1>6, <1>7 DEF MovedIsOwned
<1> QED BY <1>2, <1>2a, <1>3, <1>8 DEF FenceInv

(* A worker that returns gives up its arguments. *)
LEMMA WorkerReturns ==
    ASSUME Exclusive, NEW w \in Workers, wpc'[w] = "idle", job'[w] = NoJob,
           \A u \in Workers : u # w => wpc'[u] = wpc[u] /\ job'[u] = job[u]
    PROVE  Exclusive'
<1>1. job'[w].new = None /\ job'[w].victim = None
  BY DEF NoJob
<1>2. ASSUME NEW w1 \in Workers, NEW w2 \in Workers, w1 # w2
      PROVE  {job'[w1].new, job'[w1].victim} \cap {job'[w2].new, job'[w2].victim}
                \subseteq {None}
  <2>1. CASE w1 = w \/ w2 = w
    BY <1>1, <2>1
  <2>2. CASE w1 # w /\ w2 # w
    BY <1>2, <2>2 DEF Exclusive, JobBusy
  <2> QED BY <2>1, <2>2
<1>3. ASSUME NEW u \in Workers
      PROVE  /\ wpc'[u] = "idle" => job'[u] = NoJob
             /\ wpc'[u] = "retire" => job'[u].new # None \/ job'[u].victim # None
             /\ wpc'[u] \in {"wait", "free", "release"} => job'[u].victim # None
             /\ wpc'[u] = "build" <=>
                   (job'[u].new # None /\ wpc'[u] \notin {"retire", "wait", "free"})
             /\ job'[u].new # None => job'[u].new # job'[u].victim
  <2>1. CASE u = w
    BY <1>1, <2>1
  <2>2. CASE u # w
    BY <2>2 DEF Exclusive
  <2> QED BY <2>1, <2>2
<1>4. Exclusive' <=>
        /\ \A w1, w2 \in Workers : w1 # w2 =>
              {job'[w1].new, job'[w1].victim} \cap {job'[w2].new, job'[w2].victim}
                 \subseteq {None}
        /\ \A u \in Workers :
             /\ wpc'[u] = "idle" => job'[u] = NoJob
             /\ wpc'[u] = "retire" => job'[u].new # None \/ job'[u].victim # None
             /\ wpc'[u] \in {"wait", "free", "release"} => job'[u].victim # None
             /\ wpc'[u] = "build" <=>
                   (job'[u].new # None /\ wpc'[u] \notin {"retire", "wait", "free"})
             /\ job'[u].new # None => job'[u].new # job'[u].victim
  BY Zenon DEF Exclusive, JobBusy, NoJob
<1> QED BY <1>2, <1>3, <1>4, Zenon

(* The initial states satisfy the invariant, and every step preserves it. *)
LEMMA FenceInvInductive ==
    /\ Init => FenceInv
    /\ TypeOK /\ FenceInv /\ [Next]_vars => FenceInv'
<1>1. Init => FenceInv
  <2> SUFFICES ASSUME Init PROVE FenceInv
    OBVIOUS
  <2>1. \A im \in Image : ~Pending(im) /\ ~inFlight[im]
    BY DEF Init, Pending, Queued
  <2>2. UniqueDraws
    BY DEF Init, UniqueDraws
  <2>3. Exclusive
    BY DEF Init, Exclusive, JobBusy, NoJob
  <2>4. MovedIsOwned
    BY DEF Init, MovedIsOwned, NoJob
  <2>5. RecordedIsReady
    BY DEF Init, RecordedIsReady, NoCall, Recording
  <2>6. LetGo
    BY <2>1 DEF Init, LetGo, Pending
  <2> QED BY <2>1, <2>2, <2>3, <2>4, <2>5, <2>6
       DEF FenceInv, FenceHasItsDraw, DrawOwnsItsObjects, OneDraw, LetGo, Pending
<1>2. TypeOK /\ FenceInv /\ [Next]_vars => FenceInv'
  <2> SUFFICES ASSUME TypeOK, FenceInv, [Next]_vars PROVE FenceInv'
    OBVIOUS
  <2> USE DEF appVars, stateVars, gpuVars, hostVars, callVars, workerVars
  <2>1. ASSUME NEW im \in Image, Acquire(im) PROVE FenceInv'
    BY <2>1, FenceStutter DEF Acquire
  <2>2. ASSUME NEW im \in Image, AppRendered(im) PROVE FenceInv'
    BY <2>2, FenceStutter DEF AppRendered
  <2>3. ASSUME NEW im \in Image, SignalFence(im) PROVE FenceInv'
    <3>1. /\ fence[im] = "signaling" /\ fence'[im] = "signaled"
          /\ \A j \in Image : j # im => fence'[j] = fence[j]
      BY <2>3 DEF SignalFence, TypeOK
    <3>2. \A j \in Image : Queued(j)' <=> Queued(j)
      BY <2>3 DEF SignalFence, Queued
    <3>3. ~Queued(im)
      BY <3>1 DEF FenceInv, OneDraw
    <3>4. FenceHasItsDraw' /\ DrawOwnsItsObjects' /\ OneDraw' /\ LetGo'
      BY <2>3, <3>1, <3>2, <3>3 DEF SignalFence, FenceInv, FenceHasItsDraw,
         DrawOwnsItsObjects, OneDraw, LetGo, UniqueDraws, Pending
    <3>5. Exclusive' /\ MovedIsOwned'
      BY <2>3 DEF SignalFence, FenceInv, Exclusive, MovedIsOwned, JobBusy
    <3>6. \A j \in Image : FenceWaited(j) => FenceWaited(j)'
      BY <2>3, <3>1 DEF SignalFence, FenceWaited
    <3>7. RecordedIsReady'
      BY <2>3, <3>6 DEF SignalFence, FenceInv, RecordedIsReady, Recording, Current, TypeOK
    <3> QED BY <3>4, <3>5, <3>7 DEF FenceInv
  <2>4. ASSUME NEW q \in Queues, Execute(q) PROVE FenceInv'
    <3> DEFINE b == Head(gpu[q])
    <3>1. /\ b \in Batch
          /\ \A im \in Image : Queued(im)' => Queued(im)
          /\ \A im \in Image : b.op = "draw" /\ im \in b.imgs => Queued(im) /\ ~Queued(im)'
          /\ \A im \in Image : ~(b.op = "draw" /\ im \in b.imgs) => (Queued(im) => Queued(im)')
          /\ UniqueDraws'
      BY <2>4, ExecuteRemovesDraw DEF Execute, FenceInv, OneDraw
    <3>2. \A im \in Image :
             fence'[im] = IF b.op = "draw" /\ im \in b.imgs /\ fence[im] # "absent"
                          THEN "signaling" ELSE fence[im]
      BY <2>4 DEF Execute
    <3>3. UNCHANGED <<handle, where, inFlight, unwaited, lost, pc, call, recorded, at, wpc, job>>
      BY <2>4 DEF Execute
    <3> HIDE DEF b
    <3>4. FenceHasItsDraw'
      BY <3>1, <3>2, <3>3 DEF FenceInv, FenceHasItsDraw, OneDraw, LetGo, Pending
    <3>5. DrawOwnsItsObjects'
      BY <3>1, <3>2, <3>3 DEF FenceInv, DrawOwnsItsObjects, OneDraw, Pending
    <3>6. OneDraw'
      BY <3>1, <3>2, <3>3 DEF FenceInv, OneDraw
    <3>7. Exclusive' /\ MovedIsOwned'
      BY <3>3 DEF FenceInv, Exclusive, MovedIsOwned, JobBusy
    <3>8. \A j \in Image : FenceWaited(j) => FenceWaited(j)'
      BY <3>1, <3>2, <3>3 DEF FenceWaited, FenceInv, OneDraw, LetGo
    <3>9. RecordedIsReady'
      BY <3>3, <3>8 DEF FenceInv, RecordedIsReady, Recording, Current, TypeOK
    <3>10. LetGo'
      BY <3>1, <3>2, <3>3 DEF FenceInv, LetGo, OneDraw
    <3> QED BY <3>4, <3>5, <3>6, <3>7, <3>9, <3>10 DEF FenceInv
  <2>5. CASE DeviceLost
    <3>1. \A im \in Image : ~Queued(im)' /\ fence'[im] # "signaling"
      BY <2>5 DEF DeviceLost, Queued
    <3>2. UniqueDraws'
      BY <2>5 DEF DeviceLost, UniqueDraws
    <3>3. FenceHasItsDraw' /\ DrawOwnsItsObjects' /\ OneDraw' /\ LetGo'
      BY <2>5, <3>1, <3>2 DEF DeviceLost, FenceInv, FenceHasItsDraw, DrawOwnsItsObjects, OneDraw,
         LetGo, Pending
    <3>4. Exclusive' /\ MovedIsOwned'
      BY <2>5 DEF DeviceLost, FenceInv, Exclusive, MovedIsOwned, JobBusy
    <3>5. \A j \in Image : FenceWaited(j) => FenceWaited(j)'
      BY <2>5 DEF DeviceLost, FenceWaited
    <3>6. RecordedIsReady'
      BY <2>5, <3>5 DEF DeviceLost, FenceInv, RecordedIsReady, Recording, Current, TypeOK
    <3> QED BY <3>3, <3>4, <3>6 DEF FenceInv
  <2>6. CASE SnapshotChanges
    BY <2>6, FenceStutter DEF SnapshotChanges
  <2>7. CASE HostDisables
    BY <2>7, FenceStutter DEF HostDisables
  <2>8. ASSUME NEW q \in Queues, NEW l \in PresentLists, QueuePresentKHR(q, l)
        PROVE FenceInv'
    <3>1. /\ l \in Seq(Image)
          /\ \A m, n \in DOMAIN l : l[m][1] = l[n][1] => m = n
      BY PresentListType
    <3>2. AppSems(l) \in SUBSET Semaphore
      BY <3>1, ElemsType, BatchType DEF AppSems
    <3>3. CASE PresentDownChain(q, l, AppSems(l))
      <4>1. UNCHANGED <<handle, where, unwaited, lost, wpc, job>>
        BY <2>8 DEF QueuePresentKHR
      <4>2. \A im \in Image : inFlight'[im] = inFlight[im] /\ fence'[im] = fence[im]
        BY <2>8 DEF QueuePresentKHR
      <4> QED BY <3>1, <3>2, <3>3, <4>1, <4>2, FencePresent
    <3>4. CASE ~(envDisabled \/ overlayFailed \/ q \notin GraphicsQueues)
      <4>1. /\ pc = "idle" /\ pc' = "record" /\ call' = [queue |-> q, list |-> l]
            /\ UNCHANGED <<handle, where, inFlight, fence, unwaited, gpu, lost, recorded, at, wpc, job>>
        BY <2>8, <3>4 DEF QueuePresentKHR
      <4>2. recorded = <<>> /\ at = 1
        BY <4>1 DEF FenceInv, RecordedIsReady
      <4>3. RecordedIsReady'
        BY <3>1, <4>1, <4>2 DEF RecordedIsReady, Recording
      <4>4. FenceHasItsDraw' /\ DrawOwnsItsObjects' /\ OneDraw' /\ LetGo'
        BY <4>1 DEF FenceInv, FenceHasItsDraw, DrawOwnsItsObjects, OneDraw, LetGo, UniqueDraws,
                    Pending, Queued
      <4>5. Exclusive' /\ MovedIsOwned'
        BY <4>1 DEF FenceInv, Exclusive, MovedIsOwned, JobBusy
      <4> QED BY <4>3, <4>4, <4>5 DEF FenceInv
    <3> QED BY <2>8, <3>3, <3>4 DEF QueuePresentKHR
  <2>9. CASE RecordRefused
    <3>1. Forward /\ UNCHANGED <<handle, where, inFlight, fence, unwaited, lost, wpc, job>>
      BY <2>9 DEF RecordRefused
    <3> QED BY <3>1, FenceForwardOnly
  <2>10. CASE RecordBegin
    <3>1. /\ UNCHANGED <<handle, where, inFlight, fence, unwaited, gpu, lost, call, recorded, wpc, job>>
          /\ pc = "record" /\ where[Current[1]] = "map" /\ at <= Len(call.list)
          /\ \/ pc' = "record" /\ at' = at + 1
             \/ pc' \in {"frame", "blank"} /\ at' = at
      BY <2>10 DEF RecordBegin
    <3>2. RecordedIsReady'
      BY <3>1 DEF FenceInv, RecordedIsReady, Recording, Current, FenceWaited, TypeOK
    <3> QED BY <3>1, <3>2 DEF FenceInv, FenceHasItsDraw, DrawOwnsItsObjects, OneDraw, LetGo,
              UniqueDraws, Pending, Queued, Exclusive, MovedIsOwned, JobBusy
  <2>11. CASE BuildFrame
    <3>1. /\ UNCHANGED <<handle, where, inFlight, fence, unwaited, gpu, lost, call, recorded, wpc, job>>
          /\ pc \in {"frame", "blank"}
          /\ \/ pc' = "record" /\ at' = at + 1
             \/ pc' = "fence" /\ at' = at
      BY <2>11 DEF BuildFrame
    <3>2. RecordedIsReady'
      BY <3>1 DEF FenceInv, RecordedIsReady, Recording, Current, FenceWaited, TypeOK
    <3> QED BY <3>1, <3>2 DEF FenceInv, FenceHasItsDraw, DrawOwnsItsObjects, OneDraw, LetGo,
              UniqueDraws, Pending, Queued, Exclusive, MovedIsOwned, JobBusy
  <2>12. CASE RecordDraw
    <3>1. /\ UNCHANGED <<handle, where, inFlight, fence, unwaited, gpu, lost, call, wpc, job>>
          /\ pc = "fence" /\ pc' = "record" /\ at' = at + 1
          /\ FenceWaited(Current) /\ recorded' = Append(recorded, Current)
      BY <2>12 DEF RecordDraw
    <3>2. /\ at <= Len(call.list) /\ at \in DOMAIN call.list /\ where[Current[1]] = "map"
          /\ Current \in Image /\ Current = call.list[at]
      BY <3>1 DEF FenceInv, RecordedIsReady, TypeOK, Current
    <3>3. \A n \in DOMAIN recorded : recorded[n] # Current
      BY <3>1, <3>2, SMTT(30) DEF FenceInv, RecordedIsReady, Recording
    <3> DEFINE k == Len(recorded) + 1
    <3>4. /\ DOMAIN recorded = 1..Len(recorded) /\ Len(recorded) \in Nat
          /\ DOMAIN recorded' = 1..k /\ recorded'[k] = Current
          /\ \A n \in DOMAIN recorded : recorded'[n] = recorded[n]
      BY <3>1, <3>2 DEF TypeOK
    <3>5. \A n \in DOMAIN recorded' : n = k \/ n \in DOMAIN recorded
      BY <3>4
    <3> HIDE DEF k
    <3>6. \A m, n \in DOMAIN recorded' : recorded'[m] = recorded'[n] => m = n
      BY <3>3, <3>4, <3>5 DEF FenceInv, RecordedIsReady
    <3>7. \A n \in DOMAIN recorded' : \E m \in DOMAIN call.list :
             m < at + 1 /\ recorded'[n] = call.list[m]
      <4>1. ASSUME NEW n \in DOMAIN recorded'
            PROVE  \E m \in DOMAIN call.list : m < at + 1 /\ recorded'[n] = call.list[m]
        <5>1. CASE n = k
          BY <3>2, <3>4, <5>1 DEF TypeOK
        <5>2. CASE n \in DOMAIN recorded
          <6>1. PICK m \in DOMAIN call.list : m < at /\ recorded[n] = call.list[m]
            BY <3>1, <5>2 DEF FenceInv, RecordedIsReady, Recording
          <6>2. m < at + 1
            BY <6>1 DEF TypeOK
          <6> QED BY <3>4, <5>2, <6>1, <6>2
        <5> QED BY <3>5, <5>1, <5>2
      <4> QED BY <4>1
    <3>8. \A n \in DOMAIN recorded' :
             where[recorded'[n][1]] = "map" /\ FenceWaited(recorded'[n])
      BY <3>1, <3>2, <3>4, <3>5 DEF FenceInv, RecordedIsReady, Recording
    <3>9. \A im : FenceWaited(im)' <=> FenceWaited(im)
      BY <3>1 DEF FenceWaited
    <3>10. /\ call'.queue \in Queues /\ at' >= 1
           /\ \A m, n \in DOMAIN call'.list : call'.list[m][1] = call'.list[n][1] => m = n
      BY <3>1 DEF FenceInv, RecordedIsReady, TypeOK
    <3>11. RecordedIsReady'
      BY <3>1, <3>6, <3>7, <3>8, <3>9, <3>10 DEF RecordedIsReady, Recording
    <3> QED BY <3>1, <3>11 DEF FenceInv, FenceHasItsDraw, DrawOwnsItsObjects, OneDraw, LetGo,
              UniqueDraws, Pending, Queued, Exclusive, MovedIsOwned, JobBusy
  <2>13. CASE RecordFails
    <3>1. Forward /\ UNCHANGED <<handle, where, inFlight, fence, unwaited, lost, wpc, job>>
      BY <2>13 DEF RecordFails
    <3> QED BY <3>1, FenceForwardOnly
  <2>13a. CASE RecordWaitFails
    <3>1. Forward /\ UNCHANGED <<handle, where, inFlight, fence, unwaited, lost, wpc, job>>
      BY <2>13a DEF RecordWaitFails
    <3> QED BY <3>1, FenceForwardOnly
  <2>14. CASE OverlayThrows
    <3>1. Forward /\ UNCHANGED <<handle, where, inFlight, fence, unwaited, lost, wpc, job>>
      BY <2>14 DEF OverlayThrows
    <3> QED BY <3>1, FenceForwardOnly
  <2>15. CASE EndPhase1
    <3>1. CASE recorded = <<>>
      <4>1. Forward /\ UNCHANGED <<handle, where, inFlight, fence, unwaited, lost, wpc, job>>
        BY <2>15, <3>1 DEF EndPhase1
      <4> QED BY <4>1, FenceForwardOnly
    <3>2. CASE recorded # <<>>
      <4>1. /\ UNCHANGED <<handle, where, inFlight, fence, unwaited, gpu, lost, call, recorded, wpc, job>>
            /\ pc = "record" /\ pc' = "submit" /\ at' = 1
        BY <2>15, <3>2 DEF EndPhase1
      <4>2. RecordedIsReady'
        BY <4>1 DEF FenceInv, RecordedIsReady, Recording, FenceWaited
      <4> QED BY <4>1, <4>2 DEF FenceInv, FenceHasItsDraw, DrawOwnsItsObjects, OneDraw, LetGo,
                UniqueDraws, Pending, Queued, Exclusive, MovedIsOwned, JobBusy
    <3> QED BY <3>1, <3>2
  <2>16. CASE Submit
    <3>0. PICK im, q, ws : im = recorded[at] /\ q = call.queue /\ ws = SubmitWaits
      OBVIOUS
    <3>1. /\ UNCHANGED <<handle, where, unwaited, lost, pc, call, recorded, wpc, job>>
          /\ pc = "submit" /\ at <= Len(recorded) /\ ~lost /\ at' = at + 1
          /\ fence' = [fence EXCEPT ![im] = "unsignaled"]
          /\ inFlight' = [inFlight EXCEPT ![im] = TRUE]
          /\ gpu' = [gpu EXCEPT ![q] = Append(@, Draw(im, ws))]
      BY <2>16, <3>0 DEF Submit
    <3>2. at \in DOMAIN recorded /\ at >= at
      BY <3>1 DEF TypeOK
    <3>3. im \in Image /\ ~Pending(im) /\ where[im[1]] = "map"
      BY <3>0, <3>1, <3>2, RecordedNotPending DEF FenceInv, RecordedIsReady, TypeOK
    <3>4. q \in Queues /\ call.queue \in Queues
      BY <3>0, <3>1 DEF FenceInv, RecordedIsReady
    <3>5. ws \in SUBSET Semaphore
      <4>1. CASE at = 1
        BY <3>0, <4>1, ElemsType, BatchType DEF SubmitWaits, AppSems, TypeOK
      <4>2. CASE at # 1
        <5>1. at - 1 \in DOMAIN recorded
          BY <3>1, <4>2 DEF TypeOK
        <5>2. recorded[at - 1] \in Image
          BY <5>1 DEF TypeOK
        <5> QED BY <3>0, <4>2, <5>2, BatchType DEF SubmitWaits
      <4> QED BY <4>1, <4>2
    <3>6. /\ \A j \in Image : j # im => fence'[j] = fence[j] /\ inFlight'[j] = inFlight[j]
          /\ fence'[im] = "unsignaled" /\ inFlight'[im]
      BY <3>1, <3>3 DEF TypeOK
    <3>7. /\ Queued(im)'
          /\ \A j \in Image : j # im => (Queued(j)' <=> Queued(j))
          /\ UniqueDraws'
      <4>1. ~Queued(im) /\ UniqueDraws
        BY <3>3 DEF FenceInv, OneDraw, Pending
      <4> QED BY <3>1, <3>3, <3>4, <3>5, <4>1, SubmitAddsDraw
    <3>8. \A n \in DOMAIN recorded : n # at => recorded[n] # im
      BY <3>0, <3>2 DEF FenceInv, RecordedIsReady
    <3>9. FenceHasItsDraw' /\ DrawOwnsItsObjects' /\ OneDraw' /\ LetGo'
      <4>0. \A u \in Workers : job[u].new # im[1]
        BY <3>3, PresentAssumption DEF FenceInv, MovedIsOwned, Image
      <4>1. ASSUME NEW j \in Image, j # im
            PROVE  (Pending(j)' <=> Pending(j)) /\ (Queued(j)' <=> Queued(j))
                   /\ fence'[j] = fence[j] /\ inFlight'[j] = inFlight[j]
        BY <3>6, <3>7, <4>1 DEF Pending
      <4>2. Pending(im)'
        BY <3>7 DEF Pending
      <4>3. FenceHasItsDraw'
        BY <3>1, <3>6, <4>1, <4>2 DEF FenceInv, FenceHasItsDraw
      <4>4. DrawOwnsItsObjects'
        BY <3>1, <3>3, <3>6, <4>1 DEF FenceInv, DrawOwnsItsObjects
      <4>5. OneDraw'
        BY <3>1, <3>6, <3>7, <4>1 DEF FenceInv, OneDraw
      <4>6. LetGo'
        BY <3>1, <3>3, <3>6, <4>0, <4>1 DEF FenceInv, LetGo
      <4> QED BY <4>3, <4>4, <4>5, <4>6
    <3>10. Exclusive'
      BY <3>1 DEF FenceInv, Exclusive, JobBusy
    <3>11. MovedIsOwned'
      <4>1. \A w \in Workers : wpc[w] = "free" => where[job[w].victim] = "moved"
        BY DEF FenceInv, MovedIsOwned
      <4> QED BY <3>1, <3>3, <3>6, <4>1 DEF FenceInv, MovedIsOwned
    <3>12. \A n \in DOMAIN recorded : n >= at + 1 =>
              where[recorded[n][1]] = "map" /\ FenceWaited(recorded[n])'
      <4> SUFFICES ASSUME NEW n \in DOMAIN recorded, n >= at + 1
                   PROVE  where[recorded[n][1]] = "map" /\ FenceWaited(recorded[n])'
        OBVIOUS
      <4>1. n # at /\ n >= at /\ recorded[n] \in Image
        BY DEF TypeOK
      <4>2. where[recorded[n][1]] = "map" /\ FenceWaited(recorded[n])
        BY <3>1, <4>1 DEF FenceInv, RecordedIsReady
      <4>3. recorded[n]' = recorded[n]
        BY <3>1
      <4> QED BY <3>1, <3>6, <3>8, <4>1, <4>2, <4>3 DEF FenceWaited
    <3>13. /\ call.queue \in Queues /\ at + 1 >= 1
           /\ \A m, n \in DOMAIN call.list : call.list[m][1] = call.list[n][1] => m = n
           /\ \A m, n \in DOMAIN recorded : recorded[m] = recorded[n] => m = n
      BY <3>4 DEF FenceInv, RecordedIsReady, TypeOK
    <3>14. RecordedIsReady'
      BY <3>1, <3>12, <3>13 DEF RecordedIsReady, Recording, FenceWaited
    <3> QED BY <3>9, <3>10, <3>11, <3>14 DEF FenceInv
  <2>17. ASSUME NEW r \in BOOLEAN, SubmitFails(r) PROVE FenceInv'
    <3> DEFINE im == recorded[at]
    <3>1. /\ UNCHANGED <<handle, where, unwaited, lost, wpc, job>>
          /\ pc = "submit" /\ at <= Len(recorded)
          /\ inFlight' = [inFlight EXCEPT ![im] = FALSE]
          /\ fence' = fence \/ fence' = [fence EXCEPT ![im] = "unsignaled"]
      BY <2>17 DEF SubmitFails
    <3>2. at \in DOMAIN recorded /\ at >= at
      BY <3>1 DEF TypeOK
    <3>3. im \in Image /\ ~Pending(im) /\ where[im[1]] = "map"
      BY <3>1, <3>2, RecordedNotPending DEF FenceInv, RecordedIsReady
    <3> HIDE DEF im
    <3>4. /\ \A j \in Image : j # im => fence'[j] = fence[j] /\ inFlight'[j] = inFlight[j]
          /\ ~inFlight'[im] /\ fence'[im] # "signaling"
      BY <3>1, <3>3 DEF TypeOK, Pending
    <3>5. CASE at = 1
      <4>1. Forward
        BY <2>17, <3>5 DEF SubmitFails
      <4>2. \A j \in Image : \/ inFlight'[j] = inFlight[j] /\ fence'[j] = fence[j]
                             \/ /\ ~inFlight'[j] /\ ~Pending(j) /\ fence'[j] # "signaling"
                                /\ where[j[1]] = "map"
        BY <3>3, <3>4
      <4> QED BY <3>1, <4>1, <4>2, FenceForward
    <3>6. CASE at # 1
      <4>1. pc' = "present" /\ UNCHANGED <<gpu, call, recorded, at>>
        BY <2>17, <3>6 DEF SubmitFails
      <4>2. \A j \in Image : Queued(j)' <=> Queued(j)
        BY <4>1 DEF Queued
      <4>3. FenceHasItsDraw' /\ DrawOwnsItsObjects' /\ OneDraw' /\ LetGo'
        BY <3>1, <3>3, <3>4, <4>1, <4>2 DEF FenceInv, FenceHasItsDraw, DrawOwnsItsObjects,
           OneDraw, LetGo, UniqueDraws, Pending
      <4>4. Exclusive'
        BY <3>1 DEF FenceInv, Exclusive, JobBusy
      <4>5. MovedIsOwned'
        BY <3>1, <3>4 DEF FenceInv, MovedIsOwned
      <4>6. RecordedIsReady'
        BY <3>1, <4>1 DEF FenceInv, RecordedIsReady, Recording
      <4> QED BY <4>3, <4>4, <4>5, <4>6 DEF FenceInv
    <3> QED BY <3>5, <3>6
  <2>18. CASE PresentDrawn
    <3>1. /\ PresentDownChain(call.queue, call.list, {DoneSem(im) : im \in Elems(overlaySems)})
          /\ UNCHANGED <<handle, where, inFlight, fence, unwaited, lost, wpc, job>>
      BY <2>18 DEF PresentDrawn
    <3>2. /\ call.list \in Seq(Image)
          /\ {DoneSem(im) : im \in Elems(overlaySems)} \in SUBSET Semaphore
      BY ElemsType, BatchType DEF TypeOK
    <3>3. \A im \in Image : inFlight'[im] = inFlight[im] /\ fence'[im] = fence[im]
      BY <3>1
    <3>4. UNCHANGED <<handle, where, unwaited, lost, wpc, job>>
      BY <3>1
    <3> QED BY <3>1, <3>2, <3>3, <3>4, FencePresent
  <2>19. ASSUME NEW w \in Workers, MoveOut(w) PROVE FenceInv'
    <3>1. /\ UNCHANGED <<handle, inFlight, fence, unwaited, gpu, lost, pc, call, recorded, at, job>>
          /\ wpc[w] = "retire" /\ pc = "idle"
      BY <2>19 DEF MoveOut, LockFree
    <3>2. RecordedIsReady'
      BY <3>1 DEF FenceInv, RecordedIsReady, Recording
    <3>3. \A u \in Workers : u # w => wpc'[u] = wpc[u]
      BY <2>19 DEF MoveOut, TypeOK
    <3>4. CASE job[w].victim # None /\ where[job[w].victim] = "map"
      <4>1. where' = [where EXCEPT ![job[w].victim] = "moved"] /\ wpc'[w] = "wait"
        BY <2>19, <3>4 DEF MoveOut, TypeOK
      <4>2. job[w].victim \in Swapchains
        BY <3>4 DEF TypeOK
      <4>3. /\ where'[job[w].victim] = "moved"
            /\ \A s \in Swapchains : s # job[w].victim => where'[s] = where[s]
        BY <4>1, <4>2 DEF TypeOK
      <4>4. \A u \in Workers : u # w =>
               /\ job[u].victim # job[w].victim /\ job[u].new # job[w].victim
        BY <3>4 DEF FenceInv, Exclusive, JobBusy
      <4> QED BY <3>1, <3>2, <3>3, <3>4, <4>1, <4>2, <4>3, <4>4, FenceMoved
    <3>5. CASE ~(job[w].victim # None /\ where[job[w].victim] = "map")
      <4>1. where' = where /\ wpc'[w] = AfterRetire(w)
        BY <2>19, <3>5 DEF MoveOut, TypeOK
      <4>2. FenceHasItsDraw' /\ DrawOwnsItsObjects' /\ OneDraw' /\ LetGo'
        BY <3>1, <4>1 DEF FenceInv, FenceHasItsDraw, DrawOwnsItsObjects, OneDraw, LetGo, UniqueDraws,
                    Pending, Queued
      <4>3. Exclusive'
        BY <3>1, <3>3, <4>1 DEF FenceInv, Exclusive, JobBusy, AfterRetire
      <4>4. wpc'[w] = "release" => where[job[w].victim] = "none"
        <5> SUFFICES ASSUME job[w].new = None PROVE where[job[w].victim] = "none"
          BY <4>1 DEF AfterRetire
        <5>1. job[w].victim \in Swapchains
          BY <3>1 DEF FenceInv, Exclusive, TypeOK
        <5>2. where[job[w].victim] # "moved"
          <6> SUFFICES ASSUME where[job[w].victim] = "moved" PROVE FALSE
            OBVIOUS
          <6>1. PICK u \in Workers : wpc[u] \in {"wait", "free"} /\ job[u].victim = job[w].victim
            BY <5>1 DEF FenceInv, MovedIsOwned
          <6>2. u # w
            BY <3>1, <6>1
          <6> QED BY <5>1, <6>1, <6>2, PresentAssumption, ZenonT(60) DEF FenceInv, Exclusive, JobBusy
        <5> QED BY <3>5, <5>1, <5>2, PresentAssumption DEF TypeOK
      <4>5. MovedIsOwned'
        BY <3>1, <3>3, <4>1, <4>4 DEF FenceInv, MovedIsOwned, AfterRetire
      <4> QED BY <3>2, <4>2, <4>3, <4>5 DEF FenceInv
    <3> QED BY <3>4, <3>5
  <2>20. ASSUME NEW w \in Workers, WaitOverlayIdle(w) PROVE FenceInv'
    <3> DEFINE v == job[w].victim
    <3>1. /\ UNCHANGED <<handle, where, fence, unwaited, gpu, lost, pc, call, recorded, at, job>>
          /\ wpc[w] = "wait" /\ wpc'[w] = "free"
          /\ \A u \in Workers : u # w => wpc'[u] = wpc[u]
      BY <2>20 DEF WaitOverlayIdle, TypeOK
    <3>2. /\ \A im \in Image : inFlight'[im] <=> (inFlight[im] /\ im[1] # v)
          /\ \A im \in Image : im[1] = v => FenceWaited(im) \/ lost
      <4>1. \A im \in Image : im[1] = v => im \in ImagesOf(v)
        BY DEF Image, ImagesOf
      <4> QED BY <2>20, <4>1 DEF WaitOverlayIdle
    <3> HIDE DEF v
    <3>3. \A im \in Image : im[1] = v => ~Pending(im) \/ im \in unwaited
      BY <3>2 DEF FenceInv, DrawOwnsItsObjects, OneDraw, FenceWaited, Pending
    <3>4. \A im \in Image : Queued(im)' <=> Queued(im)
      BY <3>1 DEF Queued
    <3>5. FenceHasItsDraw' /\ DrawOwnsItsObjects' /\ OneDraw'
      BY <3>1, <3>2, <3>3, <3>4 DEF FenceInv, FenceHasItsDraw, DrawOwnsItsObjects, OneDraw,
         UniqueDraws, Pending
    <3>5a. LetGo'
      BY <3>1, <3>2, <3>4 DEF FenceInv, LetGo, TypeOK
    <3>6. Exclusive'
      BY <3>1 DEF FenceInv, Exclusive, JobBusy
    <3>7. MovedIsOwned'
      BY <3>1, <3>2 DEF FenceInv, MovedIsOwned, v
    <3>8. \A im \in Image : FenceWaited(im) => FenceWaited(im)'
      BY <3>1, <3>2 DEF FenceWaited
    <3>9. RecordedIsReady'
      BY <3>1, <3>8 DEF FenceInv, RecordedIsReady, Recording, Current, TypeOK
    <3> QED BY <3>5, <3>5a, <3>6, <3>7, <3>9 DEF FenceInv
  <2>20a. ASSUME NEW w \in Workers, WaitOverlayIdleFails(w) PROVE FenceInv'
    <3> DEFINE v == job[w].victim
    <3>1. /\ UNCHANGED <<handle, where, fence, gpu, lost, pc, call, recorded, at, job>>
          /\ wpc[w] = "wait" /\ wpc'[w] = "free"
          /\ \A u \in Workers : u # w => wpc'[u] = wpc[u]
      BY <2>20a DEF WaitOverlayIdleFails, TypeOK
    <3>2. /\ \A im \in Image : inFlight'[im] <=> (inFlight[im] /\ im[1] # v)
          /\ \A im \in Image : im \in unwaited' <=>
                im \in unwaited \/ (im[1] = v /\ ~FenceWaited(im))
          /\ unwaited' \subseteq Image
      BY <2>20a DEF WaitOverlayIdleFails, TypeOK
    <3>2a. where[v] = "moved"
      BY <3>1 DEF FenceInv, MovedIsOwned
    <3> HIDE DEF v
    <3>3. \A im \in Image : im[1] = v /\ Pending(im) => im \in unwaited'
      BY <3>2 DEF FenceInv, DrawOwnsItsObjects, FenceWaited
    <3>4. \A im \in Image : Queued(im)' <=> Queued(im)
      BY <3>1 DEF Queued
    <3>5. LetGo'
      BY <3>1, <3>2, <3>2a, <3>4 DEF FenceInv, LetGo
    <3>6. FenceHasItsDraw' /\ DrawOwnsItsObjects'
      BY <3>1, <3>2, <3>3, <3>4 DEF FenceInv, FenceHasItsDraw, DrawOwnsItsObjects, Pending
    <3>7. OneDraw'
      BY <3>1, <3>2, <3>4 DEF FenceInv, OneDraw, UniqueDraws
    <3>8. Exclusive'
      BY <3>1 DEF FenceInv, Exclusive, JobBusy
    <3>9. MovedIsOwned'
      BY <3>1, <3>2 DEF FenceInv, MovedIsOwned, v
    <3>10. \A im \in Image : FenceWaited(im) => FenceWaited(im)'
      BY <3>1, <3>2 DEF FenceWaited
    <3>11. RecordedIsReady'
      BY <3>1, <3>10 DEF FenceInv, RecordedIsReady, Recording, Current, TypeOK
    <3> QED BY <3>5, <3>6, <3>7, <3>8, <3>9, <3>11 DEF FenceInv
  <2>21. ASSUME NEW w \in Workers, DestroyState(w) PROVE FenceInv'
    <3> DEFINE v == job[w].victim
    <3>1. /\ UNCHANGED <<handle, inFlight, gpu, unwaited, lost, pc, call, recorded, at, job>>
          /\ wpc[w] = "free" /\ wpc'[w] = AfterRetire(w)
          /\ \A u \in Workers : u # w => wpc'[u] = wpc[u]
      BY <2>21 DEF DestroyState, TypeOK
    <3>2. v \in Swapchains /\ where[v] = "moved"
      BY <3>1 DEF FenceInv, Exclusive, MovedIsOwned, TypeOK
    <3>3. /\ where'[v] = "none" /\ \A s \in Swapchains : s # v => where'[s] = where[s]
          /\ \A im \in Image : im[1] = v => fence'[im] = "absent"
          /\ \A im \in Image : im[1] # v => fence'[im] = fence[im]
      BY <2>21, <3>2 DEF DestroyState, TypeOK
    <3>4. \A u \in Workers : u # w => job[u].victim # v /\ job[u].new # v
      BY <3>2, PresentAssumption DEF FenceInv, Exclusive, JobBusy
    <3>5. job[w].new # v
      BY <3>2, PresentAssumption DEF FenceInv, Exclusive
    <3>6. \A im \in Image : im[1] = v => ~inFlight[im] /\ (Pending(im) => im \in unwaited)
      BY <3>1 DEF FenceInv, MovedIsOwned, DrawOwnsItsObjects
    <3> HIDE DEF v
    <3>7. \A im \in Image : (Queued(im)' <=> Queued(im)) /\ im[1] \in Swapchains
      BY <3>1 DEF Queued, Image
    <3>8. FenceHasItsDraw' /\ DrawOwnsItsObjects'
      BY <3>1, <3>3, <3>6, <3>7 DEF FenceInv, FenceHasItsDraw, DrawOwnsItsObjects, Pending
    <3>8a. OneDraw'
      BY <3>1, <3>3, <3>6, <3>7 DEF FenceInv, OneDraw, UniqueDraws, Pending
    <3>8b. LetGo'
      BY <3>1, <3>2, <3>3, <3>7 DEF FenceInv, LetGo, TypeOK
    <3>9. Exclusive'
      BY <3>1, <3>2 DEF FenceInv, Exclusive, JobBusy, AfterRetire, v
    <3>10. \A s \in Swapchains : where'[s] = "moved" => \E u \in Workers :
              wpc'[u] \in {"wait", "free"} /\ job[u].victim = s
      BY <3>1, <3>3 DEF FenceInv, MovedIsOwned, v
    <3>11. \A s \in Swapchains : handle[s] = "none" => where'[s] = "none"
      BY <3>3 DEF FenceInv, MovedIsOwned
    <3>12. \A im \in Image : where'[im[1]] = "none" => ~inFlight[im]
      BY <3>3, <3>6, <3>7 DEF FenceInv, MovedIsOwned
    <3>13. \A u \in Workers :
              /\ wpc'[u] \in {"wait", "free"} => where'[job[u].victim] = "moved"
              /\ wpc'[u] = "release" => where'[job[u].victim] = "none"
              /\ job[u].new # None => where'[job[u].new] = "none" /\ handle[job[u].new] = "live"
              /\ wpc'[u] = "free" => \A im \in Image : im[1] = job[u].victim => ~inFlight[im]
      <4>1. \A u \in Workers : job[u].new # None => job[u].new \in Swapchains
        BY DEF TypeOK
      <4>2. \A u \in Workers : wpc[u] \in {"wait", "free", "release"} => job[u].victim \in Swapchains
        BY DEF FenceInv, Exclusive, TypeOK
      <4>3. ASSUME NEW u \in Workers, u # w
            PROVE  /\ wpc'[u] \in {"wait", "free"} => where'[job[u].victim] = "moved"
                   /\ wpc'[u] = "release" => where'[job[u].victim] = "none"
                   /\ job[u].new # None =>
                         where'[job[u].new] = "none" /\ handle[job[u].new] = "live"
                   /\ wpc'[u] = "free" =>
                         \A im \in Image : im[1] = job[u].victim => ~inFlight[im]
        BY <3>1, <3>3, <3>4, <4>1, <4>2, <4>3 DEF FenceInv, MovedIsOwned
      <4>4. /\ wpc'[w] = "release" => where'[job[w].victim] = "none"
            /\ job[w].new # None =>
                  where'[job[w].new] = "none" /\ handle[job[w].new] = "live"
            /\ wpc'[w] \notin {"wait", "free"}
        BY <3>1, <3>3, <3>5, <4>1 DEF FenceInv, MovedIsOwned, AfterRetire, v
      <4> QED BY <4>3, <4>4
    <3>14. MovedIsOwned'
      BY <3>1, <3>10, <3>11, <3>12, <3>13 DEF MovedIsOwned
    <3>15. \A im \in Image : im[1] # v /\ FenceWaited(im) => FenceWaited(im)'
      BY <3>1, <3>3 DEF FenceWaited
    <3>16. \A im \in Image : where[im[1]] = "map" =>
              where'[im[1]] = "map" /\ (FenceWaited(im) => FenceWaited(im)')
      BY <3>2, <3>3, <3>7, <3>15
    <3>17. RecordedIsReady'
      BY <3>1, <3>16 DEF FenceInv, RecordedIsReady, Recording, Current, TypeOK
    <3> QED BY <3>8, <3>8a, <3>8b, <3>9, <3>14, <3>17 DEF FenceInv
  <2>22. ASSUME NEW w \in Workers, BuildState(w) PROVE FenceInv'
    <3>0. PICK s : s = job[w].new
      OBVIOUS
    <3>1. /\ UNCHANGED <<handle, inFlight, gpu, lost, pc, call, recorded, at>>
          /\ wpc[w] = "build" /\ wpc'[w] = "idle" /\ job'[w] = NoJob
          /\ \A u \in Workers : u # w => wpc'[u] = wpc[u] /\ job'[u] = job[u]
      BY <2>22 DEF BuildState, Return, StoreState, TypeOK
    <3>2. s \in Swapchains /\ where[s] = "none" /\ handle[s] = "live"
      BY <3>0, <3>1 DEF FenceInv, Exclusive, MovedIsOwned, TypeOK
    <3>3. \A u \in Workers : u # w => job[u].victim # s /\ job[u].new # s
      <4>1. s # None /\ s \in JobBusy(w)
        BY <3>0, <3>2, PresentAssumption DEF JobBusy
      <4>2. ASSUME NEW u \in Workers, u # w PROVE s \notin JobBusy(u)
        <5>1. JobBusy(u) \cap JobBusy(w) \subseteq {None}
          BY <4>2 DEF FenceInv, Exclusive
        <5> QED BY <4>1, <5>1
      <4> QED BY <4>2 DEF JobBusy
    <3>4. Exclusive'
      BY <3>1, WorkerReturns DEF FenceInv
    <3>4a. \A u \in Workers, im \in Image : job'[u].new = im[1] => job[u].new = im[1]
      BY <3>1, PresentAssumption DEF NoJob, Image
    <3>5. CASE UNCHANGED <<where, fence, unwaited>>
      <4>1. FenceHasItsDraw' /\ DrawOwnsItsObjects' /\ OneDraw' /\ LetGo'
        BY <3>1, <3>4a, <3>5 DEF FenceInv, FenceHasItsDraw, DrawOwnsItsObjects, OneDraw, LetGo,
                    UniqueDraws, Pending, Queued
      <4>2. MovedIsOwned'
        BY <3>1, <3>5 DEF FenceInv, MovedIsOwned, NoJob
      <4>3. RecordedIsReady'
        BY <3>1, <3>5 DEF FenceInv, RecordedIsReady, Recording, Current, FenceWaited
      <4> QED BY <3>4, <4>1, <4>2, <4>3 DEF FenceInv
    <3>6. CASE pc = "idle" /\ \E built \in BOOLEAN : StoreState(s, built)
      <4>1. /\ where'[s] = "map" /\ \A r \in Swapchains : r # s => where'[r] = where[r]
            /\ \A im \in Image : im[1] # s => fence'[im] = fence[im]
            /\ \A im \in Image : im[1] = s => fence'[im] # "signaling"
        BY <3>2, <3>6 DEF StoreState, TypeOK
      <4>1a. \A im \in Image : im \in unwaited' <=> im \in unwaited /\ im[1] # s
        <5>1. \A im \in Image : im \in ImagesOf(s) <=> im[1] = s
          BY DEF Image, ImagesOf
        <5> QED BY <3>6, <5>1 DEF StoreState
      <4>1b. unwaited' \subseteq Image
        BY <3>6 DEF StoreState, TypeOK
      <4>2. \A im \in Image : im[1] = s => ~inFlight[im] /\ ~Pending(im)
        BY <3>0, <3>1, <3>2 DEF FenceInv, MovedIsOwned, LetGo, Pending
      <4>3. \A im \in Image : (Queued(im)' <=> Queued(im)) /\ im[1] \in Swapchains
        BY <3>1 DEF Queued, Image
      <4>4. FenceHasItsDraw' /\ DrawOwnsItsObjects' /\ OneDraw' /\ LetGo'
        BY <3>1, <4>1, <4>1a, <4>1b, <4>2, <4>3, <3>4a
           DEF FenceInv, FenceHasItsDraw, DrawOwnsItsObjects, OneDraw, LetGo,
           UniqueDraws, Pending
      <4>5. /\ \A u \in Workers : job[u].new # None => job[u].new \in Swapchains
            /\ \A u \in Workers : wpc[u] \in {"wait", "free", "release"} => job[u].victim \in Swapchains
        BY DEF FenceInv, Exclusive, TypeOK
      <4>6. ASSUME NEW r \in Swapchains, where'[r] = "moved"
            PROVE  \E u \in Workers : wpc'[u] \in {"wait", "free"} /\ job'[u].victim = r
        <5>1. PICK u \in Workers : wpc[u] \in {"wait", "free"} /\ job[u].victim = r
          BY <4>1, <4>6 DEF FenceInv, MovedIsOwned
        <5> QED BY <3>1, <5>1
      <4>7. /\ \A r \in Swapchains : handle[r] = "none" => where'[r] = "none"
            /\ \A im \in Image : where'[im[1]] = "none" => ~inFlight[im]
        BY <3>2, <4>1, <4>3 DEF FenceInv, MovedIsOwned
      <4>8. ASSUME NEW u \in Workers
            PROVE  /\ wpc'[u] \in {"wait", "free"} => where'[job'[u].victim] = "moved"
                   /\ wpc'[u] = "release" => where'[job'[u].victim] = "none"
                   /\ job'[u].new # None =>
                         where'[job'[u].new] = "none" /\ handle[job'[u].new] = "live"
                   /\ wpc'[u] = "free" =>
                         \A im \in Image : im[1] = job'[u].victim => ~inFlight[im]
        <5>1. CASE u = w
          BY <3>1, <5>1 DEF NoJob
        <5>2. CASE u # w
          BY <3>1, <3>3, <4>1, <4>5, <5>2 DEF FenceInv, MovedIsOwned
        <5> QED BY <5>1, <5>2
      <4>9. MovedIsOwned'
        BY <3>1, <4>6, <4>7, <4>8 DEF MovedIsOwned
      <4>10. RecordedIsReady'
        BY <3>1, <3>6 DEF FenceInv, RecordedIsReady, Recording
      <4> QED BY <3>4, <4>4, <4>9, <4>10 DEF FenceInv
    <3> QED BY <2>22, <3>0, <3>5, <3>6 DEF BuildState, LockFree
  <2>23. ASSUME NEW w \in Workers, Release(w) PROVE FenceInv'
    <3>0. PICK v : v = job[w].victim
      OBVIOUS
    <3>1. /\ UNCHANGED <<where, inFlight, fence, unwaited, gpu, lost, pc, call, recorded, at>>
          /\ wpc[w] = "release" /\ wpc'[w] = "idle" /\ job'[w] = NoJob
          /\ \A u \in Workers : u # w => wpc'[u] = wpc[u] /\ job'[u] = job[u]
          /\ handle' = [handle EXCEPT ![v] = "none"]
      BY <2>23, <3>0 DEF Release, Return, TypeOK
    <3>2. v \in Swapchains /\ where[v] = "none"
      BY <3>0, <3>1 DEF FenceInv, Exclusive, MovedIsOwned, TypeOK
    <3>3. \A u \in Workers : u # w => job[u].new # v
      BY <3>0, <3>2, PresentAssumption DEF FenceInv, Exclusive, JobBusy
    <3>3a. \A u \in Workers, im \in Image : job'[u].new = im[1] => job[u].new = im[1]
      BY <3>1, PresentAssumption DEF NoJob, Image
    <3>4. FenceHasItsDraw' /\ DrawOwnsItsObjects' /\ OneDraw' /\ LetGo'
      BY <3>1, <3>3a DEF FenceInv, FenceHasItsDraw, DrawOwnsItsObjects, OneDraw, LetGo, UniqueDraws,
                  Pending, Queued
    <3>5. Exclusive'
      BY <3>1, WorkerReturns DEF FenceInv
    <3>6. \A r \in Swapchains : r # v => handle'[r] = handle[r]
      BY <3>1 DEF TypeOK
    <3>7. \A u \in Workers : job[u].new # None => job[u].new \in Swapchains
      BY DEF TypeOK
    <3>8. MovedIsOwned'
      BY <3>1, <3>2, <3>3, <3>6, <3>7 DEF FenceInv, MovedIsOwned, NoJob
    <3>9. RecordedIsReady'
      BY <3>1 DEF FenceInv, RecordedIsReady, Recording, Current, FenceWaited
    <3> QED BY <3>4, <3>5, <3>8, <3>9 DEF FenceInv
  <2>24. ASSUME NEW w \in Workers, NEW s \in Swapchains,
                NEW old \in Swapchains \cup {None}, CreateSwapchainKHR(w, s, old)
         PROVE FenceInv'
    <3>1. /\ UNCHANGED <<where, inFlight, fence, unwaited, gpu, lost, pc, call, recorded, at>>
          /\ wpc[w] = "idle" /\ job[w] = NoJob
          /\ handle[s] = "none" /\ where[s] = "none" /\ s # old /\ s # None
          /\ \A r \in Swapchains : r # s /\ r # old => handle'[r] = handle[r]
          /\ handle'[s] \in {"none", "live"}
          /\ old # None => handle'[old] = "retired"
      BY <2>24, PresentAssumption DEF CreateSwapchainKHR, FenceInv, MovedIsOwned, Exclusive, TypeOK
    <3>2. \A u \in Workers : /\ job[u].new # s /\ job[u].victim # s
                             /\ old # None => job[u].new # old /\ job[u].victim # old
      BY <2>24 DEF CreateSwapchainKHR, Busy, JobBusy
    <3>2a. \A u \in Workers, im \in Image :
              job'[u].new = im[1] => job[u].new = im[1] \/ ~Queued(im)
      <4>1. \A im \in Image : im[1] = s => ~Queued(im)
        BY <2>24 DEF CreateSwapchainKHR, Fresh, Batches, Elems, Queued
      <4>2. \A u \in Workers : job'[u] = job[u] \/ job'[u].new = s
        BY <2>24 DEF CreateSwapchainKHR, TypeOK
      <4> QED BY <4>1, <4>2
    <3>3. FenceHasItsDraw' /\ DrawOwnsItsObjects' /\ OneDraw' /\ LetGo'
      BY <3>1, <3>2a DEF FenceInv, FenceHasItsDraw, DrawOwnsItsObjects, OneDraw, LetGo,
                  UniqueDraws, Pending, Queued
    <3>4. RecordedIsReady'
      BY <3>1 DEF FenceInv, RecordedIsReady, Recording, Current, FenceWaited
    <3>5. \A u \in Workers : job[u].new # None =>
             handle'[job[u].new] = "live" /\ job[u].new \in Swapchains
      BY <3>1, <3>2 DEF FenceInv, MovedIsOwned, TypeOK
    <3>6. \A r \in Swapchains : handle'[r] = "none" => where[r] = "none"
      BY <3>1, PresentAssumption DEF FenceInv, MovedIsOwned
    <3>7. CASE UNCHANGED workerVars
      <4>1. Exclusive'
        BY <3>7 DEF FenceInv, Exclusive, JobBusy
      <4>2. MovedIsOwned'
        BY <3>1, <3>5, <3>6, <3>7 DEF FenceInv, MovedIsOwned
      <4> QED BY <3>3, <3>4, <4>1, <4>2 DEF FenceInv
    <3>8. CASE ~UNCHANGED workerVars
      <4>1. /\ handle'[s] = "live" /\ wpc'[w] = "retire"
            /\ job'[w].new = s /\ job'[w].victim = old
            /\ \A u \in Workers : u # w => wpc'[u] = wpc[u] /\ job'[u] = job[u]
        <5>1. PICK c \in BOOLEAN :
                 job' = [job EXCEPT ![w] = [new |-> s, victim |-> old, capable |-> c]]
          BY <2>24, <3>8 DEF CreateSwapchainKHR
        <5> QED BY <2>24, <3>8, <5>1 DEF CreateSwapchainKHR, TypeOK
      <4>2. Exclusive'
        BY <3>1, <3>2, <4>1 DEF FenceInv, Exclusive, JobBusy
      <4>3. MovedIsOwned'
        BY <3>1, <3>5, <3>6, <4>1 DEF FenceInv, MovedIsOwned
      <4> QED BY <3>3, <3>4, <4>2, <4>3 DEF FenceInv
    <3> QED BY <3>7, <3>8
  <2>25. ASSUME NEW w \in Workers, NEW s \in Swapchains, DestroySwapchainKHR(w, s)
         PROVE FenceInv'
    <3>1. /\ UNCHANGED <<handle, where, inFlight, fence, unwaited, gpu, lost, pc, call, recorded, at>>
          /\ wpc[w] = "idle" /\ wpc'[w] = "retire"
          /\ job'[w].new = None /\ job'[w].victim = s /\ s # None
          /\ \A u \in Workers : u # w => wpc'[u] = wpc[u] /\ job'[u] = job[u]
      BY <2>25, PresentAssumption DEF DestroySwapchainKHR, TypeOK
    <3>2. \A u \in Workers : job[u].new # s /\ job[u].victim # s
      BY <2>25 DEF DestroySwapchainKHR, Busy, JobBusy
    <3>2a. \A u \in Workers, im \in Image : job'[u].new = im[1] => job[u].new = im[1]
      BY <3>1, PresentAssumption DEF Image
    <3>3. FenceHasItsDraw' /\ DrawOwnsItsObjects' /\ OneDraw' /\ LetGo'
      BY <3>1, <3>2a DEF FenceInv, FenceHasItsDraw, DrawOwnsItsObjects, OneDraw, LetGo, UniqueDraws,
                  Pending, Queued
    <3>4. RecordedIsReady'
      BY <3>1 DEF FenceInv, RecordedIsReady, Recording, Current, FenceWaited
    <3>5. Exclusive'
      BY <3>1, <3>2 DEF FenceInv, Exclusive, JobBusy
    <3>6. MovedIsOwned'
      BY <3>1 DEF FenceInv, MovedIsOwned
    <3> QED BY <3>3, <3>4, <3>5, <3>6 DEF FenceInv
  <2>26. CASE UNCHANGED vars
    BY <2>26, FenceStutter DEF vars
  <2> QED
    BY <2>1, <2>2, <2>3, <2>4, <2>5, <2>6, <2>7, <2>8, <2>9, <2>10, <2>11, <2>12,
       <2>13, <2>13a, <2>14, <2>15, <2>16, <2>17, <2>18, <2>19, <2>20, <2>20a, <2>21,
       <2>22, <2>23, <2>24, <2>25, <2>26 DEF Next, PresenterStep, WorkerStep
<1> QED BY <1>1, <1>2

-----------------------------------------------------------------------------
(* The theorems about the fences *)

(* The fence invariant holds in every reachable state, for any number of    *)
(* swapchains, images, queues and worker threads.                           *)
THEOREM FenceInvariant == Spec => []FenceInv
BY FenceInvInductive, TypeCorrect, PTL DEF Spec

(* A fence counted as in flight has signaled or has a queued draw behind    *)
(* it: the UINT64_MAX waits of record_one and wait_overlay_idle never wait  *)
(* for a fence that was reset and not submitted.  That the queue gets to    *)
(* the draw is not said here: see KnownJams.                                *)
THEOREM FenceWaitsEnd == Spec => []FenceHasItsDraw
<1>1. FenceInv => FenceHasItsDraw
  BY DEF FenceInv
<1> QED BY <1>1, FenceInvariant, PTL

(* What the GPU may still use is flagged in flight and not destroyed, save  *)
(* the objects of an image whose fence wait returned an error on a device   *)
(* that is not lost: destroy_state goes on whatever wait_overlay_idle met.  *)
THEOREM DrawsOwnObjects == Spec => []DrawOwnsItsObjects
<1>1. FenceInv => DrawOwnsItsObjects
  BY DEF FenceInv
<1> QED BY <1>1, FenceInvariant, PTL

(* record_one never re-records a command buffer the GPU still reads.        *)
THEOREM NoRerecord == Spec => []NeverRerecordInFlight
<1>1. TypeOK /\ FenceInv => NeverRerecordInFlight
  BY RecordedNotPending DEF NeverRerecordInFlight, Recording
<1> QED BY <1>1, FenceInvariant, TypeCorrect, PTL

-----------------------------------------------------------------------------
(* The inductive invariant of the semaphores *)

(* The n-th entry of queue q waits the application's semaphore of im, ... *)
WaitsApp(q, n, im) == n \in DOMAIN gpu[q] /\ AppSem(im) \in gpu[q][n].waits

(* ... or shows im. *)
Shows(q, n, im) ==
    n \in DOMAIN gpu[q] /\ gpu[q][n].op = "present" /\ im \in gpu[q][n].imgs

(* The first submit of the present in progress waits the application's      *)
(* semaphores: the others, and the present itself, no longer do.            *)
Consumed(im) ==
    im \in Elems(call.list) /\ (pc = "present" \/ (pc = "submit" /\ at > 1))

(* The images of a present in progress are its own. *)
CallOwnsImages ==
    /\ pc = "idle" => call = NoCall
    /\ \A im \in Elems(call.list) : image[im] = "acquired"
    /\ \A im \in Elems(call.list), w \in Workers : im[1] \notin JobBusy(w)
    /\ \A im \in Image : handle[im[1]] = "none" => image[im] = "free"
    /\ lost => \A q \in Queues : gpu[q] = <<>>

(* What has been submitted in this call is the recorded images, in order. *)
SubmittedInOrder ==
    /\ Elems(recorded) \subseteq Elems(call.list)
    /\ pc = "submit" => recorded # <<>>
    /\ pc \notin {"submit", "present"} => overlaySems = <<>>
    /\ pc = "submit" => \A im \in Elems(overlaySems) :
                           \E m \in DOMAIN recorded : m < at /\ im = recorded[m]
    /\ Elems(overlaySems) \subseteq Elems(call.list)
    /\ pc = "present" \/ (pc = "submit" /\ at > 1) => overlaySems # <<>>

(* An image is shown once, before it can be acquired again. *)
ShownOnce ==
    /\ \A im \in Image, q \in Queues : \A n \in DOMAIN gpu[q] :
          Shows(q, n, im) /\ handle[im[1]] # "none" => image[im] = "queued"
    /\ \A im \in Image, q1, q2 \in Queues : \A n1 \in DOMAIN gpu[q1], n2 \in DOMAIN gpu[q2] :
          Shows(q1, n1, im) /\ Shows(q2, n2, im) => q1 = q2 /\ n1 = n2

(* The application's semaphore is waited once, by what shows its image or   *)
(* by a draw ahead of that in the same queue (unless the driver refused the *)
(* present that draw belonged to), ...                                      *)
AppWaited ==
    /\ \A im \in Image \ dropped : WaitedOnce(AppSem(im))
    /\ \A im \in Image \ dropped, q \in Queues :
          \A n \in DOMAIN gpu[q] : WaitsApp(q, n, im) =>
             /\ appDone[im] # "idle"
             /\ \/ \E m \in DOMAIN gpu[q] : n <= m /\ Shows(q, m, im)
                \/ Consumed(im) /\ q = call.queue
    /\ \A im \in Image \ dropped :
          image[im] = "acquired" /\ ~Consumed(im) => appDone[im] # "idle"

(* ... and an image is not shown without it. *)
ShownAfterWait ==
    /\ \A im \in Image, q \in Queues : \A n \in DOMAIN gpu[q] : Shows(q, n, im) =>
          appDone[im] = "idle" \/ \E m \in DOMAIN gpu[q] : m <= n /\ WaitsApp(q, m, im)
    /\ \A im \in Image : Consumed(im) =>
          lost \/ appDone[im] = "idle" \/ \E m \in DOMAIN gpu[call.queue] : WaitsApp(call.queue, m, im)

(* A draw's overlay_done is waited by the present of its image, which is    *)
(* queued or still to come in this call, unless the swapchain is going.     *)
Awaited(im) ==
    \/ lost \/ where[im[1]] # "map" \/ im \in Elems(overlaySems)
    \/ \E q \in Queues : \E n \in DOMAIN gpu[q] :
          Shows(q, n, im) /\ DoneSem(im) \in gpu[q][n].waits

DoneAwaited ==
    /\ \A im \in Image \ dropped : Queued(im) => ~overlayDone[im]
    /\ \A im \in Image \ dropped : Queued(im) \/ overlayDone[im] => Awaited(im)

SemInv ==
    CallOwnsImages /\ SubmittedInOrder /\ ShownOnce /\ AppWaited /\ ShownAfterWait /\ DoneAwaited

-----------------------------------------------------------------------------
(* The queues, entry by entry *)

(* Semaphores of different images, or of different kinds, differ. *)
LEMMA SemaphoresDiffer ==
    \A im, j : /\ AppSem(im) = AppSem(j) => im = j
               /\ DoneSem(im) = DoneSem(j) => im = j
               /\ AppSem(im) # DoneSem(j)
BY DEF AppSem, DoneSem

(* A submitted batch is one new entry k, behind those of its queue. *)
LEMMA Enqueued ==
    ASSUME TypeOK, NEW q \in Queues, NEW b \in Batch,
           gpu' = [gpu EXCEPT ![q] = Append(@, b)]
    PROVE  \E k \in Nat :
             /\ k \in DOMAIN gpu'[q] /\ gpu'[q][k] = b /\ k \notin DOMAIN gpu[q]
             /\ \A n \in DOMAIN gpu[q] : n <= k
             /\ \A r \in Queues : \A n \in DOMAIN gpu[r] :
                   n \in DOMAIN gpu'[r] /\ gpu'[r][n] = gpu[r][n]
             /\ \A r \in Queues : \A n \in DOMAIN gpu'[r] :
                   n \in DOMAIN gpu[r] \/ (r = q /\ n = k)
<1> DEFINE k == Len(gpu[q]) + 1
<1>1. /\ \A r \in Queues : r # q => gpu'[r] = gpu[r]
      /\ gpu'[q] = Append(gpu[q], b) /\ gpu[q] \in Seq(Batch)
  BY DEF TypeOK
<1>2. /\ DOMAIN gpu[q] = 1..Len(gpu[q]) /\ Len(gpu[q]) \in Nat
      /\ DOMAIN gpu'[q] = 1..k /\ gpu'[q][k] = b
      /\ \A n \in DOMAIN gpu[q] : n \in DOMAIN gpu'[q] /\ gpu'[q][n] = gpu[q][n]
  BY <1>1
<1>3. k \in Nat /\ k \in DOMAIN gpu'[q] /\ k \notin DOMAIN gpu[q]
  BY <1>2
<1>4. \A n \in DOMAIN gpu[q] : n <= k
  BY <1>2
<1>5. \A n \in DOMAIN gpu'[q] : n \in DOMAIN gpu[q] \/ n = k
  BY <1>2
<1> HIDE DEF k
<1> QED BY <1>1, <1>2, <1>3, <1>4, <1>5

(* An executed batch is the first entry; the others move up by one. *)
LEMMA Dequeued ==
    ASSUME TypeOK, NEW q \in Queues, gpu[q] # <<>>,
           gpu' = [gpu EXCEPT ![q] = Tail(@)]
    PROVE  /\ \A r \in Queues : r # q => gpu'[r] = gpu[r]
           /\ \A r \in Queues : DOMAIN gpu[r] \subseteq Nat
           /\ 1 \in DOMAIN gpu[q] /\ gpu[q][1] = Head(gpu[q]) /\ Head(gpu[q]) \in Batch
           /\ \A n \in DOMAIN gpu[q] : n >= 1
           /\ \A n \in DOMAIN gpu'[q] :
                 n \in Nat /\ n + 1 \in DOMAIN gpu[q] /\ n + 1 # 1
                 /\ gpu'[q][n] = gpu[q][n + 1]
           /\ \A n \in DOMAIN gpu[q] : n # 1 =>
                 n - 1 \in DOMAIN gpu'[q] /\ gpu'[q][n - 1] = gpu[q][n]
<1>1. /\ \A r \in Queues : r # q => gpu'[r] = gpu[r]
      /\ gpu'[q] = Tail(gpu[q]) /\ gpu[q] \in Seq(Batch)
  BY DEF TypeOK
<1>2. Len(gpu[q]) \in Nat \ {0} /\ DOMAIN gpu[q] = 1..Len(gpu[q])
  BY <1>1, EmptySeq
<1>3. /\ Len(gpu'[q]) = Len(gpu[q]) - 1 /\ gpu'[q] \in Seq(Batch)
      /\ \A n \in 1..Len(gpu'[q]) : gpu'[q][n] = gpu[q][n + 1]
  <2>1. \A s \in Seq(Batch) : s # <<>> =>
           /\ Tail(s) \in Seq(Batch) /\ Len(Tail(s)) = Len(s) - 1
           /\ \A n \in 1..Len(Tail(s)) : Tail(s)[n] = s[n + 1]
    BY HeadTailProperties, Zenon
  <2>2. gpu'[q] = Tail(gpu[q]) /\ gpu[q] \in Seq(Batch) /\ gpu[q] # <<>>
    BY <1>1
  <2> QED BY <2>1, <2>2, Zenon
<1>4. DOMAIN gpu'[q] = 1..(Len(gpu[q]) - 1)
  BY <1>3
<1>5. gpu[q][1] = Head(gpu[q]) /\ Head(gpu[q]) \in Batch /\ 1 \in DOMAIN gpu[q]
  BY <1>1, <1>2
<1>6. \A r \in Queues : DOMAIN gpu[r] \subseteq Nat
  <2>1. \A r \in Queues : gpu[r] \in Seq(Batch)
    BY DEF TypeOK
  <2> QED BY <2>1
<1>7. \A n \in DOMAIN gpu'[q] :
         n \in Nat /\ n + 1 \in DOMAIN gpu[q] /\ n + 1 # 1 /\ gpu'[q][n] = gpu[q][n + 1]
  BY <1>2, <1>3, <1>4
<1>8. ASSUME NEW n \in DOMAIN gpu[q], n # 1
      PROVE  n - 1 \in DOMAIN gpu'[q] /\ gpu'[q][n - 1] = gpu[q][n]
  <2>1. n - 1 \in DOMAIN gpu'[q] /\ (n - 1) + 1 = n
    BY <1>2, <1>4, <1>8
  <2> QED BY <1>7, <2>1
<1>9. \A n \in DOMAIN gpu[q] : n >= 1
  BY <1>2
<1> QED BY <1>1, <1>5, <1>6, <1>7, <1>8, <1>9

(* A lost device has nothing queued. *)
LEMMA LostIsEmpty ==
    ASSUME CallOwnsImages, lost
    PROVE  /\ \A q \in Queues : DOMAIN gpu[q] = {}
           /\ \A im \in Image : ~Queued(im)
<1>1. \A q \in Queues : gpu[q] = <<>>
  BY DEF CallOwnsImages
<1>2. \A q \in Queues : DOMAIN gpu[q] = {}
  BY <1>1
<1> QED BY <1>2 DEF Queued

-----------------------------------------------------------------------------
(* The semaphore invariant is inductive *)

(* A present the driver accepts, once for the images of its list. *)
LEMMA SemAccepted ==
    ASSUME TypeOK, FenceInv, SemInv, NEW q \in Queues, NEW list \in Seq(Image),
           NEW waits \in SUBSET Semaphore,
           gpu' = IF lost THEN gpu
                          ELSE [gpu EXCEPT ![q] = Append(@, Present(Elems(list), waits))],
           image' = [im \in Image |-> IF im \in Elems(list) THEN "queued" ELSE image[im]],
           pc' = "idle", call' = NoCall, recorded' = <<>>, at' = 1, overlaySems' = <<>>,
           UNCHANGED <<dropped, handle, appDone, overlayDone, lost, where, wpc, job>>,
           \A im \in Elems(list) : image[im] = "acquired",
           \A im \in Elems(call.list) : im \in Elems(list),
           \A im \in Image : Consumed(im) => q = call.queue,
           \A im \in Image : AppSem(im) \in waits => im \in Elems(list) /\ ~Consumed(im),
           \A im \in Elems(list) :
              AppSem(im) \in waits \/ lost \/ appDone[im] = "idle"
              \/ \E m \in DOMAIN gpu[q] : WaitsApp(q, m, im),
           \A im \in Elems(overlaySems) : im \in Elems(list) /\ DoneSem(im) \in waits
    PROVE  SemInv'
<1>0. /\ pc' = "idle" /\ call' = NoCall /\ recorded' = <<>> /\ at' = 1 /\ overlaySems' = <<>>
      /\ \A im \in Image : im \in Elems(list) => image'[im] = "queued"
      /\ \A im \in Image : im \notin Elems(list) => image'[im] = image[im]
      /\ Elems(<<>>) = {} /\ Elems(NoCall.list) = {}
  BY DEF Elems, NoCall
<1>1. \A im \in Image : ~Consumed(im)'
  BY <1>0 DEF Consumed
<1>2. \A im \in Elems(list) : im \in Image /\ handle[im[1]] # "none"
  BY ElemsType DEF SemInv, CallOwnsImages
<1>3. CallOwnsImages'
  BY <1>0, <1>2 DEF SemInv, CallOwnsImages
<1>4. SubmittedInOrder'
  BY <1>0 DEF SubmittedInOrder
<1>5. \A im \in Image \ dropped : image'[im] = "acquired" =>
         image[im] = "acquired" /\ appDone'[im] # "idle"
  <2>1. \A im \in Image : Consumed(im) => im \in Elems(list)
    BY DEF Consumed
  <2> QED BY <1>0, <2>1 DEF SemInv, AppWaited
<1>6. CASE lost
  <2>1. /\ \A r \in Queues : DOMAIN gpu'[r] = {}
        /\ \A im \in Image : ~Queued(im)' /\ Awaited(im)'
    BY <1>3, <1>6, LostIsEmpty DEF Awaited, Queued, SemInv
  <2>2. ShownOnce' /\ DoneAwaited'
    BY <2>1 DEF ShownOnce, DoneAwaited, Shows
  <2>3. AppWaited'
    BY <1>5, <2>1 DEF AppWaited, WaitedOnce
  <2>4. ShownAfterWait'
    BY <1>1, <2>1 DEF ShownAfterWait
  <2> QED BY <1>3, <1>4, <2>2, <2>3, <2>4 DEF SemInv
<1>7. CASE ~lost
  <2>0. PICK b \in Batch : b = Present(Elems(list), waits)
    BY ElemsType, BatchType
  <2>1. b \in Batch /\ b.op = "present" /\ b.imgs = Elems(list) /\ b.waits = waits
    BY <2>0 DEF Present
  <2>2. gpu' = [gpu EXCEPT ![q] = Append(@, b)]
    BY <1>7, <2>0
  <2>3. PICK k \in Nat :
             /\ k \in DOMAIN gpu'[q] /\ gpu'[q][k] = b /\ k \notin DOMAIN gpu[q]
             /\ \A n \in DOMAIN gpu[q] : n <= k
             /\ \A r \in Queues : \A n \in DOMAIN gpu[r] :
                   n \in DOMAIN gpu'[r] /\ gpu'[r][n] = gpu[r][n]
             /\ \A r \in Queues : \A n \in DOMAIN gpu'[r] :
                   n \in DOMAIN gpu[r] \/ (r = q /\ n = k)
    BY <2>1, <2>2, Enqueued, ZenonT(60)
  <2>4. /\ \A im \in Elems(list), r \in Queues : \A n \in DOMAIN gpu[r] : ~Shows(r, n, im)
        /\ \A im \in Image \ dropped : AppSem(im) \in waits =>
              \A r \in Queues : \A n \in DOMAIN gpu[r] : ~WaitsApp(r, n, im)
    <3>1. \A im \in Elems(list), r \in Queues : \A n \in DOMAIN gpu[r] : ~Shows(r, n, im)
      BY <1>2 DEF SemInv, ShownOnce
    <3>2. ASSUME NEW im \in Image \ dropped, AppSem(im) \in waits,
                 NEW r \in Queues, NEW n \in DOMAIN gpu[r], WaitsApp(r, n, im)
          PROVE  FALSE
      BY <3>1, <3>2 DEF SemInv, AppWaited
    <3> QED BY <3>1, <3>2
  <2>5. /\ \A im \in Image, r \in Queues : \A n \in DOMAIN gpu[r] :
              (Shows(r, n, im)' <=> Shows(r, n, im)) /\ (WaitsApp(r, n, im)' <=> WaitsApp(r, n, im))
        /\ \A im \in Image : /\ Shows(q, k, im)' <=> im \in Elems(list)
                             /\ WaitsApp(q, k, im)' <=> AppSem(im) \in waits
    BY <2>1, <2>3 DEF Shows, WaitsApp
  <2>6. ShownOnce'
    <3>1. \A im \in Image, r \in Queues : \A n \in DOMAIN gpu'[r] :
             Shows(r, n, im)' /\ handle'[im[1]] # "none" => image'[im] = "queued"
      BY <1>0, <2>3, <2>5 DEF SemInv, ShownOnce
    <3>2. \A im \in Image, r1, r2 \in Queues : \A n1 \in DOMAIN gpu'[r1], n2 \in DOMAIN gpu'[r2] :
             Shows(r1, n1, im)' /\ Shows(r2, n2, im)' => r1 = r2 /\ n1 = n2
      BY <2>3, <2>4, <2>5 DEF SemInv, ShownOnce
    <3> QED BY <3>1, <3>2 DEF ShownOnce
  <2>7. AppWaited'
    <3>1. ASSUME NEW im \in Image \ dropped, NEW r1 \in Queues, NEW r2 \in Queues,
                 NEW n1 \in DOMAIN gpu'[r1], NEW n2 \in DOMAIN gpu'[r2],
                 AppSem(im) \in gpu'[r1][n1].waits, AppSem(im) \in gpu'[r2][n2].waits
          PROVE  r1 = r2 /\ n1 = n2
      BY <2>1, <2>3, <2>4, <3>1 DEF SemInv, AppWaited, WaitedOnce, WaitsApp
    <3>2. \A im \in Image \ dropped : WaitedOnce(AppSem(im))'
      BY <3>1 DEF WaitedOnce, AppSem
    <3>3. ASSUME NEW im \in Image \ dropped, NEW r \in Queues, NEW n \in DOMAIN gpu'[r],
                 WaitsApp(r, n, im)'
          PROVE  /\ appDone'[im] # "idle"
                 /\ \E m \in DOMAIN gpu'[r] : n <= m /\ Shows(r, m, im)'
      <4>1. CASE n \in DOMAIN gpu[r]
        <5>1. /\ appDone[im] # "idle"
              /\ \/ \E m \in DOMAIN gpu[r] : n <= m /\ Shows(r, m, im)
                 \/ Consumed(im) /\ r = call.queue
          BY <2>5, <3>3, <4>1 DEF SemInv, AppWaited
        <5>2. CASE \E m \in DOMAIN gpu[r] : n <= m /\ Shows(r, m, im)
          BY <2>3, <2>5, <5>1, <5>2
        <5>3. CASE Consumed(im) /\ r = call.queue
          <6>1. im \in Elems(list) /\ r = q
            BY <5>3 DEF Consumed
          <6> QED BY <2>3, <2>5, <4>1, <5>1, <6>1
        <5> QED BY <5>1, <5>2, <5>3
      <4>2. CASE r = q /\ n = k
        <5>1. im \in Elems(list) /\ ~Consumed(im)
          BY <2>5, <3>3, <4>2
        <5>2. appDone[im] # "idle"
          BY <5>1 DEF SemInv, AppWaited
        <5> QED BY <2>3, <2>5, <4>2, <5>1, <5>2
      <4> QED BY <2>3, <4>1, <4>2
    <3> QED BY <1>5, <3>2, <3>3 DEF AppWaited
  <2>8. ShownAfterWait'
    <3>1. ASSUME NEW im \in Image, NEW r \in Queues, NEW n \in DOMAIN gpu'[r], Shows(r, n, im)'
          PROVE  appDone'[im] = "idle" \/ \E m \in DOMAIN gpu'[r] : m <= n /\ WaitsApp(r, m, im)'
      <4>1. CASE n \in DOMAIN gpu[r]
        <5>1. appDone[im] = "idle" \/ \E m \in DOMAIN gpu[r] : m <= n /\ WaitsApp(r, m, im)
          BY <2>5, <3>1, <4>1 DEF SemInv, ShownAfterWait
        <5> QED BY <2>3, <2>5, <5>1
      <4>2. CASE r = q /\ n = k
        <5>1. im \in Elems(list)
          BY <2>5, <3>1, <4>2
        <5>2. CASE AppSem(im) \in waits
          BY <2>3, <2>5, <4>2, <5>2
        <5>3. CASE appDone[im] = "idle"
          BY <5>3
        <5>4. CASE \E m \in DOMAIN gpu[q] : WaitsApp(q, m, im)
          BY <2>3, <2>5, <4>2, <5>4
        <5> QED BY <1>7, <5>1, <5>2, <5>3, <5>4
      <4> QED BY <2>3, <4>1, <4>2
    <3> QED BY <1>1, <3>1 DEF ShownAfterWait
  <2>9. DoneAwaited'
    <3>1. \A im \in Image : Queued(im)' => Queued(im)
      BY <2>1, <2>3 DEF Queued
    <3>2. ASSUME NEW im \in Image, Awaited(im) PROVE Awaited(im)'
      <4>1. CASE lost \/ where[im[1]] # "map"
        BY <4>1 DEF Awaited
      <4>2. CASE im \in Elems(overlaySems)
        <5>1. Shows(q, k, im)' /\ DoneSem(im) \in gpu'[q][k].waits
          BY <2>1, <2>3, <2>5, <4>2
        <5>2. (DoneSem(im) \in gpu[q][k].waits)' <=> DoneSem(im) \in gpu'[q][k].waits
          BY DEF DoneSem
        <5> QED BY <2>3, <5>1, <5>2 DEF Awaited
      <4>3. CASE \E r \in Queues : \E n \in DOMAIN gpu[r] :
                    Shows(r, n, im) /\ DoneSem(im) \in gpu[r][n].waits
        <5>1. PICK r \in Queues : \E n \in DOMAIN gpu[r] :
                    Shows(r, n, im) /\ DoneSem(im) \in gpu[r][n].waits
          BY <4>3
        <5>2. PICK n \in DOMAIN gpu[r] : Shows(r, n, im) /\ DoneSem(im) \in gpu[r][n].waits
          BY <5>1
        <5>3. n \in DOMAIN gpu'[r] /\ Shows(r, n, im)' /\ DoneSem(im) \in gpu'[r][n].waits
          BY <2>3, <2>5, <5>2
        <5> QED BY <5>3 DEF Awaited, DoneSem
      <4> QED BY <3>2, <4>1, <4>2, <4>3 DEF Awaited
    <3> QED BY <3>1, <3>2 DEF SemInv, DoneAwaited
  <2> QED BY <1>3, <1>4, <2>6, <2>7, <2>8, <2>9 DEF SemInv
<1> QED BY <1>6, <1>7

(* A present the driver refuses leaves the queues alone; its images are set *)
(* apart if a draw of the call has been submitted.                          *)
LEMMA SemRefused ==
    ASSUME TypeOK, FenceInv, SemInv, NEW list \in Seq(Image),
           dropped' = IF overlaySems = <<>> THEN dropped ELSE dropped \cup Elems(list),
           pc' = "idle", call' = NoCall, recorded' = <<>>, at' = 1, overlaySems' = <<>>,
           UNCHANGED <<gpu, image, handle, appDone, overlayDone, lost, where, wpc, job>>,
           \A im \in Elems(call.list) : im \in Elems(list)
    PROVE  SemInv'
<1>0. Elems(<<>>) = {} /\ Elems(NoCall.list) = {}
  BY DEF Elems, NoCall
<1>1. /\ \A im \in Image : ~Consumed(im)'
      /\ \A im \in Image \ dropped' :
            im \notin dropped /\ ~Consumed(im) /\ im \notin Elems(overlaySems)
  <2>1. \A im \in Image : Consumed(im) => im \in Elems(list) /\ overlaySems # <<>>
    BY DEF SemInv, SubmittedInOrder, Consumed
  <2>2. \A im \in Elems(overlaySems) : im \in Elems(list) /\ overlaySems # <<>>
    BY <1>0 DEF SemInv, SubmittedInOrder
  <2>3. \A im \in Image : ~Consumed(im)'
    BY DEF Consumed
  <2> QED BY <2>1, <2>2, <2>3
<1>2. CallOwnsImages' /\ SubmittedInOrder'
  BY <1>0 DEF SemInv, CallOwnsImages, SubmittedInOrder, JobBusy
<1>3. /\ \A im \in Image, q \in Queues : \A n \in DOMAIN gpu[q] :
            (Shows(q, n, im)' <=> Shows(q, n, im)) /\ (WaitsApp(q, n, im)' <=> WaitsApp(q, n, im))
      /\ \A im \in Image : Queued(im)' <=> Queued(im)
  BY DEF Shows, WaitsApp, Queued
<1>4. ShownOnce'
  BY <1>3 DEF SemInv, ShownOnce
<1>5. AppWaited'
  <2>1. \A im \in Image \ dropped' : WaitedOnce(AppSem(im))'
    BY <1>1 DEF SemInv, AppWaited, WaitedOnce, AppSem
  <2>2. ASSUME NEW im \in Image \ dropped', NEW q \in Queues, NEW n \in DOMAIN gpu[q],
               WaitsApp(q, n, im)
        PROVE  appDone[im] # "idle" /\ \E m \in DOMAIN gpu[q] : n <= m /\ Shows(q, m, im)'
    BY <1>1, <1>3, <2>2 DEF SemInv, AppWaited
  <2>3. \A im \in Image \ dropped' : image[im] = "acquired" => appDone[im] # "idle"
    BY <1>1 DEF SemInv, AppWaited
  <2> QED BY <1>3, <2>1, <2>2, <2>3 DEF AppWaited
<1>6. ShownAfterWait'
  <2>1. ASSUME NEW im \in Image, NEW q \in Queues, NEW n \in DOMAIN gpu[q], Shows(q, n, im)
        PROVE  appDone[im] = "idle" \/ \E m \in DOMAIN gpu[q] : m <= n /\ WaitsApp(q, m, im)'
    BY <1>3, <2>1 DEF SemInv, ShownAfterWait
  <2> QED BY <1>1, <1>3, <2>1 DEF ShownAfterWait
<1>7. DoneAwaited'
  <2>1. ASSUME NEW im \in Image \ dropped', Awaited(im) PROVE Awaited(im)'
    BY <1>1, <2>1 DEF Awaited, Shows, DoneSem
  <2> QED BY <1>1, <1>3, <2>1 DEF SemInv, DoneAwaited
<1> QED BY <1>2, <1>4, <1>5, <1>6, <1>7 DEF SemInv

(* A present that goes down the chain, accepted or refused. *)
LEMMA SemPresent ==
    ASSUME TypeOK, FenceInv, SemInv, NEW q \in Queues, NEW list \in Seq(Image),
           NEW waits \in SUBSET Semaphore, PresentDownChain(q, list, waits),
           UNCHANGED <<handle, appDone, overlayDone, lost, where, wpc, job>>,
           \A im \in Elems(list) : image[im] = "acquired",
           \A im \in Elems(call.list) : im \in Elems(list),
           \A im \in Image : Consumed(im) => q = call.queue,
           \A im \in Image : AppSem(im) \in waits => im \in Elems(list) /\ ~Consumed(im),
           \A im \in Elems(list) :
              AppSem(im) \in waits \/ lost \/ appDone[im] = "idle"
              \/ \E m \in DOMAIN gpu[q] : WaitsApp(q, m, im),
           \A im \in Elems(overlaySems) : im \in Elems(list) /\ DoneSem(im) \in waits
    PROVE  SemInv'
<1>1. pc' = "idle" /\ call' = NoCall /\ recorded' = <<>> /\ at' = 1 /\ overlaySems' = <<>>
  BY DEF PresentDownChain
<1>2. CASE UNCHANGED dropped /\ gpu' = (IF lost THEN gpu
                  ELSE [gpu EXCEPT ![q] = Append(@, Present(Elems(list), waits))])
           /\ image' = [im \in Image |-> IF im \in Elems(list) THEN "queued" ELSE image[im]]
  BY <1>1, <1>2, SemAccepted
<1>3. CASE /\ dropped' = IF overlaySems = <<>> THEN dropped ELSE dropped \cup Elems(list)
           /\ UNCHANGED <<gpu, image>>
  BY <1>1, <1>3, SemRefused
<1> QED BY <1>2, <1>3 DEF PresentDownChain

(* A forwarded present waits the application's semaphores itself: nothing   *)
(* of this call has been submitted yet.                                     *)
LEMMA SemForward ==
    ASSUME TypeOK, FenceInv, SemInv, Forward,
           Recording \/ (pc = "submit" /\ at = 1),
           UNCHANGED <<handle, appDone, overlayDone, lost, where, wpc, job>>
    PROVE  SemInv'
<1>1. call.list \in Seq(Image) /\ call.queue \in Queues
  BY DEF TypeOK, FenceInv, RecordedIsReady, Recording
<1>2. AppSems(call.list) \in SUBSET Semaphore
  BY <1>1, ElemsType, BatchType DEF AppSems
<1>3. \A im \in Image : ~Consumed(im)
  BY DEF Consumed, Recording
<1>4. \A im : AppSem(im) \in AppSems(call.list) <=> im \in Elems(call.list)
  BY SemaphoresDiffer DEF AppSems
<1>5. Elems(overlaySems) = {}
  <2>1. CASE Recording
    <3>1. overlaySems = <<>>
      BY <2>1 DEF SemInv, SubmittedInOrder, Recording
    <3> QED BY <3>1 DEF Elems
  <2>2. CASE pc = "submit" /\ at = 1
    <3>1. \A im \in Elems(overlaySems) : \E m \in DOMAIN recorded : m < 1 /\ im = recorded[m]
      BY <2>2 DEF SemInv, SubmittedInOrder
    <3>2. DOMAIN recorded = 1..Len(recorded) /\ Len(recorded) \in Nat
      BY DEF TypeOK
    <3> QED BY <3>1, <3>2
  <2> QED BY <2>1, <2>2
<1>6. \A im \in Elems(call.list) : image[im] = "acquired"
  BY DEF SemInv, CallOwnsImages
<1> QED BY <1>1, <1>2, <1>3, <1>4, <1>5, <1>6, SemPresent DEF Forward

(* A step that leaves the queues alone keeps what is said of their entries  *)
(* if it keeps what these say of the images and of the semaphores.          *)
LEMMA SemQueuesKept ==
    ASSUME SemInv, UNCHANGED <<gpu, lost, dropped>>, CallOwnsImages', SubmittedInOrder',
           \A im \in Image : Consumed(im)' <=> Consumed(im),
           \A im \in Image : Consumed(im) => call' = call,
           \A im \in Image, q \in Queues : \A n \in DOMAIN gpu[q] :
              /\ Shows(q, n, im) /\ handle'[im[1]] # "none" => image'[im] = "queued"
              /\ WaitsApp(q, n, im) /\ im \notin dropped => appDone'[im] # "idle"
              /\ Shows(q, n, im) /\ appDone[im] = "idle" => appDone'[im] = "idle",
           \A im \in Image : Consumed(im) /\ appDone[im] = "idle" => appDone'[im] = "idle",
           \A im \in Image \ dropped :
              image'[im] = "acquired" /\ ~Consumed(im) => appDone'[im] # "idle",
           \A im \in Image : overlayDone'[im] => overlayDone[im],
           \A im \in Image :
              (Queued(im) \/ overlayDone'[im]) /\ where'[im[1]] = "map" => where[im[1]] = "map",
           \A im \in Elems(overlaySems) : im \in Elems(overlaySems)'
    PROVE  SemInv'
<1>1. /\ \A im \in Image, q \in Queues : \A n \in DOMAIN gpu[q] :
            (Shows(q, n, im)' <=> Shows(q, n, im)) /\ (WaitsApp(q, n, im)' <=> WaitsApp(q, n, im))
      /\ \A im \in Image : Queued(im)' <=> Queued(im)
  BY DEF Shows, WaitsApp, Queued
<1>2. ShownOnce'
  BY <1>1 DEF SemInv, ShownOnce
<1>3. AppWaited'
  <2>1. \A im \in Image \ dropped : WaitedOnce(AppSem(im))'
    BY DEF SemInv, AppWaited, WaitedOnce, AppSem
  <2>2. ASSUME NEW im \in Image \ dropped, NEW q \in Queues, NEW n \in DOMAIN gpu[q],
               WaitsApp(q, n, im)
        PROVE  \/ \E m \in DOMAIN gpu[q] : n <= m /\ Shows(q, m, im)'
               \/ Consumed(im)' /\ q = call'.queue
    BY <1>1, <2>2 DEF SemInv, AppWaited
  <2> QED BY <1>1, <2>1, <2>2 DEF AppWaited
<1>4. ShownAfterWait'
  <2>1. ASSUME NEW im \in Image, NEW q \in Queues, NEW n \in DOMAIN gpu[q], Shows(q, n, im)
        PROVE  appDone'[im] = "idle" \/ \E m \in DOMAIN gpu[q] : m <= n /\ WaitsApp(q, m, im)'
    BY <1>1, <2>1 DEF SemInv, ShownAfterWait
  <2>2. ASSUME NEW im \in Image, Consumed(im)'
        PROVE  \/ lost' \/ appDone'[im] = "idle"
               \/ \E m \in DOMAIN gpu'[call'.queue] : WaitsApp(call.queue, m, im)'
    <3>1. Consumed(im) /\ call' = call
      BY <2>2
    <3>2. lost \/ appDone[im] = "idle"
            \/ \E m \in DOMAIN gpu[call.queue] : WaitsApp(call.queue, m, im)
      BY <3>1 DEF SemInv, ShownAfterWait
    <3> QED BY <3>1, <3>2 DEF WaitsApp, AppSem
  <2> QED BY <1>1, <2>1, <2>2 DEF ShownAfterWait
<1>5. DoneAwaited'
  <2>1. ASSUME NEW im \in Image, Queued(im) \/ overlayDone'[im], Awaited(im) PROVE Awaited(im)'
    BY <2>1 DEF Awaited, Shows, DoneSem
  <2> QED BY <1>1, <2>1 DEF SemInv, DoneAwaited
<1> QED BY <1>2, <1>3, <1>4, <1>5 DEF SemInv

(* So do the steps that leave the images and the application's semaphores   *)
(* alone too, ...                                                           *)
LEMMA SemQuiet ==
    ASSUME SemInv, UNCHANGED <<handle, gpu, image, appDone, lost, dropped>>,
           CallOwnsImages', SubmittedInOrder',
           \A im \in Image : Consumed(im)' <=> Consumed(im),
           \A im \in Image : Consumed(im) => call' = call,
           \A im \in Image : overlayDone'[im] => overlayDone[im],
           \A im \in Image :
              (Queued(im) \/ overlayDone'[im]) /\ where'[im[1]] = "map" => where[im[1]] = "map",
           \A im \in Elems(overlaySems) : im \in Elems(overlaySems)'
    PROVE  SemInv'
<1>1. \A im \in Image, q \in Queues : \A n \in DOMAIN gpu[q] :
         /\ Shows(q, n, im) /\ handle'[im[1]] # "none" => image'[im] = "queued"
         /\ WaitsApp(q, n, im) /\ im \notin dropped => appDone'[im] # "idle"
         /\ Shows(q, n, im) /\ appDone[im] = "idle" => appDone'[im] = "idle"
  BY DEF SemInv, ShownOnce, AppWaited
<1>2. \A im \in Image \ dropped : image'[im] = "acquired" /\ ~Consumed(im) => appDone'[im] # "idle"
  BY DEF SemInv, AppWaited
<1> QED BY <1>1, <1>2, SemQueuesKept

(* ... be they the presenter's inside one call, ... *)
LEMMA SemQuietCall ==
    ASSUME TypeOK, SemInv,
           UNCHANGED <<handle, gpu, image, appDone, overlayDone, lost, where, call, overlaySems,
                       dropped, wpc, job>>,
           pc # "idle", pc' # "idle", \A im \in Image : Consumed(im)' <=> Consumed(im),
           SubmittedInOrder'
    PROVE  SemInv'
<1>1. CallOwnsImages'
  BY DEF SemInv, CallOwnsImages, JobBusy
<1> QED BY <1>1, SemQuiet

(* ... or those of the environment and of the workers. *)
LEMMA SemQuietWorker ==
    ASSUME TypeOK, SemInv,
           UNCHANGED <<handle, gpu, image, appDone, lost, pc, call, recorded, at, overlaySems,
                       dropped>>,
           \A w \in Workers : \A s \in JobBusy(w)' :
              s \in JobBusy(w) \/ s = None \/ s \notin CallBusy,
           \A im \in Image : overlayDone'[im] => overlayDone[im],
           \A im \in Image :
              (Queued(im) \/ overlayDone'[im]) /\ where'[im[1]] = "map" => where[im[1]] = "map"
    PROVE  SemInv'
<1>1. \A im \in Elems(call.list) : im[1] \in CallBusy /\ im[1] # None
  <2>1. \A im \in Elems(call.list) : im \in Image
    BY ElemsType DEF TypeOK
  <2>2. \A im \in Image : im[1] # None
    BY PresentAssumption DEF Image
  <2> QED BY <2>1, <2>2 DEF Elems, CallBusy
<1>2. CallOwnsImages'
  <2>1. \A im \in Elems(call.list), w \in Workers : im[1] \notin JobBusy(w)'
    BY <1>1 DEF SemInv, CallOwnsImages
  <2> QED BY <2>1 DEF SemInv, CallOwnsImages
<1>3. SubmittedInOrder'
  BY DEF SemInv, SubmittedInOrder
<1>4. \A im \in Image : Consumed(im)' <=> Consumed(im)
  BY DEF Consumed
<1> QED BY <1>2, <1>3, <1>4, SemQuiet

(* A draw waits the application's semaphores if it is the first of its      *)
(* call, and its overlay_done is left to the call's present.                *)
LEMMA SemSubmit ==
    ASSUME TypeOK, FenceInv, SemInv, Submit
    PROVE  SemInv'
<1>0. PICK im, q, ws : im = recorded[at] /\ q = call.queue /\ ws = SubmitWaits
  OBVIOUS
<1>1. /\ UNCHANGED <<handle, image, appDone, where, overlayDone, lost, pc, call, recorded, dropped,
                     wpc, job>>
      /\ pc = "submit" /\ at <= Len(recorded) /\ ~lost /\ at' = at + 1
      /\ gpu' = [gpu EXCEPT ![q] = Append(@, Draw(im, ws))]
      /\ overlaySems' = Append(overlaySems, im)
  BY <1>0 DEF Submit, appVars, workerVars
<1>2. /\ at \in DOMAIN recorded /\ at \in Nat \ {0} /\ recorded \in Seq(Image)
      /\ im \in Image /\ q \in Queues
      /\ im \in Elems(recorded) /\ im \in Elems(call.list)
  <2>1. at \in DOMAIN recorded /\ at \in Nat \ {0} /\ recorded \in Seq(Image) /\ im \in Image
    BY <1>0, <1>1 DEF TypeOK
  <2>2. q \in Queues
    BY <1>0, <1>1 DEF FenceInv, RecordedIsReady
  <2>3. im \in Elems(recorded)
    BY <1>0, <2>1 DEF Elems
  <2> QED BY <2>1, <2>2, <2>3 DEF SemInv, SubmittedInOrder
<1>3. /\ ws \in SUBSET Semaphore
      /\ at = 1 => \A j : AppSem(j) \in ws <=> j \in Elems(call.list)
      /\ at # 1 => \A j : AppSem(j) \notin ws
  <2>1. CASE at = 1
    <3>1. ws = AppSems(call.list) /\ call.list \in Seq(Image)
      BY <1>0, <2>1 DEF SubmitWaits, TypeOK
    <3> QED BY <2>1, <3>1, ElemsType, BatchType, SemaphoresDiffer DEF AppSems
  <2>2. CASE at # 1
    <3>1. at - 1 \in DOMAIN recorded /\ recorded[at - 1] \in Image
      BY <1>1, <1>2, <2>2
    <3>2. ws = {DoneSem(recorded[at - 1])}
      BY <1>0, <2>2 DEF SubmitWaits
    <3> QED BY <2>2, <3>1, <3>2, BatchType, SemaphoresDiffer
  <2> QED BY <2>1, <2>2
<1>4. PICK b \in Batch : b = Draw(im, ws)
  BY <1>2, <1>3, BatchType
<1>5. b \in Batch /\ b.op = "draw" /\ b.imgs = {im} /\ b.waits = ws
  BY <1>4 DEF Draw
<1>6. gpu' = [gpu EXCEPT ![q] = Append(@, b)]
  BY <1>1, <1>4
<1>7. PICK k \in Nat :
             /\ k \in DOMAIN gpu'[q] /\ gpu'[q][k] = b /\ k \notin DOMAIN gpu[q]
             /\ \A n \in DOMAIN gpu[q] : n <= k
             /\ \A r \in Queues : \A n \in DOMAIN gpu[r] :
                   n \in DOMAIN gpu'[r] /\ gpu'[r][n] = gpu[r][n]
             /\ \A r \in Queues : \A n \in DOMAIN gpu'[r] :
                   n \in DOMAIN gpu[r] \/ (r = q /\ n = k)
  BY <1>2, <1>5, <1>6, Enqueued, ZenonT(60)
<1>8. /\ \A j \in Image, r \in Queues : \A n \in DOMAIN gpu[r] :
            (Shows(r, n, j)' <=> Shows(r, n, j)) /\ (WaitsApp(r, n, j)' <=> WaitsApp(r, n, j))
      /\ \A j \in Image : /\ ~Shows(q, k, j)'
                          /\ WaitsApp(q, k, j)' <=> AppSem(j) \in ws
  BY <1>5, <1>7 DEF Shows, WaitsApp
<1>9. /\ overlaySems' \in Seq(Image)
      /\ \A j \in Elems(overlaySems)' : j \in Elems(overlaySems) \/ j = im
      /\ im \in Elems(overlaySems)' /\ \A j \in Elems(overlaySems) : j \in Elems(overlaySems)'
  <2>1. overlaySems \in Seq(Image)
    BY DEF TypeOK
  <2>2. overlaySems' \in Seq(Image) /\ Len(overlaySems') = Len(overlaySems) + 1
    BY <1>1, <1>2, <2>1
  <2>3. /\ DOMAIN overlaySems = 1..Len(overlaySems) /\ Len(overlaySems) \in Nat
        /\ DOMAIN overlaySems' = 1..(Len(overlaySems) + 1)
        /\ overlaySems'[Len(overlaySems) + 1] = im
        /\ \A n \in DOMAIN overlaySems : overlaySems'[n] = overlaySems[n]
    BY <1>1, <1>2, <2>1, <2>2
  <2>4. \A n \in DOMAIN overlaySems' : n \in DOMAIN overlaySems \/ n = Len(overlaySems) + 1
    BY <2>3
  <2>5. Len(overlaySems) + 1 \in DOMAIN overlaySems' /\ DOMAIN overlaySems \subseteq DOMAIN overlaySems'
    BY <2>3
  <2> QED BY <2>2, <2>3, <2>4, <2>5 DEF Elems
<1>10. \A j \in Image : /\ Consumed(j)' <=> j \in Elems(call.list)
                        /\ Consumed(j) <=> (j \in Elems(call.list) /\ at # 1)
  BY <1>1, <1>2 DEF Consumed
<1>11. CallOwnsImages'
  BY <1>1 DEF SemInv, CallOwnsImages, JobBusy
<1>12. SubmittedInOrder'
  <2>1. \A j \in Elems(overlaySems)' : \E m \in DOMAIN recorded : m < at + 1 /\ j = recorded[m]
    <3>1. ASSUME NEW j \in Elems(overlaySems)
          PROVE  \E m \in DOMAIN recorded : m < at + 1 /\ j = recorded[m]
      <4>1. PICK m \in DOMAIN recorded : m < at /\ j = recorded[m]
        BY <1>1 DEF SemInv, SubmittedInOrder
      <4> QED BY <1>2, <4>1
    <3> QED BY <1>0, <1>2, <1>9, <3>1
  <2>2. overlaySems' # <<>>
    BY <1>9 DEF Elems
  <2> QED BY <1>1, <1>2, <1>9, <2>1, <2>2 DEF SemInv, SubmittedInOrder
<1>13. ShownOnce'
  BY <1>1, <1>7, <1>8 DEF SemInv, ShownOnce
<1>14. AppWaited'
  <2>1. at = 1 => \A j \in Elems(call.list) \ dropped, r \in Queues : \A n \in DOMAIN gpu[r] :
           ~WaitsApp(r, n, j)
    <3>1. ASSUME at = 1, NEW j \in Elems(call.list) \ dropped, NEW r \in Queues,
                 NEW n \in DOMAIN gpu[r],
                 WaitsApp(r, n, j)
          PROVE  FALSE
      <4>1. j \in Image /\ image[j] = "acquired" /\ ~Consumed(j) /\ handle[j[1]] # "none"
        BY <1>10, <3>1, ElemsType DEF SemInv, CallOwnsImages, TypeOK
      <4> QED BY <3>1, <4>1 DEF SemInv, AppWaited, ShownOnce
    <3> QED BY <3>1
  <2>2. ASSUME NEW j \in Image \ dropped, NEW r1 \in Queues, NEW r2 \in Queues,
               NEW n1 \in DOMAIN gpu'[r1], NEW n2 \in DOMAIN gpu'[r2],
               AppSem(j) \in gpu'[r1][n1].waits, AppSem(j) \in gpu'[r2][n2].waits
        PROVE  r1 = r2 /\ n1 = n2
    BY <1>3, <1>5, <1>7, <2>1, <2>2 DEF SemInv, AppWaited, WaitedOnce, WaitsApp
  <2>3. \A j \in Image \ dropped : WaitedOnce(AppSem(j))'
    BY <2>2 DEF WaitedOnce, AppSem
  <2>4. ASSUME NEW j \in Image \ dropped, NEW r \in Queues, NEW n \in DOMAIN gpu'[r],
               WaitsApp(r, n, j)'
        PROVE  /\ appDone'[j] # "idle"
               /\ \/ \E m \in DOMAIN gpu'[r] : n <= m /\ Shows(r, m, j)'
                  \/ Consumed(j)' /\ r = call'.queue
    <3>1. CASE n \in DOMAIN gpu[r]
      <4>1. /\ appDone[j] # "idle"
            /\ \/ \E m \in DOMAIN gpu[r] : n <= m /\ Shows(r, m, j)
               \/ Consumed(j) /\ r = call.queue
        BY <1>8, <2>4, <3>1 DEF SemInv, AppWaited
      <4> QED BY <1>1, <1>7, <1>8, <1>10, <4>1
    <3>2. CASE r = q /\ n = k
      <4>1. at = 1 /\ j \in Elems(call.list)
        BY <1>3, <1>8, <2>4, <3>2
      <4>2. appDone[j] # "idle"
        BY <1>10, <4>1 DEF SemInv, AppWaited, CallOwnsImages
      <4> QED BY <1>0, <1>1, <1>10, <3>2, <4>1, <4>2
    <3> QED BY <1>7, <3>1, <3>2
  <2>5. \A j \in Image \ dropped : image'[j] = "acquired" /\ ~Consumed(j)' => appDone'[j] # "idle"
    BY <1>1, <1>10 DEF SemInv, AppWaited
  <2> QED BY <1>1, <2>3, <2>4, <2>5 DEF AppWaited
<1>15. ShownAfterWait'
  <2>1. ASSUME NEW j \in Image, NEW r \in Queues, NEW n \in DOMAIN gpu'[r], Shows(r, n, j)'
        PROVE  appDone'[j] = "idle" \/ \E m \in DOMAIN gpu'[r] : m <= n /\ WaitsApp(r, m, j)'
    <3>1. n \in DOMAIN gpu[r] /\ Shows(r, n, j)
      BY <1>7, <1>8, <2>1
    <3>2. appDone[j] = "idle" \/ \E m \in DOMAIN gpu[r] : m <= n /\ WaitsApp(r, m, j)
      BY <3>1 DEF SemInv, ShownAfterWait
    <3> QED BY <1>1, <1>7, <1>8, <3>2
  <2>2. ASSUME NEW j \in Image, Consumed(j)'
        PROVE  \/ appDone'[j] = "idle"
               \/ \E m \in DOMAIN gpu'[q] : WaitsApp(q, m, j)'
    <3>1. CASE at = 1
      BY <1>3, <1>7, <1>8, <1>10, <2>2, <3>1
    <3>2. CASE at # 1
      <4>1. appDone[j] = "idle" \/ \E m \in DOMAIN gpu[q] : WaitsApp(q, m, j)
        BY <1>0, <1>1, <1>10, <2>2, <3>2 DEF SemInv, ShownAfterWait
      <4> QED BY <1>1, <1>2, <1>7, <1>8, <4>1
    <3> QED BY <3>1, <3>2
  <2>3. \A j \in Image : Consumed(j)' =>
           \/ appDone'[j] = "idle"
           \/ \E m \in DOMAIN gpu'[call'.queue] : AppSem(j) \in gpu'[call'.queue][m].waits
    BY <1>0, <1>1, <2>2 DEF WaitsApp, AppSem
  <2>4. \A j \in Image : Consumed(j)' =>
           \/ lost' \/ appDone'[j] = "idle"
           \/ \E m \in DOMAIN gpu'[call'.queue] : WaitsApp(call.queue, m, j)'
    BY <2>3 DEF WaitsApp, AppSem
  <2> QED BY <2>1, <2>4 DEF ShownAfterWait
<1>16. DoneAwaited'
  <2>1. im \notin dropped => ~overlayDone[im] /\ where[im[1]] = "map"
    <3>1. where[im[1]] = "map"
      BY <1>0, <1>1, <1>2 DEF FenceInv, RecordedIsReady, TypeOK
    <3>2. im \notin Elems(overlaySems)
      <4>1. \A m \in DOMAIN recorded : m < at => recorded[m] # im
        BY <1>0, <1>2 DEF FenceInv, RecordedIsReady, TypeOK
      <4> QED BY <1>1, <4>1 DEF SemInv, SubmittedInOrder
    <3>3. \A r \in Queues : \A n \in DOMAIN gpu[r] : ~Shows(r, n, im)
      BY <1>2 DEF SemInv, ShownOnce, CallOwnsImages
    <3>4. ~Awaited(im)
      BY <1>1, <3>1, <3>2, <3>3 DEF Awaited
    <3> QED BY <1>2, <3>1, <3>4 DEF SemInv, DoneAwaited
  <2>2. \A j \in Image : Queued(j)' => Queued(j) \/ j = im
    BY <1>5, <1>7 DEF Queued
  <2>3. ASSUME NEW j \in Image, Awaited(j) PROVE Awaited(j)'
    <3>1. CASE lost \/ where[j[1]] # "map"
      BY <1>1, <3>1 DEF Awaited
    <3>2. CASE j \in Elems(overlaySems)
      BY <1>9, <3>2 DEF Awaited
    <3>3. CASE \E r \in Queues : \E n \in DOMAIN gpu[r] :
                    Shows(r, n, j) /\ DoneSem(j) \in gpu[r][n].waits
      <4>1. PICK r \in Queues : \E n \in DOMAIN gpu[r] :
                  Shows(r, n, j) /\ DoneSem(j) \in gpu[r][n].waits
        BY <3>3
      <4>2. PICK n \in DOMAIN gpu[r] : Shows(r, n, j) /\ DoneSem(j) \in gpu[r][n].waits
        BY <4>1
      <4>3. n \in DOMAIN gpu'[r] /\ Shows(r, n, j)' /\ DoneSem(j) \in gpu'[r][n].waits
        BY <1>7, <1>8, <4>2
      <4> QED BY <4>3 DEF Awaited, DoneSem
    <3> QED BY <2>3, <3>1, <3>2, <3>3 DEF Awaited
  <2>4. Awaited(im)'
    BY <1>9 DEF Awaited
  <2>5. UNCHANGED <<overlayDone, dropped>>
    BY <1>1
  <2> QED BY <2>1, <2>2, <2>3, <2>4, <2>5 DEF SemInv, DoneAwaited
<1> QED BY <1>11, <1>12, <1>13, <1>14, <1>15, <1>16 DEF SemInv

(* The head of a queue executes: what it waited for is waited once, and     *)
(* what it shows is shown once.                                             *)
LEMMA SemExecute ==
    ASSUME TypeOK, FenceInv, SemInv, NEW q \in Queues, Execute(q)
    PROVE  SemInv'
<1>0. PICK b : b = Head(gpu[q])
  OBVIOUS
<1>1. /\ gpu[q] # <<>> /\ gpu' = [gpu EXCEPT ![q] = Tail(@)]
      /\ UNCHANGED <<handle, where, lost, pc, call, recorded, at, overlaySems, dropped, wpc, job>>
      /\ \A sem \in b.waits : Signaled(sem)
      /\ \A im \in Image :
            /\ appDone'[im] = IF AppSem(im) \in b.waits THEN "idle" ELSE appDone[im]
            /\ overlayDone'[im] = (\/ b.op = "draw" /\ im \in b.imgs
                                   \/ overlayDone[im] /\ DoneSem(im) \notin b.waits)
            /\ image'[im] = IF b.op = "present" /\ im \in b.imgs THEN "free" ELSE image[im]
  BY <1>0 DEF Execute, hostVars, callVars, workerVars
<1>2. /\ \A r \in Queues : r # q => gpu'[r] = gpu[r]
      /\ \A r \in Queues : DOMAIN gpu[r] \subseteq Nat
      /\ 1 \in DOMAIN gpu[q] /\ gpu[q][1] = b /\ b \in Batch
      /\ \A n \in DOMAIN gpu[q] : n >= 1
      /\ \A n \in DOMAIN gpu'[q] :
            n \in Nat /\ n + 1 \in DOMAIN gpu[q] /\ n + 1 # 1 /\ gpu'[q][n] = gpu[q][n + 1]
      /\ \A n \in DOMAIN gpu[q] : n # 1 =>
            n - 1 \in DOMAIN gpu'[q] /\ gpu'[q][n - 1] = gpu[q][n]
  BY <1>0, <1>1, Dequeued
<1> DEFINE up(r, n) == IF r = q THEN n + 1 ELSE n
           down(r, n) == IF r = q THEN n - 1 ELSE n
<1>3. \A r \in Queues : \A n \in DOMAIN gpu'[r] :
         /\ n \in Nat /\ up(r, n) \in DOMAIN gpu[r] /\ gpu'[r][n] = gpu[r][up(r, n)]
         /\ ~(r = q /\ up(r, n) = 1)
  BY <1>2
<1>4. \A r \in Queues : \A n \in DOMAIN gpu[r] : ~(r = q /\ n = 1) =>
         down(r, n) \in DOMAIN gpu'[r] /\ gpu'[r][down(r, n)] = gpu[r][n]
  BY <1>2
<1>5. /\ \A r \in Queues : \A m, n \in DOMAIN gpu'[r] :
            /\ up(r, m) = up(r, n) => m = n
            /\ down(r, up(r, n)) = n
            /\ up(r, m) <= up(r, n) <=> m <= n
      /\ \A r \in Queues : \A m \in DOMAIN gpu[r] : ~(r = q /\ m = 1) =>
            up(r, down(r, m)) = m
  BY <1>2, <1>3
<1>6. \A im \in Image, r \in Queues : \A n \in DOMAIN gpu'[r] :
         /\ Shows(r, n, im)' <=> Shows(r, up(r, n), im)
         /\ WaitsApp(r, n, im)' <=> WaitsApp(r, up(r, n), im)
  BY <1>3 DEF Shows, WaitsApp
<1>7. \A im \in Image, r \in Queues : \A m \in DOMAIN gpu[r] : ~(r = q /\ m = 1) =>
         /\ Shows(r, m, im) => Shows(r, down(r, m), im)'
         /\ WaitsApp(r, m, im) => WaitsApp(r, down(r, m), im)'
  BY <1>4 DEF Shows, WaitsApp
<1>8. \A im \in Image : /\ Shows(q, 1, im) <=> (b.op = "present" /\ im \in b.imgs)
                        /\ WaitsApp(q, 1, im) <=> AppSem(im) \in b.waits
  BY <1>2 DEF Shows, WaitsApp
<1> HIDE DEF up, down
<1>9. \A im \in Image : Consumed(im)' <=> Consumed(im)
  BY <1>1 DEF Consumed
(* An image in the hands of the application is not shown by the head. *)
<1>10. \A im \in Image : image[im] = "acquired" =>
          image'[im] = image[im] /\ \A r \in Queues : \A n \in DOMAIN gpu[r] : ~Shows(r, n, im)
  <2>1. ASSUME NEW im \in Image, image[im] = "acquired"
        PROVE  \A r \in Queues : \A n \in DOMAIN gpu[r] : ~Shows(r, n, im)
    BY <2>1 DEF SemInv, CallOwnsImages, ShownOnce
  <2> QED BY <1>1, <1>2, <1>8, <2>1
<1>11. CallOwnsImages'
  <2>1. \A im \in Elems(call.list) : im \in Image
    BY ElemsType DEF TypeOK
  <2>2. \A im \in Image : handle[im[1]] = "none" => image'[im] = "free"
    BY <1>1 DEF SemInv, CallOwnsImages
  <2>3. ~lost
    BY <1>1 DEF SemInv, CallOwnsImages
  <2> QED BY <1>1, <1>10, <2>1, <2>2, <2>3 DEF SemInv, CallOwnsImages, JobBusy
<1>12. SubmittedInOrder'
  BY <1>1 DEF SemInv, SubmittedInOrder
<1>13. ShownOnce'
  <2>1. ASSUME NEW im \in Image, NEW r \in Queues, NEW n \in DOMAIN gpu'[r],
               Shows(r, n, im)', handle'[im[1]] # "none"
        PROVE  image'[im] = "queued"
    <3>1. up(r, n) \in DOMAIN gpu[r] /\ Shows(r, up(r, n), im) /\ ~(r = q /\ up(r, n) = 1)
      BY <1>3, <1>6, <2>1
    <3>2. image[im] = "queued"
      BY <1>1, <2>1, <3>1 DEF SemInv, ShownOnce
    <3>3. ~Shows(q, 1, im)
      BY <1>2, <3>1 DEF SemInv, ShownOnce
    <3> QED BY <1>1, <1>8, <3>2, <3>3
  <2>2. ASSUME NEW im \in Image, NEW r1 \in Queues, NEW r2 \in Queues,
               NEW n1 \in DOMAIN gpu'[r1], NEW n2 \in DOMAIN gpu'[r2],
               Shows(r1, n1, im)', Shows(r2, n2, im)'
        PROVE  r1 = r2 /\ n1 = n2
    <3>1. r1 = r2 /\ up(r1, n1) = up(r2, n2)
      BY <1>3, <1>6, <2>2 DEF SemInv, ShownOnce
    <3> QED BY <1>5, <3>1
  <2> QED BY <2>1, <2>2 DEF ShownOnce
<1>14. AppWaited'
  <2>1. ASSUME NEW im \in Image \ dropped, NEW r1 \in Queues, NEW r2 \in Queues,
               NEW n1 \in DOMAIN gpu'[r1], NEW n2 \in DOMAIN gpu'[r2],
               AppSem(im) \in gpu'[r1][n1].waits, AppSem(im) \in gpu'[r2][n2].waits
        PROVE  r1 = r2 /\ n1 = n2
    <3>1. r1 = r2 /\ up(r1, n1) = up(r2, n2)
      BY <1>3, <2>1 DEF SemInv, AppWaited, WaitedOnce
    <3> QED BY <1>5, <3>1
  <2>2. \A im \in Image \ dropped : WaitedOnce(AppSem(im))'
    BY <2>1 DEF WaitedOnce, AppSem
  <2>3. ASSUME NEW im \in Image \ dropped, NEW r \in Queues, NEW n \in DOMAIN gpu'[r],
               WaitsApp(r, n, im)'
        PROVE  /\ appDone'[im] # "idle"
               /\ \/ \E m \in DOMAIN gpu'[r] : n <= m /\ Shows(r, m, im)'
                  \/ Consumed(im)' /\ r = call'.queue
    <3>1. up(r, n) \in DOMAIN gpu[r] /\ WaitsApp(r, up(r, n), im) /\ ~(r = q /\ up(r, n) = 1)
      BY <1>3, <1>6, <2>3
    <3>2. /\ appDone[im] # "idle"
          /\ \/ \E m \in DOMAIN gpu[r] : up(r, n) <= m /\ Shows(r, m, im)
             \/ Consumed(im) /\ r = call.queue
      BY <3>1 DEF SemInv, AppWaited
    <3>3. ~WaitsApp(q, 1, im)
      BY <1>2, <3>1 DEF SemInv, AppWaited, WaitedOnce, WaitsApp
    <3>4. appDone'[im] # "idle"
      BY <1>1, <1>8, <3>2, <3>3
    <3>5. ASSUME NEW m \in DOMAIN gpu[r], up(r, n) <= m, Shows(r, m, im)
          PROVE  \E m2 \in DOMAIN gpu'[r] : n <= m2 /\ Shows(r, m2, im)'
      <4>1. ~(r = q /\ m = 1)
        BY <1>2, <3>1, <3>5 DEF up
      <4>2. /\ down(r, m) \in DOMAIN gpu'[r] /\ up(r, down(r, m)) = m
            /\ Shows(r, down(r, m), im)'
        BY <1>4, <1>5, <1>7, <3>5, <4>1
      <4>3. n <= down(r, m)
        BY <1>5, <3>5, <4>2
      <4> QED BY <4>2, <4>3
    <3> QED BY <1>1, <1>9, <3>2, <3>4, <3>5
  <2>4. \A im \in Image \ dropped : image'[im] = "acquired" /\ ~Consumed(im)' => appDone'[im] # "idle"
    <3>1. ASSUME NEW im \in Image \ dropped, image'[im] = "acquired", ~Consumed(im)
          PROVE  appDone'[im] # "idle"
      <4>1. image[im] = "acquired" /\ appDone[im] # "idle"
        BY <1>1, <3>1 DEF SemInv, AppWaited
      <4>2. ~WaitsApp(q, 1, im)
        BY <1>2, <1>10, <3>1, <4>1 DEF SemInv, AppWaited
      <4> QED BY <1>1, <1>8, <4>1, <4>2
    <3> QED BY <1>9, <3>1
  <2> QED BY <1>1, <2>2, <2>3, <2>4 DEF AppWaited
<1>15. ShownAfterWait'
  (* Waits ahead in the same queue move up with what they are ahead of. *)
  <2>1. ASSUME NEW im \in Image, NEW r \in Queues, NEW m \in DOMAIN gpu[r], WaitsApp(r, m, im)
        PROVE  \/ appDone'[im] = "idle"
               \/ /\ down(r, m) \in DOMAIN gpu'[r] /\ WaitsApp(r, down(r, m), im)'
                  /\ up(r, down(r, m)) = m
    <3>1. CASE r = q /\ m = 1
      BY <1>1, <1>8, <2>1, <3>1
    <3>2. CASE ~(r = q /\ m = 1)
      BY <1>4, <1>5, <1>7, <2>1, <3>2
    <3> QED BY <3>1, <3>2
  <2>2. \A im \in Image : appDone[im] = "idle" => appDone'[im] = "idle"
    BY <1>1
  <2>3. ASSUME NEW im \in Image, NEW r \in Queues, NEW n \in DOMAIN gpu'[r], Shows(r, n, im)'
        PROVE  appDone'[im] = "idle" \/ \E m \in DOMAIN gpu'[r] : m <= n /\ WaitsApp(r, m, im)'
    <3>1. up(r, n) \in DOMAIN gpu[r] /\ Shows(r, up(r, n), im)
      BY <1>3, <1>6, <2>3
    <3>2. appDone[im] = "idle" \/ \E m \in DOMAIN gpu[r] : m <= up(r, n) /\ WaitsApp(r, m, im)
      BY <3>1 DEF SemInv, ShownAfterWait
    <3> QED BY <1>5, <2>1, <2>2, <3>2
  <2>4. ASSUME NEW im \in Image, Consumed(im)
        PROVE  \/ lost \/ appDone'[im] = "idle"
               \/ \E m \in DOMAIN gpu'[call.queue] : WaitsApp(call.queue, m, im)'
    <3>1. call.queue \in Queues
      BY <2>4 DEF FenceInv, RecordedIsReady, Consumed
    <3>2. lost \/ appDone[im] = "idle"
            \/ \E m \in DOMAIN gpu[call.queue] : WaitsApp(call.queue, m, im)
      BY <2>4 DEF SemInv, ShownAfterWait
    <3>3. PICK r \in Queues : r = call.queue
      BY <3>1
    <3>4. lost \/ appDone'[im] = "idle" \/ \E m \in DOMAIN gpu'[r] : WaitsApp(r, m, im)'
      BY <2>1, <2>2, <3>2, <3>3
    <3>5. lost \/ appDone'[im] = "idle"
            \/ \E m \in DOMAIN gpu'[call'.queue] : AppSem(im) \in gpu'[call'.queue][m].waits
      BY <1>1, <3>3, <3>4 DEF WaitsApp, AppSem
    <3> QED BY <1>1, <3>5 DEF WaitsApp, AppSem
  <2> QED BY <1>1, <1>9, <2>3, <2>4 DEF ShownAfterWait
<1>16. DoneAwaited'
  <2>1. /\ \A im \in Image : Queued(im)' => Queued(im)
        /\ \A im \in Image : b.op = "draw" /\ im \in b.imgs => Queued(im) /\ ~Queued(im)'
    BY <1>0, <1>1, ExecuteRemovesDraw DEF FenceInv, OneDraw
  <2>2. \A im \in Image \ dropped : Queued(im)' => ~overlayDone'[im]
    BY <1>1, <2>1 DEF SemInv, DoneAwaited
  <2>3. ASSUME NEW im \in Image \ dropped, Queued(im)' \/ overlayDone'[im] PROVE Awaited(im)'
    <3>1. Awaited(im)
      BY <1>1, <2>1, <2>3 DEF SemInv, DoneAwaited
    (* The head shows the image: it has waited overlay_done, which no draw  *)
    (* of the image still queued has signaled.                              *)
    <3>2. ~(Shows(q, 1, im) /\ DoneSem(im) \in b.waits)
      <4>1. ASSUME Shows(q, 1, im), DoneSem(im) \in b.waits PROVE FALSE
        <5>1. overlayDone[im]
          BY <1>1, <4>1 DEF Signaled, DoneSem
        <5>2. b.op # "draw"
          BY <1>8, <4>1
        <5> QED BY <1>1, <2>1, <2>3, <4>1, <5>1, <5>2 DEF SemInv, DoneAwaited
      <4> QED BY <4>1
    <3>3. CASE lost \/ where[im[1]] # "map" \/ im \in Elems(overlaySems)
      BY <1>1, <3>3 DEF Awaited
    <3>4. CASE \E r \in Queues : \E n \in DOMAIN gpu[r] :
                  Shows(r, n, im) /\ DoneSem(im) \in gpu[r][n].waits
      <4>1. PICK r \in Queues : \E n \in DOMAIN gpu[r] :
                  Shows(r, n, im) /\ DoneSem(im) \in gpu[r][n].waits
        BY <3>4
      <4>2. PICK n \in DOMAIN gpu[r] : Shows(r, n, im) /\ DoneSem(im) \in gpu[r][n].waits
        BY <4>1
      <4>3. ~(r = q /\ n = 1)
        BY <1>2, <3>2, <4>2
      <4>4. /\ down(r, n) \in DOMAIN gpu'[r] /\ Shows(r, down(r, n), im)'
            /\ DoneSem(im) \in gpu'[r][down(r, n)].waits
        BY <1>4, <1>7, <4>2, <4>3
      <4>5. PICK m \in DOMAIN gpu'[r] : Shows(r, m, im)' /\ DoneSem(im) \in gpu'[r][m].waits
        BY <4>4
      <4> QED BY <4>5 DEF Awaited, DoneSem
    <3> QED BY <3>1, <3>3, <3>4 DEF Awaited
  <2> QED BY <1>1, <2>2, <2>3 DEF DoneAwaited
<1> QED BY <1>11, <1>12, <1>13, <1>14, <1>15, <1>16 DEF SemInv

(* The application acquires an image nothing shows, and renders into it. *)
LEMMA SemAcquire ==
    ASSUME TypeOK, SemInv, NEW im \in Image, Acquire(im) \/ AppRendered(im)
    PROVE  SemInv'
<1>1. UNCHANGED <<handle, gpu, lost, overlayDone, where, pc, call, recorded, at, overlaySems,
                  dropped, wpc, job>>
  BY DEF Acquire, AppRendered, stateVars, gpuVars, callVars, workerVars
<1>2. \A j \in Image : j # im => image'[j] = image[j] /\ appDone'[j] = appDone[j]
  BY DEF Acquire, AppRendered, TypeOK
<1>3. \/ /\ image[im] = "free" /\ image'[im] = "acquired" /\ handle[im[1]] = "live"
         /\ appDone'[im] = "pending"
      \/ image'[im] = image[im] /\ appDone[im] # "idle" /\ appDone'[im] # "idle"
  BY DEF Acquire, AppRendered, TypeOK
<1>4. \A j \in Image : Consumed(j)' <=> Consumed(j)
  BY <1>1 DEF Consumed
<1>5. \A j \in Elems(call.list) : j \in Image /\ image[j] = "acquired"
  BY ElemsType DEF TypeOK, SemInv, CallOwnsImages
<1>6. CallOwnsImages'
  BY <1>1, <1>2, <1>3, <1>5 DEF SemInv, CallOwnsImages, JobBusy
<1>7. SubmittedInOrder'
  BY <1>1 DEF SemInv, SubmittedInOrder
<1>8. \A j \in Image, q \in Queues : \A n \in DOMAIN gpu[q] :
         /\ Shows(q, n, j) /\ handle'[j[1]] # "none" => image'[j] = "queued"
         /\ WaitsApp(q, n, j) /\ j \notin dropped => appDone'[j] # "idle"
         /\ Shows(q, n, j) /\ appDone[j] = "idle" => appDone'[j] = "idle"
  BY <1>1, <1>2, <1>3 DEF SemInv, ShownOnce, AppWaited
<1>9. \A j \in Image : Consumed(j) /\ appDone[j] = "idle" => appDone'[j] = "idle"
  BY <1>2, <1>3, <1>5 DEF Consumed
<1>10. \A j \in Image \ dropped : image'[j] = "acquired" /\ ~Consumed(j) => appDone'[j] # "idle"
  BY <1>2, <1>3 DEF SemInv, AppWaited
<1> QED BY <1>1, <1>4, <1>6, <1>7, <1>8, <1>9, <1>10, SemQueuesKept

(* Nothing of a lost device is executed, nor waited. *)
LEMMA SemDeviceLost ==
    ASSUME TypeOK, SemInv, DeviceLost
    PROVE  SemInv'
<1>1. /\ UNCHANGED <<handle, image, appDone, overlayDone, pc, call, recorded, at, overlaySems,
                     dropped, wpc, job>>
      /\ lost' /\ gpu' = [q \in Queues |-> <<>>]
  BY DEF DeviceLost, appVars, callVars, workerVars
<1>2. CallOwnsImages'
  BY <1>1 DEF SemInv, CallOwnsImages, JobBusy
<1>3. SubmittedInOrder'
  BY <1>1 DEF SemInv, SubmittedInOrder
<1>4. /\ \A r \in Queues : DOMAIN gpu'[r] = {}
      /\ \A im \in Image : ~Queued(im)' /\ Awaited(im)'
  BY <1>1, <1>2, LostIsEmpty DEF Awaited, Queued
<1>5. \A im \in Image : Consumed(im)' <=> Consumed(im)
  BY <1>1 DEF Consumed
<1>6. ShownOnce' /\ DoneAwaited'
  BY <1>4 DEF ShownOnce, DoneAwaited
<1>7. AppWaited'
  BY <1>1, <1>4, <1>5 DEF SemInv, AppWaited, WaitedOnce
<1>8. ShownAfterWait'
  BY <1>1, <1>4 DEF ShownAfterWait
<1> QED BY <1>2, <1>3, <1>6, <1>7, <1>8 DEF SemInv

(* A swapchain is released with its images; none is being presented. *)
LEMMA SemRelease ==
    ASSUME TypeOK, FenceInv, SemInv, NEW w \in Workers, Release(w)
    PROVE  SemInv'
<1>0. PICK v : v = job[w].victim
  OBVIOUS
<1>1. /\ UNCHANGED <<gpu, lost, overlayDone, where, pc, call, recorded, at, overlaySems,
                     dropped>>
      /\ wpc[w] = "release" /\ job'[w] = NoJob
      /\ \A u \in Workers : u # w => job'[u] = job[u]
      /\ handle' = [handle EXCEPT ![v] = "none"]
      /\ \A im \in Image : image'[im] = IF im[1] = v THEN "free" ELSE image[im]
      /\ \A im \in Image : appDone'[im] = IF im[1] = v /\ lost THEN "idle" ELSE appDone[im]
  BY <1>0 DEF Release, Return, TypeOK, stateVars, gpuVars, callVars
<1>2. v \in Swapchains /\ v \in JobBusy(w)
  BY <1>0, <1>1 DEF FenceInv, Exclusive, JobBusy, TypeOK
<1>3. \A s \in Swapchains : handle'[s] = IF s = v THEN "none" ELSE handle[s]
  BY <1>1, <1>2 DEF TypeOK
<1>4. \A im \in Image : im[1] \in Swapchains /\ im[1] # None
  BY PresentAssumption DEF Image
<1>5. \A im \in Elems(call.list) : im \in Image /\ im[1] # v
  BY <1>2, ElemsType DEF TypeOK, SemInv, CallOwnsImages
<1>6. \A im \in Image : Consumed(im)' <=> Consumed(im)
  BY <1>1 DEF Consumed
<1>7. CallOwnsImages'
  <2>1. \A im \in Elems(call.list), u \in Workers : im[1] \notin {job'[u].new, job'[u].victim}
    BY <1>1, <1>4, <1>5 DEF SemInv, CallOwnsImages, JobBusy, NoJob
  <2>2. \A im \in Image : handle'[im[1]] = "none" => image'[im] = "free"
    BY <1>1, <1>3, <1>4 DEF SemInv, CallOwnsImages
  <2> QED BY <1>1, <1>5, <2>1, <2>2 DEF SemInv, CallOwnsImages, JobBusy
<1>8. SubmittedInOrder'
  BY <1>1 DEF SemInv, SubmittedInOrder
<1>9. lost => \A q \in Queues : DOMAIN gpu[q] = {}
  BY LostIsEmpty DEF SemInv
<1>10. \A im \in Image, q \in Queues : \A n \in DOMAIN gpu[q] :
          /\ Shows(q, n, im) /\ handle'[im[1]] # "none" => image'[im] = "queued"
          /\ WaitsApp(q, n, im) /\ im \notin dropped => appDone'[im] # "idle"
          /\ Shows(q, n, im) /\ appDone[im] = "idle" => appDone'[im] = "idle"
  BY <1>1, <1>3, <1>4, <1>9 DEF SemInv, ShownOnce, AppWaited
<1>11. \A im \in Image \ dropped : image'[im] = "acquired" /\ ~Consumed(im) => appDone'[im] # "idle"
  BY <1>1 DEF SemInv, AppWaited
<1>12. \A im \in Image : Consumed(im) /\ appDone[im] = "idle" => appDone'[im] = "idle"
  BY <1>1
<1> QED BY <1>1, <1>6, <1>7, <1>8, <1>10, <1>11, <1>12, SemQueuesKept

(* A handle value is used again once nothing queued shows its old images. *)
LEMMA SemCreate ==
    ASSUME TypeOK, SemInv, NEW w \in Workers, NEW s \in Swapchains,
           NEW old \in Swapchains \cup {None}, CreateSwapchainKHR(w, s, old)
    PROVE  SemInv'
<1>1. /\ UNCHANGED <<image, appDone, gpu, lost, overlayDone, where, pc, call, recorded, at,
                     overlaySems, dropped>>
      /\ handle[s] = "none" /\ s \notin CallBusy /\ Fresh(s)
      /\ old # None => handle[old] = "live" /\ old \notin CallBusy
      /\ \A r \in Swapchains : r # s /\ r # old => handle'[r] = handle[r]
      /\ old # None => handle'[old] = "retired"
      /\ \A u \in Workers : u # w => job'[u] = job[u]
      /\ job'[w] = job[w] \/ (job'[w].new = s /\ job'[w].victim = old)
  <2>1. s # old
    BY PresentAssumption DEF CreateSwapchainKHR
  <2>2. /\ UNCHANGED <<image, appDone, gpu, lost, overlayDone, where, pc, call, recorded, at,
                       overlaySems, dropped>>
        /\ handle[s] = "none" /\ s \notin CallBusy /\ Fresh(s)
        /\ old # None => handle[old] = "live" /\ old \notin CallBusy
    BY DEF CreateSwapchainKHR, Busy, stateVars, gpuVars, callVars
  <2>3. /\ \A r \in Swapchains : r # s /\ r # old => handle'[r] = handle[r]
        /\ old # None => handle'[old] = "retired"
    BY <2>1 DEF CreateSwapchainKHR
  <2>4. /\ \A u \in Workers : u # w => job'[u] = job[u]
        /\ job'[w] = job[w] \/ (job'[w].new = s /\ job'[w].victim = old)
    <3>1. CASE UNCHANGED workerVars
      BY <3>1 DEF workerVars
    <3>2. ASSUME NEW c \in BOOLEAN,
                 job' = [job EXCEPT ![w] = [new |-> s, victim |-> old, capable |-> c]]
          PROVE  /\ \A u \in Workers : u # w => job'[u] = job[u]
                 /\ job'[w] = job[w] \/ (job'[w].new = s /\ job'[w].victim = old)
      BY <3>2 DEF TypeOK
    <3> QED BY <3>1, <3>2 DEF CreateSwapchainKHR
  <2> QED BY <2>2, <2>3, <2>4
<1>2. \A im \in Image : im[1] \in Swapchains /\ im[1] # None
  BY PresentAssumption DEF Image
<1>3. \A im \in Elems(call.list) : im \in Image /\ im[1] \in CallBusy
  BY ElemsType DEF TypeOK, Elems, CallBusy
<1>4. CallOwnsImages'
  <2>1. \A im \in Elems(call.list), u \in Workers : im[1] \notin {job'[u].new, job'[u].victim}
    BY <1>1, <1>2, <1>3 DEF SemInv, CallOwnsImages, JobBusy
  <2>2. \A im \in Image : handle'[im[1]] = "none" => handle[im[1]] = "none"
    BY <1>1, <1>2
  <2> QED BY <1>1, <2>1, <2>2 DEF SemInv, CallOwnsImages, JobBusy
<1>5. SubmittedInOrder'
  BY <1>1 DEF SemInv, SubmittedInOrder
<1>6. \A im \in Image : Consumed(im)' <=> Consumed(im)
  BY <1>1 DEF Consumed
<1>7. \A im \in Image, q \in Queues : \A n \in DOMAIN gpu[q] :
         Shows(q, n, im) /\ handle'[im[1]] # "none" => image'[im] = "queued"
  <2>1. ASSUME NEW im \in Image, NEW q \in Queues, NEW n \in DOMAIN gpu[q], Shows(q, n, im)
        PROVE  im[1] # s
    <3>1. gpu[q][n] \in Batches
      BY DEF Batches, Elems
    <3> QED BY <1>1, <2>1, <3>1 DEF Fresh, Shows
  <2> QED BY <1>1, <1>2, <2>1 DEF SemInv, ShownOnce
<1>8. \A im \in Image, q \in Queues : \A n \in DOMAIN gpu[q] :
         WaitsApp(q, n, im) /\ im \notin dropped => appDone'[im] # "idle"
  BY <1>1 DEF SemInv, AppWaited
<1>9. \A im \in Image \ dropped : image'[im] = "acquired" /\ ~Consumed(im) => appDone'[im] # "idle"
  BY <1>1 DEF SemInv, AppWaited
<1> QED BY <1>1, <1>4, <1>5, <1>6, <1>7, <1>8, <1>9, SemQueuesKept

(* The initial states satisfy the invariant, and every step preserves it. *)
LEMMA SemInvInductive ==
    /\ Init => SemInv
    /\ TypeOK /\ FenceInv /\ SemInv /\ [Next]_vars => SemInv'
<1>1. Init => SemInv
  <2> SUFFICES ASSUME Init PROVE SemInv
    OBVIOUS
  <2>1. /\ call = NoCall /\ NoCall.list = <<>> /\ Elems(<<>>) = {} /\ pc = "idle"
        /\ recorded = <<>> /\ overlaySems = <<>> /\ at = 1 /\ ~lost
        /\ \A q \in Queues : gpu[q] = <<>> /\ DOMAIN gpu[q] = {}
    BY DEF Init, NoCall, Elems
  <2>2. \A im \in Image : /\ image[im] = "free" /\ ~overlayDone[im]
                          /\ ~Queued(im) /\ ~Consumed(im)
    BY <2>1 DEF Init, Queued, Consumed
  <2>3. CallOwnsImages /\ SubmittedInOrder
    BY <2>1, <2>2 DEF CallOwnsImages, SubmittedInOrder
  <2>4. ShownOnce /\ AppWaited
    BY <2>1, <2>2 DEF ShownOnce, AppWaited, WaitedOnce
  <2>5. ShownAfterWait /\ DoneAwaited
    BY <2>1, <2>2 DEF ShownAfterWait, DoneAwaited
  <2> QED BY <2>3, <2>4, <2>5 DEF SemInv
<1>2. TypeOK /\ FenceInv /\ SemInv /\ [Next]_vars => SemInv'
  <2> SUFFICES ASSUME TypeOK, FenceInv, SemInv, [Next]_vars PROVE SemInv'
    OBVIOUS
  <2> USE DEF appVars, stateVars, gpuVars, hostVars, callVars, workerVars
  <2>1. ASSUME NEW im \in Image, Acquire(im) \/ AppRendered(im) PROVE SemInv'
    BY <2>1, SemAcquire
  <2>2. ASSUME NEW im \in Image, SignalFence(im) PROVE SemInv'
    BY <2>2, SemQuietWorker DEF SignalFence, JobBusy
  <2>3. ASSUME NEW q \in Queues, Execute(q) PROVE SemInv'
    BY <2>3, SemExecute
  <2>4. CASE DeviceLost
    BY <2>4, SemDeviceLost
  <2>5. CASE SnapshotChanges \/ HostDisables
    BY <2>5, SemQuietWorker DEF SnapshotChanges, HostDisables, JobBusy
  <2>6. ASSUME NEW q \in Queues, NEW l \in PresentLists, QueuePresentKHR(q, l)
        PROVE SemInv'
    <3>1. /\ l \in Seq(Image) /\ AppSems(l) \in SUBSET Semaphore
          /\ \A im : AppSem(im) \in AppSems(l) <=> im \in Elems(l)
      <4>1. l \in Seq(Image)
        BY PresentListType
      <4>2. AppSems(l) \in SUBSET Semaphore
        BY <4>1, ElemsType, BatchType DEF AppSems
      <4>3. \A im : AppSem(im) \in AppSems(l) <=> im \in Elems(l)
        BY SemaphoresDiffer DEF AppSems
      <4> QED BY <4>1, <4>2, <4>3
    <3>2. /\ pc = "idle" /\ call = NoCall /\ Elems(call.list) = {} /\ overlaySems = <<>>
          /\ Elems(overlaySems) = {}
          /\ \A im \in Elems(l) : image[im] = "acquired" /\ im[1] \notin Busy
          /\ \A im \in Image : ~Consumed(im)
          /\ UNCHANGED <<handle, appDone, overlayDone, lost, where, wpc, job>>
      BY <2>6 DEF QueuePresentKHR, SemInv, CallOwnsImages, SubmittedInOrder, NoCall, Elems, Consumed
    <3>3. CASE PresentDownChain(q, l, AppSems(l))
      BY <3>1, <3>2, <3>3, SemPresent
    <3>4. CASE ~(envDisabled \/ overlayFailed \/ q \notin GraphicsQueues)
      <4>1. /\ pc' = "record" /\ call' = [queue |-> q, list |-> l]
            /\ UNCHANGED <<gpu, image, recorded, overlaySems, dropped>>
        BY <2>6, <3>4 DEF QueuePresentKHR
      <4>2. CallOwnsImages'
        BY <3>2, <4>1 DEF SemInv, CallOwnsImages, Busy, JobBusy
      <4>3. SubmittedInOrder'
        <5>1. recorded = <<>> /\ Elems(recorded) = {}
          BY <3>2 DEF FenceInv, RecordedIsReady, Elems
        <5> QED BY <3>2, <4>1, <5>1 DEF SubmittedInOrder
      <4>4. \A im \in Image : ~Consumed(im)'
        BY <4>1 DEF Consumed
      <4> QED BY <3>2, <4>1, <4>2, <4>3, <4>4, SemQuiet
    <3> QED BY <2>6, <3>3, <3>4 DEF QueuePresentKHR
  <2>7. CASE RecordRefused \/ RecordFails \/ RecordWaitFails \/ OverlayThrows
    BY <2>7, SemForward
       DEF RecordRefused, RecordFails, RecordWaitFails, OverlayThrows, Recording
  <2>8. CASE RecordBegin \/ BuildFrame
    <3>1. /\ pc \in {"record", "frame", "blank"} /\ pc' \in {"record", "frame", "blank", "fence"}
          /\ UNCHANGED <<handle, gpu, image, appDone, overlayDone, lost, where, call, recorded,
                         overlaySems, dropped, wpc, job>>
      BY <2>8 DEF RecordBegin, BuildFrame
    <3>2. SubmittedInOrder'
      BY <3>1 DEF SemInv, SubmittedInOrder
    <3> QED BY <3>1, <3>2, SemQuietCall DEF Consumed
  <2>9. CASE RecordDraw
    <3>1. /\ pc = "fence" /\ pc' = "record" /\ recorded' = Append(recorded, Current)
          /\ UNCHANGED <<handle, gpu, image, appDone, overlayDone, lost, where, call,
                         overlaySems, dropped, wpc, job>>
      BY <2>9 DEF RecordDraw
    <3>2. Current \in Elems(call.list) /\ Current \in Image
      BY <3>1 DEF TypeOK, Current, Elems
    <3>3. \A im \in Elems(recorded)' : im \in Elems(recorded) \/ im = Current
      <4>1. recorded \in Seq(Image) /\ recorded' \in Seq(Image)
            /\ Len(recorded') = Len(recorded) + 1
        BY <3>1, <3>2 DEF TypeOK
      <4>2. \A n \in 1..(Len(recorded) + 1) :
               (n \in 1..Len(recorded) /\ recorded'[n] = recorded[n]) \/ recorded'[n] = Current
        BY <3>1, <3>2, <4>1
      <4> QED BY <4>1, <4>2 DEF Elems
    <3>4. SubmittedInOrder'
      BY <3>1, <3>2, <3>3 DEF SemInv, SubmittedInOrder
    <3> QED BY <3>1, <3>4, SemQuietCall DEF Consumed
  <2>10. CASE EndPhase1
    <3>1. CASE recorded = <<>>
      BY <2>10, <3>1, SemForward DEF EndPhase1, Recording
    <3>2. CASE recorded # <<>>
      <4>1. /\ pc = "record" /\ pc' = "submit" /\ at' = 1
            /\ UNCHANGED <<handle, gpu, image, appDone, overlayDone, lost, where, call, recorded,
                           overlaySems, dropped, wpc, job>>
        BY <2>10, <3>2 DEF EndPhase1
      <4>2. Elems(overlaySems) = {}
        BY <4>1 DEF SemInv, SubmittedInOrder, Elems
      <4>3. SubmittedInOrder'
        BY <3>2, <4>1, <4>2 DEF SemInv, SubmittedInOrder
      <4> QED BY <4>1, <4>3, SemQuietCall DEF Consumed
    <3> QED BY <3>1, <3>2
  <2>11. CASE Submit
    BY <2>11, SemSubmit
  <2>12. ASSUME NEW r \in BOOLEAN, SubmitFails(r) PROVE SemInv'
    <3>1. CASE at = 1
      BY <2>12, <3>1, SemForward DEF SubmitFails
    <3>2. CASE at # 1
      <4>1. /\ pc = "submit" /\ pc' = "present" /\ at > 1
            /\ UNCHANGED <<handle, gpu, image, appDone, overlayDone, lost, where, call, recorded,
                           at, overlaySems, dropped, wpc, job>>
        BY <2>12, <3>2 DEF SubmitFails, TypeOK
      <4>2. SubmittedInOrder'
        BY <4>1 DEF SemInv, SubmittedInOrder
      <4> QED BY <4>1, <4>2, SemQuietCall DEF Consumed
    <3> QED BY <3>1, <3>2
  <2>13. CASE PresentDrawn
    <3>0. PICK ws : ws = {DoneSem(im) : im \in Elems(overlaySems)}
      OBVIOUS
    <3>1. /\ PresentDownChain(call.queue, call.list, ws)
          /\ UNCHANGED <<handle, appDone, overlayDone, lost, where, wpc, job>>
          /\ pc = "present" \/ (pc = "submit" /\ at > Len(recorded))
      BY <2>13, <3>0 DEF PresentDrawn
    <3>2. /\ call.list \in Seq(Image) /\ call.queue \in Queues
          /\ ws \in SUBSET Semaphore /\ \A im : AppSem(im) \notin ws
          /\ \A im \in Elems(overlaySems) : DoneSem(im) \in ws
      BY <3>0, <3>1, ElemsType, BatchType, SemaphoresDiffer DEF TypeOK, FenceInv, RecordedIsReady
    <3>3. \A im \in Elems(call.list) : im \in Image /\ Consumed(im)
      <4>1. pc = "submit" => at > 1
        <5>1. pc = "submit" => Len(recorded) \in Nat \ {0} /\ at \in Nat
          BY EmptySeq DEF TypeOK, SemInv, SubmittedInOrder
        <5> QED BY <3>1, <5>1
      <4> QED BY <3>1, <4>1, <3>2, ElemsType DEF Consumed
    <3>4. \A im \in Elems(call.list) :
             lost \/ appDone[im] = "idle" \/ \E m \in DOMAIN gpu[call.queue] :
                WaitsApp(call.queue, m, im)
      BY <3>3 DEF SemInv, ShownAfterWait
    <3>5. /\ \A im \in Elems(call.list) : image[im] = "acquired"
          /\ \A im \in Elems(overlaySems) : im \in Elems(call.list)
      BY DEF SemInv, CallOwnsImages, SubmittedInOrder
    <3> QED BY <3>1, <3>2, <3>4, <3>5, SemPresent
  <2>14. ASSUME NEW w \in Workers, MoveOut(w) PROVE SemInv'
    <3>1. \A s \in Swapchains : where'[s] = "map" => where[s] = "map"
      BY <2>14 DEF MoveOut, TypeOK
    <3>2. \A im \in Image : im[1] \in Swapchains
      BY DEF Image
    <3> QED BY <2>14, <3>1, <3>2, SemQuietWorker DEF MoveOut, JobBusy
  <2>15. ASSUME NEW w \in Workers, WaitOverlayIdle(w) PROVE SemInv'
    BY <2>15, SemQuietWorker DEF WaitOverlayIdle, JobBusy
  <2>16. ASSUME NEW w \in Workers, WaitOverlayIdleFails(w) PROVE SemInv'
    BY <2>16, SemQuietWorker DEF WaitOverlayIdleFails, JobBusy
  <2>17. ASSUME NEW w \in Workers, DestroyState(w) PROVE SemInv'
    <3>1. \A s \in Swapchains : where'[s] = "map" => where[s] = "map"
      BY <2>17 DEF DestroyState, TypeOK
    <3>2. \A im \in Image : im[1] \in Swapchains
      BY DEF Image
    <3> QED BY <2>17, <3>1, <3>2, SemQuietWorker DEF DestroyState, JobBusy
  <2>18. ASSUME NEW w \in Workers, BuildState(w) PROVE SemInv'
    <3>1. /\ UNCHANGED <<handle, gpu, image, appDone, lost, pc, call, recorded, at, overlaySems,
                     dropped>>
          /\ wpc[w] = "build" /\ job'[w] = NoJob
          /\ \A u \in Workers : u # w => job'[u] = job[u]
      BY <2>18 DEF BuildState, Return, TypeOK
    <3>2. \A u \in Workers : \A x \in JobBusy(u)' : x \in JobBusy(u) \/ x = None
      BY <3>1 DEF JobBusy, NoJob
    <3>3. PICK s \in Swapchains : s = job[w].new
      BY <3>1 DEF FenceInv, Exclusive, TypeOK
    <3>4. where[s] = "none"
      BY <3>3, PresentAssumption DEF FenceInv, MovedIsOwned
    <3>5. CASE UNCHANGED <<where, overlayDone>>
      BY <3>1, <3>2, <3>5, SemQuietWorker
    <3>6. ASSUME NEW built \in BOOLEAN, StoreState(s, built) PROVE SemInv'
      <4>1. \A im \in Image : overlayDone'[im] => overlayDone[im] /\ im[1] # s
        BY <3>6 DEF StoreState
      <4>2. \A im \in Image : Queued(im) => im[1] # s
        BY <3>1, <3>3 DEF FenceInv, LetGo
      <4>3. \A im \in Image : im[1] # s /\ where'[im[1]] = "map" => where[im[1]] = "map"
        BY <3>6 DEF StoreState, TypeOK
      <4> QED BY <3>1, <3>2, <4>1, <4>2, <4>3, SemQuietWorker
    <3> QED BY <2>18, <3>3, <3>5, <3>6 DEF BuildState
  <2>19. ASSUME NEW w \in Workers, Release(w) PROVE SemInv'
    BY <2>19, SemRelease
  <2>20. ASSUME NEW w \in Workers, NEW s \in Swapchains,
                NEW old \in Swapchains \cup {None}, CreateSwapchainKHR(w, s, old)
         PROVE SemInv'
    BY <2>20, SemCreate
  <2>21. ASSUME NEW w \in Workers, NEW s \in Swapchains, DestroySwapchainKHR(w, s)
         PROVE SemInv'
    <3>1. \A u \in Workers : \A x \in JobBusy(u)' : x \in JobBusy(u) \/ x = None \/ x = s
      BY <2>21 DEF DestroySwapchainKHR, JobBusy, TypeOK
    <3>2. s \notin CallBusy
      BY <2>21 DEF DestroySwapchainKHR, Busy
    <3> QED BY <2>21, <3>1, <3>2, SemQuietWorker DEF DestroySwapchainKHR
  <2>22. CASE UNCHANGED vars
    BY <2>22, SemQuietWorker DEF vars, JobBusy
  <2> QED
    BY <2>1, <2>2, <2>3, <2>4, <2>5, <2>6, <2>7, <2>8, <2>9, <2>10, <2>11, <2>12,
       <2>13, <2>14, <2>15, <2>16, <2>17, <2>18, <2>19, <2>20, <2>21,
       <2>22
       DEF Next, PresenterStep, WorkerStep
<1> QED BY <1>1, <1>2

-----------------------------------------------------------------------------
(* The theorems about the semaphores *)

(* The semaphore invariant holds in every reachable state. *)
THEOREM SemaphoreInvariant == Spec => []SemInv
BY SemInvInductive, FenceInvariant, TypeCorrect, PTL DEF Spec

(* overlay_done is unsignaled again before its image is drawn a second time,*)
(* and a render-finished semaphore is waited once per acquisition: never by *)
(* a submit of QueuePresentKHR and by a forwarded present too, whichever    *)
(* submit or reset fails.  Images whose present the driver refused after    *)
(* its submits are left out: for them the code breaks both.                 *)
THEOREM SemaphoresAlternate == Spec => []SemaphoresPaired
<1>1. SemInv => SemaphoresPaired
  <2> SUFFICES ASSUME SemInv, NEW im \in Image \ dropped
               PROVE  /\ Queued(im) => ~overlayDone[im]
                      /\ WaitedOnce(AppSem(im))
                      /\ \A b \in Batches : AppSem(im) \in b.waits => appDone[im] # "idle"
    BY DEF SemaphoresPaired
  <2>1. Queued(im) => ~overlayDone[im]
    BY DEF SemInv, DoneAwaited
  <2>2. WaitedOnce(AppSem(im))
    BY DEF SemInv, AppWaited
  <2>3. \A b \in Batches : AppSem(im) \in b.waits => appDone[im] # "idle"
    BY DEF SemInv, AppWaited, WaitsApp, Batches, Elems
  <2> QED BY <2>1, <2>2, <2>3
<1> QED BY <1>1, SemaphoreInvariant, PTL

(* Only the execution of its present frees a queued image of a live         *)
(* swapchain, and not before the application's semaphore has been waited.   *)
LEMMA FreedWhenShown ==
    ASSUME TypeOK, FenceInv, SemInv, [Next]_vars, NEW im \in Image,
           image[im] = "queued", image'[im] = "free", handle'[im[1]] # "none"
    PROVE  appDone'[im] = "idle"
<1> USE DEF appVars, stateVars, gpuVars, hostVars, callVars, workerVars
<1>1. ASSUME NEW q \in Queues, Execute(q) PROVE appDone'[im] = "idle"
  <2>1. PICK b : b = Head(gpu[q])
    OBVIOUS
  <2>2. b.op = "present" /\ im \in b.imgs
    BY <1>1, <2>1 DEF Execute
  <2>3. 1 \in DOMAIN gpu[q] /\ gpu[q][1] = b /\ \A n \in DOMAIN gpu[q] : n \in Nat /\ n >= 1
    BY <1>1, <2>1, Dequeued DEF Execute
  <2>4. appDone[im] = "idle" \/ \E m \in DOMAIN gpu[q] : m <= 1 /\ WaitsApp(q, m, im)
    BY <2>2, <2>3 DEF SemInv, ShownAfterWait, Shows
  <2>5. appDone[im] = "idle" \/ AppSem(im) \in b.waits
    BY <2>3, <2>4 DEF WaitsApp
  <2> QED BY <1>1, <2>1, <2>5 DEF Execute
<1>2. ASSUME NEW w \in Workers, Release(w) PROVE FALSE
  <2>1. PICK v : v = job[w].victim
    OBVIOUS
  <2>2. v \in Swapchains
    BY <1>2, <2>1 DEF Release, FenceInv, Exclusive, TypeOK
  <2>3. handle'[v] = "none" /\ (im[1] # v => image'[im] = image[im])
    BY <1>2, <2>1, <2>2 DEF Release, TypeOK
  <2> QED BY <2>3
<1>3. ASSUME NEW q, NEW list, NEW waits, PresentDownChain(q, list, waits) PROVE FALSE
  <2>1. image'[im] \in {"queued", image[im]}
    BY <1>3 DEF PresentDownChain
  <2> QED BY <2>1
<1>4. CASE UNCHANGED image
  BY <1>4
<1>5. ASSUME NEW j \in Image, Acquire(j) PROVE FALSE
  BY <1>5 DEF Acquire, TypeOK
<1>6. CASE \/ \E j \in Image : AppRendered(j) \/ SignalFence(j)
           \/ DeviceLost \/ SnapshotChanges \/ HostDisables
  BY <1>4, <1>6 DEF AppRendered, SignalFence, DeviceLost, SnapshotChanges, HostDisables
<1>7. ASSUME NEW q \in Queues, NEW l \in PresentLists, QueuePresentKHR(q, l) PROVE FALSE
  BY <1>3, <1>7 DEF QueuePresentKHR
<1>8. CASE PresenterStep \/ RecordWaitFails \/ OverlayThrows
  BY <1>3, <1>4, <1>8 DEF PresenterStep, RecordWaitFails, OverlayThrows, RecordRefused, RecordBegin, BuildFrame,
     RecordDraw, RecordFails, EndPhase1, Submit, PresentDrawn, SubmitFails, Forward
<1>9. ASSUME NEW w \in Workers,
             MoveOut(w) \/ WaitOverlayIdle(w) \/ WaitOverlayIdleFails(w) \/ DestroyState(w)
             \/ BuildState(w)
      PROVE  FALSE
  BY <1>9 DEF MoveOut, WaitOverlayIdle, WaitOverlayIdleFails, DestroyState, BuildState
<1>10. ASSUME NEW w \in Workers, NEW s \in Swapchains, NEW old \in Swapchains \cup {None},
              CreateSwapchainKHR(w, s, old) \/ DestroySwapchainKHR(w, s)
       PROVE  FALSE
  BY <1>10 DEF CreateSwapchainKHR, DestroySwapchainKHR
<1>11. CASE UNCHANGED vars
  BY <1>4, <1>11 DEF vars
<1> QED BY <1>1, <1>2, <1>5, <1>6, <1>7, <1>8, <1>9, <1>10, <1>11 DEF Next, WorkerStep

(* A frame is shown only after the application's rendering of it has been   *)
(* waited for, drawn over or not, and whichever submit of the batch failed. *)
THEOREM ShownAfterRender == Spec => FrameShownAfterRender
<1>1. TypeOK /\ FenceInv /\ SemInv /\ [Next]_vars =>
         [\A im \in Image :
             image[im] = "queued" /\ image'[im] = "free" /\ handle'[im[1]] # "none"
                 => appDone'[im] = "idle"]_vars
  BY FreedWhenShown
<1> QED BY <1>1, TypeCorrect, FenceInvariant, SemaphoreInvariant, PTL
        DEF Spec, FrameShownAfterRender
=============================================================================
