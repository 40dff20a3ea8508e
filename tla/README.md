# Choir overlay in TLA+

Choir shows who is talking in a Discord voice channel on top of a running game.
A desktop **host** (Qt, single-threaded event loop) talks to the Discord client
over its RPC socket, reduces what it hears to an `OverlayState`, and broadcasts
snapshots over a Unix socket. Inside each **game** a Vulkan layer (or an OpenGL
interposer) runs a small client thread that keeps the latest snapshot and draws
it into the swapchain image on every present. This directory holds TLA+ modules
for the parts of that system with state worth reasoning about, the TLC
configurations that check them, and proofs checked by TLAPS.

## Inventory

| Component (source) | State | Operations | Hard behaviour | What makes it correct |
|---|---|---|---|---|
| Vulkan present path (`layer/swapchain.cpp`) | `g_swapchains`, per-image command buffer, fence, semaphore, `in_flight`; ImGui's process-global context; `overlay_failed` | create / destroy swapchain, present | presenter and worker threads of the game, the GPU as a third actor, every Vulkan call may fail half way | every fence waited for has a draw behind it; nothing the GPU may read is re-recorded or destroyed; semaphores signal and wait in pairs; a present and a teardown return |
| Discord RPC client (`host/discord/rpc_client.cpp`, transport) | `state_`, socket, buffer, `reconnect_timer_`, `subscribed_channel_`, `self_user_id_`, token | start, stop, timer, bytes, close, seven replies, six events | OAuth and the icon fetch run a *nested event loop* in the middle of a handler; the tray's reconnect can run there; sends fail | never stranded without a timer; subscriptions match the channel; handshake goes on |
| Overlay state (`host/model/overlay_state.cpp`) | vector of participants with a user index, notifications, config, published snapshot | eight events, `set_config` | erasing shifts indices; cap on notifications | index and vector agree, every change is published |
| State server / client (`host/server/state_server.cpp`, `overlay/state_client.cpp`) | connections, classified or not, last snapshot, avatars announced; `mode`, backoff, snapshot on the game's side | hello, broadcast, disconnect, connect, poll, stop | host restarts, games start first, denied games, a client thread that must be joined | a classified game ends with the current snapshot; a denied one stays inert |
| Backends (`host/config/backends.cpp`, host main) | four installed files, config consent, the running host's view | install, uninstall, up-to-date check, launch, settings buttons | crash between two system calls, `--uninstall` in a second process, AppImage upgrade | no torn library, no silent version mix, no write without consent |
| Overlay drawing (`overlay/overlay_ui.cpp`, `overlay/fade.hpp`) | `g_anim`, brightness per user, kept from frame to frame | draw | order of toasts against the reducer's order; rows that come and go between frames | the newest toast is where it says; a row that appears does not inherit an old brightness |
| Framing (`ipc/framing.cpp`, `ipc/protocol.cpp`, and the readers in `state_server.cpp` and `ipc_transport.cpp`) | receive buffers | write a frame, read some bytes, peel frames | partial reads and writes, frames at the cap, end of stream in the middle; three readers that order reading, bounding and peeling differently | messages come out whole, in order, once |
| Layer dispatch (`layer/dispatch.cpp`, `layer/layer_entry.cpp`) | `g_instances`, `g_devices` by loader key, queues and the failure latch of each device | create / destroy instance and device, look-ups of the present hook | keys come round again on other threads; the book-keeping may throw after the device exists | an entry describes the device under its key; the overlay draws on graphics queues only |
| GL interposer (`gl/interposer.cpp`, `gl/gl_renderer.cpp`) | `g_ctxs`: context handle to renderer; ImGui's current context | swap hooks, destroy hooks, symbol look-up | several threads and contexts, handles used again, contexts destroyed elsewhere or past the hook | no state is used after it is deleted; each frame draws with its own objects; ImGui's current context exists; the game's swap happens, whatever fails short of an exception |
| Avatars (`host/model/avatar_cache.cpp`, `ipc/avatar_file.cpp`, `layer/avatar_textures.cpp`, `gl/gl_avatar_textures.cpp`) | files in the cache directory, `known_`, texture caches and the GPU objects in them | request, fetch, write, announce, load, shut down | a picture crosses two processes and a file written in place; an upload is a dozen Vulkan calls, each with an error path of its own | what is announced is whole, nothing leaks, an announced picture comes to be shown |
| Config, tray, JSON, emoji and other helpers | see `PROJECT.json` | | | partly modelled or out of scope, below |

Calls between them: RPC client → `OverlayState` (events, by Qt signal, synchronous);
`OverlayState` → server (publish callback); server ↔ client (socket frames, in
order); client → present path (`current_snapshot`, a shared pointer under a
mutex). The modules cut the system along those calls, and `Roster` is the
interface between the first two.

## Modules

| Module | Models | How |
|---|---|---|
| `OverlayPresent` | `swapchain.cpp` | one presenter (the game's present thread), `Workers` that create and destroy swapchains, and the GPU, which completes submitted draws or loses the device. `g_sc_lock` is a variable; one action per stretch of code between two points at which another thread or the GPU can be observed. The overlay's own Vulkan calls (reset, submit, recording, fence waits, the build of a state), C++ exceptions and the down-chain calls may each fail. `OverlayPresentMC` declares the symmetry of the swapchains |
| `RpcClient` | `rpc_client.cpp`, `ipc_transport.cpp`, the nested loops of `qt_http.cpp` | the state machine against an external Discord that answers commands in order, may close at any time and may be absent. `mode` says whether the code is in the event loop, or in a handler blocked in a nested loop (exchange, fetch), or seeding |
| `Roster` | | abstract interface: the channel shown and who is in it; the events the RPC client emits |
| `VoiceBoard` | | abstract reducer: one entry per user. Proved to implement `Roster` |
| `OverlayState` | `overlay_state.cpp` | the vector and the hash index of the code. Proved to implement `VoiceBoard` |
| `OverlayUi` | `draw_overlay`, `draw_voice_panel`, `draw_toasts` | extends `OverlayState` with frames drawn at any time: which rows there are, how `g_anim` is eased and pruned, where the toasts go |
| `FrameChannel` | | abstract channel: messages sent come out in order until one side gives up |
| `Framing` | `framing.cpp`, `protocol.cpp`, `on_ready_read` / `drain_frames`, `IpcTransport::poll` / `peel_one` | one writer, one byte stream, and one of the three readers (chosen initially). Each implements `FrameChannel`: every step is proved to be one of its, its liveness is checked |
| `GlInterposer` | `interposer.cpp`, `gl_renderer.cpp` | the game's threads, the GL library as the hooks see it, and one action per stretch of hook code between two points at which another thread can be observed; `Exception` is a throw of the overlay's code, which nothing catches. `GlInterposerMC` declares the symmetry of threads and of handles |
| `Dispatch` | `dispatch.cpp`, the guards of `QueuePresentKHR` | threads that create, destroy and present; a driver that hands out loader keys again; `RecordDeviceThrows` is an exception at any allocation |
| `StateLink` | `state_server.cpp`, `state_client.cpp` | one host that may be restarted, several games, a socket as two queues per connection |
| `AvatarPath` | `avatar_cache.cpp`, `avatar_file.cpp`, `avatar_textures.cpp`, `gl_avatar_textures.cpp` | composed with `StateLink`, which it extends: `BroadcastAvatar` there is the cache's `ready` callback here. Adds the host inside `request_url` (the fetch is a nested event loop, the write is not), the file, and the texture cache of each game with the objects it owns |
| `Backends` | `backends.cpp`, parts of `main.cpp` and the settings window | one action per system call that changes a file; crash between any two |
| `X_proofs` | | the theorems about `X` and their proofs, for `OverlayPresent`, `RpcClient`, `OverlayState`, `AvatarPath` (with `StateLink`), `Backends`, `Dispatch`, `GlInterposer` and `Framing`; `OverlayState_proofs` has those of `VoiceBoard` and `OverlayUi` as well |

`PROJECT.json` maps every definition to its source lines. Actions are named after
the functions they model.

## Runs

| Run | Instance | Shows |
|---|---|---|
| `present_pair` | two swapchains of one image (symmetric), a graphics and a compute queue, one worker, two swapchains in one present (3.4 M states) | `FenceHasItsDraw`: a fence the code counts as in flight has signaled or has a draw behind it; `DrawOwnsItsObjects`: nothing is destroyed under a draw unless the wait for it returned an error; `NeverRerecordInFlight`; `SemaphoresPaired`: signals and waits alternate whichever reset, submit or recording fails, unless the present itself is refused; `KnownJams`: a queue gets stuck in two known ways only; `FrameShownAfterRender`: a present that shows an image waits for what was drawn into it |
| `present_live` | one swapchain of two images (90 k) | a present and a teardown return, unless a queue is stuck in one of those ways |
| `rpc_session` | two channels, two users, three commands and two messages in flight (180 k) | `NeverStranded`: disconnected and not stopped implies the timer is armed, stopped implies that nothing is; `ReadyMeansAuthenticated`; `SubscriptionsAgree` and `FollowsTheUser`: what Discord has subscribed is what the client believes, and it is the user's channel once replies have drained; `SeedsGoToTheirChannel`; `Reconnects`, `SessionAdvances` |
| `overlay_ui` | three users (symmetric), cap of two notifications, frames at any time (387 k) | `IndexAgrees`, `KeepsTheNewest` (of what is published), `OrderKept`, refinement of `VoiceBoard`, and `FirstSightAtTarget`: a row that was not in the frame before appears at its own brightness, whoever joined, left or spoke in between |
| `avatar_path` | one game, one picture, one failure of a fetch, write or upload, one host restart, the code's backoff of 200 to 2000 ms (97 k) | `ActiveIsCurrent`: a game classified as active has, or will read, the current snapshot and every avatar announced; `InertIsDisabled`; `AnnouncedIsWhole`: a game is told of complete files only, except those whose writer was killed or could not remove them; `NothingLeaks`: after any failed upload and any shutdown the GPU objects are those of the cached textures; `ComesToShow`; and the liveness of the link: `GetsClassified` by a host that stays up, `JoinReturns` for the client thread |
| `backends` | two versions (55 k) | `FilesAreWhole`, `NeverStale`, `InstallsOnlyAgreed` |
| `framing` | each of the three readers, two messages of every length in `Lens`, read and written in any pieces (239 k) | `ImplementsChannel`; `RefusedForLength`: the overlay's reader refuses only frames within one read of the cap or over it, the server's only frames within the prefix of the cap or over it, Discord's only when more than the cap is outstanding; `EofLosesNothing`: every frame written whole is handled before the end of the stream is |
| `gl_swaps` | two threads, two handles (both symmetric), two contexts (1.1 M) | `NoUseAfterFree`: no deleted state is drawn with, and ImGui's current context is not a destroyed one; `DrawsOwnObjects`; `FrameIsPresented`: a swap hook is left only after the game's own swap, also when the renderer fails or is skipped, unless that swap does not resolve or the overlay's code throws, and a renderer that was given up throws for no later frame |
| `dispatch` | two threads, one instance key and two device keys, two instances and two devices over time, a graphics and a compute family with and without flags (2.4 M) | `EntryIsOwn`: functions, queues, instance and failure latch of an entry belong to the device under its key; `DrawsWhereItCan` |

Three runs expect a violation; each states a sentence of the repository that the
code does not keep. `PROJECT.json` quotes them.

| Run | Counterexample |
|---|---|
| `present_semaphore` | two drawn swapchains in one present: the second submit waits the first image's `overlay_done`, and so does the present |
| `present_context` | `destroy_state` runs outside `g_sc_lock` and moves ImGui's current context under a presenter that is building a frame |
| `toast_order` | the reducer inserts at the front, the drawing iterates in reverse: the oldest toast is at the anchor |

Other sentences of the repository that the code does not keep are in the models
without a run of their own. TLC finds a counterexample to each of the first five:

* "app's render-finished semaphores are waited exactly once" (`swapchain.cpp:679`):
  the down-chain present may run out of memory after the overlay's submits and
  enqueue nothing (`swapchain.cpp:748`); an application that presents the image
  again has its semaphore, which the first submit consumed, waited a second time.
* "The overlay's command buffers must not be in flight" (`swapchain.cpp:102`, of
  `destroy_state`): a fence wait in `wait_overlay_idle` that returns an error other
  than device loss is ignored (`swapchain.cpp:95`), and the objects of a pending
  draw are freed.
* "the fence is now genuinely in flight and will signal" (`swapchain.cpp:739`):
  behind a present refused and tried again a queue is stuck, the fence of a draw
  in it never signals, and the waits without a timeout do not return.
* "every failure degrades to "present the game's frame untouched"" (`interposer.cpp:5`):
  an exception in the look-up, in `init` or in `draw` (`interposer.cpp:200`, `208`,
  `216`) leaves the swap hook without the game's swap; the Vulkan hook has a `catch`
  there.
* "each context's ImGui state is single-threaded by construction"
  (`docs/specs/2026-06-21-opengl-support-design.md:98`): `g_mutex` is released before
  `init` and `draw`, and when two threads swap at once the second moves ImGui's
  current context under the first (`gl_renderer.cpp:79`). `GlInterposer` has those
  interleavings; that a frame keeps its own context until it ends is not among its
  properties because it is false.
* "Discord client absent → host retries connecting; overlay shows nothing"
  (`docs/specs/2026-06-17-discord-overlay-design.md:218`): `on_closed`
  (`rpc_client.cpp:278`) tells the overlay state nothing, and in `RpcClient`
  `shown` and `roster` survive a disconnect. Likewise a game keeps its last
  snapshot when the host goes (`state_client.cpp:274`, the same document's
  line 217).
* "a fresh or half-finished install reads as out of date" (`backends.hpp:39-41`):
  `backends_up_to_date` compares the two libraries, which are installed before
  the wrapper and the manifest; in `Backends` a crash in between leaves
  `UpToDate` true.
* "the present hook falls back to forwarding because device_data() finds no
  entry" (`dispatch.cpp:298-301`): without an entry the hook has no function to
  forward to and returns an error, and `DestroyDevice` calls nothing. In
  `Dispatch` such devices end in `lost`.

Some properties state exemptions, each for a case the code does not handle:

* `DrawOwnsItsObjects` leaves out an image whose fence wait in `wait_overlay_idle`
  returned an error on a device that is not lost (`unwaited`, cleared when a new
  state is stored under the handle).
* `SemaphoresPaired` leaves out the images of a present the driver refused after
  overlay submits (`dropped`), and for good, because their `overlay_done` is then
  signaled with nothing left to wait for it. `FrameShownAfterRender` has no such
  exemption.
* `KnownJams` names the two ways in which a queue comes to wait for a semaphore
  that nothing will signal: two swapchains drawn in one present
  (`present_semaphore`), and a present tried again after it was refused. A call
  whose submit or reset failed is not among them. `PresentReturns` and
  `IdleWaitReturns` exempt such a queue: behind it both waits do hang.
* `FrameIsPresented` exempts a swap symbol that does not resolve and a throw.
* `DrawsOwnObjects` leaves out handles whose entry the hooks cannot clear (a
  destroy resolved through `dlsym`, which `hook_for` does not redirect, or a swap
  during the destruction).
* `EofLosesNothing` leaves out `IpcTransport`, which drops what it read in the same
  poll as the end of the stream.
* `FirstSightAtTarget` leaves out a frame that follows one without rows, where
  nothing is pruned.

TLC finds a counterexample to each of them without its exemption.

### Bounds, and why they are enough

* `MaxPresent = 2` makes a second present of the same swapchain meet the fence of
  the first; two swapchains are what a multi-swapchain present needs; one image
  per swapchain makes reuse of its command buffer immediate. The swapchains are
  symmetric: handles are told apart by equality alone and the run checks no
  liveness.
* `present_live` has two images so that the wait on one is not the wait on the
  other, and a refused present is enough to get its queue stuck. It has one
  swapchain: with two the liveness check does not end in a reasonable time. What
  that leaves out is known: with two swapchains of two images, the doubly waited
  `overlay_done` of `present_semaphore` holds a present at the head of the queue,
  a later draw never executes, and the teardown of its swapchain hangs. The
  exemption of a stuck queue covers that case, so neither property claims more
  than it shows; that a queue gets stuck in no third way is checked with two
  swapchains, by `KnownJams` in `present_pair`.
* `MaxCmds` and `MaxMsgs` cap Discord's queues, not the number of sessions: the
  state space is closed under reconnects. Three commands are what a channel
  switch sends (unsubscribe old, subscribe new, get). A larger instance
  (`MaxMsgs = 3`, 1.24 M states) gives the same result.
* `MaxArrivals = 3` with `MaxNotifications = 2` overflows the cap; three users
  make an erase shift two entries. Users are told apart by equality alone and
  the run checks no liveness, so they are declared symmetric. One channel is
  enough there: every `ChannelSelect` clears the same state.
* `avatar_path` has one game. Games share nothing but what the host announces
  and publishes: no action's guard or effect relates two of them, except that a
  broadcast goes to all active ones. `StateLink` alone with two games and two
  host lives (6.9 M states) gives the same result for `ActiveIsCurrent` and
  `InertIsDisabled`.
* `Framing`: with `Base = 3`, `Cap = 12` and `Chunk = 6` a length takes more than
  one digit, a frame can be at the cap, just over it, or end exactly with a read,
  and a read can hold the end of one frame and the start of the next. `Lens` are
  the lengths around those edges; `WireMax = 8` is more than a read and less than
  a frame.
* `gl_swaps`: two contexts over two handles let a handle come round again and two
  contexts live at once; two threads let one destroy what the other draws.
* `dispatch`: a second instance and device reuse the keys of the first.
* `MaxLives = 2` is one host restart; `MaxQueue = 2` lets a broadcast overtake
  nothing yet pile up; `MaxRev` bounds how often the state changes.
* `MaxFailures = 1`: a failure followed by a retry that succeeds; each of the ten
  calls of an upload is the one that fails in some behaviour.
* `Versions = {v1, v2}` is one upgrade and the downgrade back.

### Fairness

* `OverlayPresent!FairSpec`: weak fairness of the presenter's and the workers'
  steps (the game keeps scheduling a thread inside a call) and of the GPU
  executing what is queued and signaling its fences, which Vulkan
  guarantees. No fairness of the game *starting* a call, nor of a fence wait
  failing: `RecordWaitFails` and `WaitOverlayIdleFails` may happen at any time and
  are never owed, so that no wait is taken to end by an error.
* `RpcClient!FairSpec`: weak fairness of the event loop's own work: the timer
  fires, bytes that arrived are read, a nested loop ends (the code arms a timeout
  on it). Nothing is assumed of the user, and a Discord that may vanish at any
  time is assumed only to answer what it has read while it is up.
* `AvatarPath!FairPathSpec`: weak fairness of the client thread (its poll has a
  timeout) and of the host's event loop while it runs; a fetch ends (its timer
  aborts it) and the write after it; a game with a renderer draws frames. Hosts
  need not start and nobody need request a picture; `GetsClassified` speaks of a
  host that stays up, `ComesToShow` of one that has announced a picture to a game
  whose renderer stays.

* `Framing!FairSpec`: weak fairness of writing (`write_frame` retries, Qt writes
  while there is room), of reading what is readable (both loops come back to
  their sockets) and of peeling. Nothing is assumed of who sends or closes.

## Proofs

TLC checks a property on the instances above, TLAPS for every value of the
constants that satisfies the module's assumption. Each component has an inductive
invariant, which TLC checked on an instance before it was proved: `Init`
establishes it, every action keeps it (one step per action, one lemma per helper
that several actions share), and the properties follow from it.

| Module | Theorems (property) |
|---|---|
| `OverlayPresent_proofs` | `TypeCorrect`; `FenceInvariant`; `FenceWaitsEnd` (`FenceHasItsDraw`); `DrawsOwnObjects` (`DrawOwnsItsObjects`); `NoRerecord` (`NeverRerecordInFlight`); `SemaphoreInvariant`; `SemaphoresAlternate` (`SemaphoresPaired`); `ShownAfterRender` (`FrameShownAfterRender`) |
| `RpcClient_proofs` | `RpcInvariant`; `TypeCorrect`; `RetriesUnlessStopped` (`NeverStranded`); `ReadyOnlyAuthenticated` (`ReadyMeansAuthenticated`); `SubscriptionsFollow` (`SubscriptionsAgree`); `FollowsUser` (`FollowsTheUser`); `SeedsStay` (`SeedsGoToTheirChannel`) |
| `OverlayState_proofs` | `TypeCorrect`; `IndexFollowsRows` (`IndexAgrees`); `NewestArePublished` (`KeepsTheNewest`); `RowsKeepTheirOrder` (`OrderKept`); `RowsImplementBoard` (`ImplementsBoard`); `BoardImplementsRoster`; `RowsImplementRoster`; of `OverlayUi`, `FramesLeaveTheState` and `RowsAppearAtTarget` (`FirstSightAtTarget`) |
| `Framing_proofs` | `FrameInvariant`; `TurnedAwayForLength` (`RefusedForLength`); `HeardInFull` (`EofLosesNothing`); `ReadersAreChannels` (the safety half of `ImplementsChannel`) |
| `AvatarPath_proofs` | `PathImplementsLink`; `NeverLeftBehind` (`ActiveIsCurrent`); `DeniedAreTold` (`InertIsDisabled`); `PathTypeCorrect` (`PathTypeOK`); `AnnouncedIsLoadable` (`AnnouncedIsWhole`); `NoLeak` (`NothingLeaks`) |
| `Backends_proofs` | `TypeCorrect`; `NoTornFile` (`FilesAreWhole`); `NoStaleLibrary` (`NeverStale`); `InstallsAreAgreed` (`InstallsOnlyAgreed`) |
| `Dispatch_proofs` | `TypeCorrect`; `EntryDescribesItsDevice` (`EntryIsOwn`); `DrawsOnlyWhereItCan` (`DrawsWhereItCan`) |
| `GlInterposer_proofs` | `TypeCorrect`; `NoThreadUsesFreed` (`NoUseAfterFree`); `FrameUsesOwnObjects` (`DrawsOwnObjects`); `SwapIsPassedOn` (`FrameIsPresented`) |

The assumptions are the modules' own, and TLC evaluates them in the runs. Most
say that a null value is none of the others and that a bound is a number. Those
that say more: graphics queues are queues and graphics families are families;
`InstKeys` and `DevKeys` are disjoint (`Dispatch`: both are addresses of loader
tables of live objects); no version is called `absent` (`Backends`); a socket to
Discord that has just been opened has room for a command (`RpcClient`, `MaxCmds`
is at least 1); the reconnect delay starts above 0 and not above its limit
(`StateLink`).

### What the invariants add

None of the properties is inductive, except those marked so.

* **Present path** (`FenceInv`). That a fence has a draw behind it is threatened by
  whoever resets it, which is sound only because an image has at most one draw in flight,
  whose fence is then unsignaled (`OneDraw`). A `SwapchainState` moved out of the
  map is drained by the thread that moved it, with the lock released: `Exclusive`
  (two workers never have the same handle as an argument, which Vulkan's external
  synchronisation demands of the game) and `MovedIsOwned` (a moved state belongs
  to one worker, and nothing of it is flagged in flight when that worker frees it)
  say that no one else reaches it then. The flag and the GPU part ways only where a
  wait returned an error; `LetGo` says that such a draw stays out of the presenter's
  reach, its image not flagged and its swapchain not in the map, until a new one
  takes the handle, of which nothing is queued by then. `RecordedIsReady` says that what the presenter
  has recorded and not yet submitted is still in the map, waited for, and named
  once, so that the submit that follows cannot put a second draw on an image.
  `SemInv`, on top of it, follows the semaphores through the queues: an image is
  shown by at most one queued present, and not while the game has it
  (`ShownOnce`). The game's semaphore is waited by that present or by a draw ahead
  of it in the same queue, and by nothing else (`AppWaited`, `ShownAfterWait`); in
  between, when a submit has waited it and the present is still to come, the call
  in progress stands for the present (`Consumed`), which is what a failed second
  submit must not forget. An overlay_done that is signaled, or will be, has a
  present that waits it, queued or due in this call (`DoneAwaited`). A refused
  present breaks that chain, so these parts speak of the images outside `dropped`;
  that no frame is shown before its rendering was waited for (`ShownAfterWait`)
  holds of all.
* **RPC client** (`RpcInv`). Two queues stand between what the client believes and
  what Discord does. `Subscribing` says that Discord, having handled the commands
  in flight, has exactly the subscriptions of `subscribed_channel_`; `Session`
  splits a connection at its authentication. Before it (`Greeting`) nothing
  follows the user, and one handshake gets one answer. After it the opening
  subscription and the query are both to come (`Asking`), the query alone is
  (`Querying`), or neither (`Following`, where the messages in flight lead to the
  user's channel). `RepliesFit` is why the test in `rpc_client.cpp:215` may drop a
  reply: a reply finds the client in the channel it names, or in none. `Authentic`
  holds back everything that only an authenticated connection has.
* **Overlay state** (`StateInv`). Index and vector agree (this part is inductive
  with the type invariant), and the notifications are the last to arrive, in order
  (`NewestKept`). `RemoveAtShifts` and `RebuildIndexFinds` say what `erase` and
  the loop after it do to a sequence. On them rests the refinement: each event of
  the vector is the same event of `VoiceBoard`, hence (`BoardImplementsRoster`)
  of `Roster`. Frames change nothing of it (`FramesLeaveTheState`); what they leave
  in `g_anim` is the brightness of exactly the rows drawn (`Pruned`), so a row
  that comes back starts afresh.
* **Link and path** (`PathInv`). `PathImplementsLink` shows that the steps of the
  avatar cache, its files and the textures are steps of `StateLink` or leave it
  alone, so what is proved of the link alone (`LinkInv`) holds of the whole.
  `Linked` is why a client gets its seed first: nothing is sent before its hello,
  and an entry dies with its connection. `Informed` follows the last snapshot in
  the queue and each avatar, sent or retained. For the files, `Writing` says that a
  torn file is the one being written or was cut, and `SafeFiles` carries "can be
  loaded" from the host's memory along the queues into the games
  (`QuietSpreads`: no other step announces anything). `UploadUndone` computes that
  each of the ten error paths destroys what was built before it.
* **Backends** (`BackendsInv`). `FilesAreWhole` and `NeverStale` are nearly
  inductive; that every write is agreed to is not: `GrantIsTheUsers` traces a
  grant, in the file, in memory or in an installation under way, to the user's last
  answer, through crashes and torn configurations.
* **Dispatch** (`DispatchInv`). `OneWorker`: a thread works on an object that
  lives, alone unless both present. `ObjectsLive`: a device's instance outlives
  it. With them a key that comes round again has no entry left (`EntriesOwn`), and
  a thread past the guards of the present hook still satisfies them at the draw
  (`DrawingAllowed`).
* **GL interposer** (`GlInv`). `OneHandle`: a state is in the map under one handle
  and is held for that handle only, so the thread that tears it down has it alone;
  `OwnHome`: outside the exemption a state's objects were made in the context that
  lives under its handle. `RendererInv`, on top of it: a renderer that is ready has
  its ImGui context and was not given up, and whoever draws draws with a ready one,
  because a thread that fails, throws or tears down does so to a state it holds alone;
  hence ImGui's current context is never a destroyed one (`CurrentLives`).
* **Framing** (`FrameInv`). `AllAccounted` is the heart of it: what is in the
  reader's buffer, on the wire and in the writer's hand is the frames not handed
  over yet, one after the other. It is said with the place where each frame ends
  (`Ends`, `Holds`), so that bytes move between the three without moving the
  places (`SplitBytes`, `MoveBytes`, `DropBytes`). `DigitsReadBack` shows that a
  length survives its four digits, and `DecodeReadsFrame` that each reader's test
  for a whole frame then holds exactly when the frame is there, unless it refuses
  the length. `NoFrameLeft` says
  that a reader which drains before it reads again goes back to reading with less
  than a frame; that is why its bound on the buffer is a bound on one frame, and
  why the transport to Discord, which checks before it drains, gets the weaker
  third case of `RefusedForLength`.

### Induction over data

The provers cannot instantiate an induction theorem, so what a recursive
definition computes is reached through sets. `LeastNumber` (every non-empty set of
numbers has a least element, from `WellFoundedInduction`) gives the first place
where two definitions differ, and with it `LastCommandWins`: the recursive
`SubsAfter` of `RpcClient`, which handles the commands one by one, leaves a
channel subscribed exactly if the last command that names it subscribes it; and
`BytesAreCounted`: the recursive sum in `Undelivered` is where the last frame
ends. All else is said of the last entry that matters (`HoldsTo`, `EndsAt`, `LeadsTo`), for
which one step of a queue is first-order. `WillShow` in `StateLink` is written
that way to begin with.

### Only model-checked

* `KnownJams`, which is an invariant: its proof would follow the waits of each
  queue's head through chains of submits that no other property needs.
* All liveness, which is outside the provers: `PresentReturns`, `IdleWaitReturns`,
  `Reconnects`, `SessionAdvances`, `GetsClassified`, `JoinReturns`, `ComesToShow`,
  and in `ImplementsChannel` that what is sent is delivered
  at last. That a step of the bytes is a step of the channel is proved.

## Abstractions

* Drawing, colour conversion, JSON, fonts and pipelines are data. In `StateLink`
  and `RpcClient` a frame is one message, sent and received whole and in order:
  that is what `Framing` shows of the byte streams beneath them.
* `Framing`: a byte is a digit below `Base`; reading, bounding and peeling are
  separate steps, as nothing else touches a reader's buffer.
* `OverlayUi`: a frame draws the published snapshot (that a game may lag is
  `StateLink`'s subject); `fade_toward` is any value between the old brightness
  and the target.
* `GlInterposer`: the environment switch, the host's `Disabled` and a missing
  snapshot are the choice in `Swap`. Each of the hooks looks up the symbol of its
  own swap, which may not resolve; that of the destroy hooks is taken to resolve.
  A renderer whose making throws keeps the ImGui context it made (`gui`), and the
  next swap makes another.
* `dropped` and `unwaited` in `OverlayPresent` and `behind` in `GlInterposer` are
  history variables of the exemptions above; no action's guard reads them.
* `Dispatch`: functions and queues are known by the device they came from. Of the
  families asked for the code takes the first capable one, the model any one.
  `DISABLE_CHOIR_OVERLAY` turns all of it off and is left out.
* The OS is modelled from how the code uses it: `connect` fails only when the
  host is down, a full backlog is not modelled, a write to a closed socket
  returns an error. `rename` is atomic; a crash keeps what was renamed and drops
  nothing else.
* One message is handled per poll step. The code drains a batch, which is a
  sequence of such steps with no other action of that thread in between; all
  intermediate states of the model are states after some shorter batch.
* `Stop` and `Start` of the RPC client are two operations of its interface. The
  tray calls them back to back, so the model has more behaviours than the host.
* Outcomes the driver decides are choices: device loss at any time, a fence wait
  that ends early with another error (`RecordWaitFails`, `WaitOverlayIdleFails`), a
  down-chain present that enqueues nothing (`PresentDownChain`). A draw whose
  objects were freed under it either executes, with no fence left to signal, or the
  device is lost.
* An application's render-finished semaphore is known by its image; an application
  that presents again after a refusal waits the same one.
* `AvatarPath`: a file is read in one step (its writer only appends, so a reader
  in between finds it torn or whole), an upload is one step with a choice of the
  call that fails, and the calls that make no object (bind, map, begin, end,
  wait) fail together with the neighbour that has the same error path. One
  renderer per game: caches of two swapchains share nothing.
* One host process at a time; a second one that installs or caches at the same
  time (it would share temporary file names) is left out.
* Signals: a write to a closed socket fails with an error; the process-wide
  disposition of SIGPIPE belongs to Qt and the environment.
* A client whose host reads nothing spins in `write_frame` on `EAGAIN` without
  looking at `stop_` (`framing.cpp:19-20`); the model takes a write as progress, so
  `JoinReturns` assumes a host that reads or goes.

## Not modelled, and the plan

1. Modelling: the composition of `RpcClient` with `OverlayState` through
   `Roster`, with members per channel (a `GET_SELECTED_VOICE_CHANNEL` reply that
   `rpc_client.cpp:215` drops loses participants). `Config`: the fields beside
   consent, which are independent data. Two hosts on one cache and one set of
   backends. The cap on emoji per notification.
2. Proofs: every invariant and action property of the passing runs is a theorem,
   `KnownJams` excepted; the composition above would carry `FollowsTheUser` over to the rows drawn.

Out of reach or without state: pipelines and fonts (plumbing of Vulkan
and GL objects), Qt widgets, emoji and path helpers, colour conversion. `layout_runs` and the emoji scanner split text and keep
nothing; `swapchain_color.hpp` and `swapchain_usage.hpp` are tables. `flush()` inside
the server's loop over its clients may re-enter it, depending on Qt.
