----------------------------- MODULE GlInterposer -----------------------------
(***************************************************************************)
(* The overlay inside an OpenGL game (src/gl/interposer.cpp and            *)
(* gl_renderer.cpp): the buffer swap and the destruction of a context are  *)
(* hooked, and g_ctxs keeps a renderer for each context by its HANDLE.     *)
(*                                                                         *)
(* The game's threads create, bind, swap and destroy contexts as GL lets   *)
(* them: a context is current on one thread at most, one destroyed while   *)
(* current lives until it is released, and a handle is used again for a    *)
(* later context.  A context is known here by its number, in the order of  *)
(* creation.  ImGui's current context is one variable for the process.     *)
(***************************************************************************)
EXTENDS Naturals, Sequences

CONSTANTS
    Threads,     \* the game's threads
    Handles,     \* context handles
    None,
    MaxContexts  \* bound on the contexts created

ASSUME GlAssumption == MaxContexts \in Nat /\ None \notin Handles

VARIABLES
    ctx,         \* the context that lives under a handle, 0 for none
    created,     \* contexts created so far
    doomed,      \* handles destroyed while current and not yet released
    cur,         \* the handle current on a thread, or None
    ctxs,        \* g_ctxs: handle -> position in states, 0 for no entry
    states,      \* the CtxState objects, in the order of their allocation
    imgui,       \* ImGui's current context, by its CtxState; 0 for none
    pc,          \* a thread: out (in the game); in the swap hook: lookup,
                 \* init, draw, frame, swap, and the ways to leave it: shown,
                 \* unresolved, thrown; in the destroy hook: erase, teardown,
                 \* destroy
    st,          \* the hook's local st
    arg,         \* the handle the destroy hook was given
    behind       \* handles whose entry the hook could not clear (history)

glVars   == <<ctx, created, doomed, cur>>
hookVars == <<pc, st, arg>>
vars == <<ctx, created, doomed, cur, ctxs, states, imgui, pc, st, arg, behind>>

Init ==
    /\ ctx = [h \in Handles |-> 0] /\ created = 0 /\ doomed = {}
    /\ cur = [t \in Threads |-> None]
    /\ ctxs = [h \in Handles |-> 0] /\ states = <<>> /\ imgui = 0
    /\ pc = [t \in Threads |-> "out"] /\ st = [t \in Threads |-> 0]
    /\ arg = [t \in Threads |-> None]
    /\ behind = {}

-----------------------------------------------------------------------------
(* The game and the GL library *)

IsCurrent(h) == \E t \in Threads : cur[t] = h
Goes(t, to)  == pc' = [pc EXCEPT ![t] = to]

CreateContext(h) ==
    /\ ctx[h] = 0 /\ created < MaxContexts
    /\ created' = created + 1 /\ ctx' = [ctx EXCEPT ![h] = created + 1]
    /\ UNCHANGED <<doomed, cur, ctxs, states, imgui, hookVars, behind>>

MakeCurrent(t, h) ==
    /\ pc[t] = "out" /\ cur[t] = None
    /\ ctx[h] # 0 /\ h \notin doomed /\ ~IsCurrent(h) /\ \A u \in Threads : arg[u] # h
    /\ cur' = [cur EXCEPT ![t] = h]
    /\ UNCHANGED <<ctx, created, doomed, ctxs, states, imgui, hookVars, behind>>

Release(t) ==
    /\ pc[t] = "out" /\ cur[t] # None
    /\ cur' = [cur EXCEPT ![t] = None]
    /\ doomed' = doomed \ {cur[t]}
    /\ ctx' = IF cur[t] \in doomed THEN [ctx EXCEPT ![cur[t]] = 0] ELSE ctx
    /\ UNCHANGED <<created, ctxs, states, imgui, hookVars, behind>>

(* The library destroys a context, or marks it until it is released. *)
LibraryDestroys(h) ==
    IF IsCurrent(h) THEN doomed' = doomed \cup {h} /\ ctx' = ctx
                    ELSE doomed' = doomed /\ ctx' = [ctx EXCEPT ![h] = 0]

(* The game destroys each context once, and not while it is being bound. *)
MayDestroy(h) == ctx[h] # 0 /\ h \notin doomed /\ \A u \in Threads : arg[u] # h

(* hook_for redirects the swaps alone: a game that looks up                *)
(* glXDestroyContext by dlsym or *GetProcAddress calls the library.        *)
DestroyBehind(t, h) ==
    /\ pc[t] = "out" /\ MayDestroy(h)
    /\ LibraryDestroys(h)
    /\ behind' = behind \cup {h}
    /\ UNCHANGED <<created, cur, ctxs, states, imgui, hookVars>>

-----------------------------------------------------------------------------
(* The swap hooks: eglSwapBuffers and its variants, glXSwapBuffers *)

(* draw_overlay_for's gates: no context, disabled, no snapshot, no voice. *)
Swap(t) ==
    /\ pc[t] = "out"
    /\ \/ cur[t] # None /\ Goes(t, "lookup")
       \/ Goes(t, "swap")
    /\ UNCHANGED <<glVars, ctxs, states, imgui, st, arg, behind>>

(* The renderer's ctx_ (gui), its GL context (home) and init_done_ (ready). *)
Fresh == [gui |-> FALSE, home |-> 0, ready |-> FALSE, skip |-> FALSE, deleted |-> FALSE]

(* The destroy hook has passed this handle's entry. *)
PastErase(h) == h \in doomed \/ \E u \in Threads : arg[u] = h /\ pc[u] # "erase"

(* Under g_mutex: this handle's state, made when there is none.  A thread  *)
(* that swaps during or after the destruction makes one no hook clears.    *)
LookUp(t) ==
    /\ pc[t] = "lookup"
    /\ \/ /\ ctxs[cur[t]] # 0
          /\ st' = [st EXCEPT ![t] = ctxs[cur[t]]]
          /\ UNCHANGED <<ctxs, states>>
       \/ /\ ctxs[cur[t]] = 0
          /\ states' = Append(states, Fresh)
          /\ ctxs' = [ctxs EXCEPT ![cur[t]] = Len(states) + 1]
          /\ st' = [st EXCEPT ![t] = Len(states) + 1]
    /\ behind' = IF PastErase(cur[t]) THEN behind \cup {cur[t]} ELSE behind
    /\ Goes(t, "init")
    /\ UNCHANGED <<glVars, imgui, arg>>

(* An exception leaves the hook: nothing up to its entry point catches it.  *)
Throws(t) == Goes(t, "thrown") /\ st' = [st EXCEPT ![t] = 0]

(* `new` or emplace throws: no state is kept and g_mutex is released. *)
LookUpThrows(t) ==
    /\ pc[t] = "lookup" /\ ctxs[cur[t]] = 0
    /\ Throws(t)
    /\ UNCHANGED <<glVars, ctxs, states, imgui, arg, behind>>

(* `skip`, and a renderer that is ready already. *)
Skip(t) ==
    /\ pc[t] = "init" /\ states[st[t]].skip
    /\ Goes(t, "swap")
    /\ UNCHANGED <<glVars, ctxs, states, imgui, st, arg, behind>>

Ready(t) ==
    /\ pc[t] = "init" /\ ~states[st[t]].skip /\ states[st[t]].ready
    /\ Goes(t, "draw")
    /\ UNCHANGED <<glVars, ctxs, states, imgui, st, arg, behind>>

Initialises(t) == pc[t] = "init" /\ ~states[st[t]].skip /\ ~states[st[t]].ready

(* GlRenderer::init: its GL objects belong to the current context. *)
InitRenderer(t) ==
    /\ Initialises(t)
    /\ states' = [states EXCEPT ![st[t]] =
                     [@ EXCEPT !.gui = TRUE, !.ready = TRUE, !.home = ctx[cur[t]]]]
    /\ imgui' = st[t]
    /\ Goes(t, "draw")
    /\ UNCHANGED <<glVars, ctxs, st, arg, behind>>

(* Fault: the frame is abandoned with the overlay. *)
InitFails_NoSwap(t) ==
    /\ Initialises(t)
    /\ states' = [states EXCEPT ![st[t]] = [@ EXCEPT !.gui = FALSE, !.skip = TRUE]]
    /\ imgui' = 0
    /\ Goes(t, "out")
    /\ UNCHANGED <<glVars, ctxs, st, arg, behind>>

(* GlRenderer::init fails; no further attempt for this state. *)
InitFails(t) ==
    /\ Initialises(t)
    /\ states' = [states EXCEPT ![st[t]] = [@ EXCEPT !.gui = FALSE, !.skip = TRUE]]
    /\ imgui' = 0
    /\ Goes(t, "swap")
    /\ UNCHANGED <<glVars, ctxs, st, arg, behind>>

(* GlRenderer::init throws after its ImGui context is made (loading the     *)
(* font): skip is not set, and the next swap makes another.                 *)
InitThrows(t) ==
    /\ Initialises(t)
    /\ states' = [states EXCEPT ![st[t]] = [@ EXCEPT !.gui = TRUE]]
    /\ imgui' = st[t]
    /\ Throws(t)
    /\ UNCHANGED <<glVars, ctxs, arg, behind>>

(* GlRenderer::draw, from SetCurrentContext to NewFrame ... *)
BeginFrame(t) ==
    /\ pc[t] = "draw"
    /\ imgui' = st[t]
    /\ Goes(t, "frame")
    /\ UNCHANGED <<glVars, ctxs, states, st, arg, behind>>

(* ... and to RenderDrawData. *)
EndFrame(t) ==
    /\ pc[t] = "frame"
    /\ Goes(t, "swap")
    /\ UNCHANGED <<glVars, ctxs, states, imgui, st, arg, behind>>

(* draw_overlay throws (strings, avatars): the frame is never ended. *)
DrawThrows(t) ==
    /\ pc[t] = "frame"
    /\ Throws(t)
    /\ UNCHANGED <<glVars, ctxs, states, imgui, arg, behind>>

(* The library's own swap, if its symbol resolves: each of the hooks looks  *)
(* up its own.                                                              *)
RealSwap(t) ==
    /\ pc[t] = "swap"
    /\ \E to \in {"shown", "unresolved"} : Goes(t, to)
    /\ st' = [st EXCEPT ![t] = 0]
    /\ UNCHANGED <<glVars, ctxs, states, imgui, arg, behind>>

(* The hook is left for the game, by a return or by an exception. *)
LeaveSwap(t) ==
    /\ pc[t] \in {"shown", "unresolved", "thrown"}
    /\ Goes(t, "out")
    /\ UNCHANGED <<glVars, ctxs, states, imgui, st, arg, behind>>

-----------------------------------------------------------------------------
(* The destroy hooks: eglDestroyContext, glXDestroyContext *)

Destroy(t, h) ==
    /\ pc[t] = "out" /\ MayDestroy(h)
    /\ arg' = [arg EXCEPT ![t] = h]
    /\ Goes(t, "erase")
    /\ UNCHANGED <<glVars, ctxs, states, imgui, st, behind>>

(* Fault: the entry is kept when the state behind it is. *)
EraseEntry_IfCurrent(t) ==
    /\ pc[t] = "erase"
    /\ st' = [st EXCEPT ![t] = ctxs[arg[t]]]
    /\ ctxs' = IF cur[t] = arg[t] THEN [ctxs EXCEPT ![arg[t]] = 0] ELSE ctxs
    /\ Goes(t, IF ctxs[arg[t]] = 0 THEN "destroy" ELSE "teardown")
    /\ UNCHANGED <<glVars, states, imgui, arg, behind>>

(* destroy_ctx, under g_mutex. *)
EraseEntry(t) ==
    /\ pc[t] = "erase"
    /\ st' = [st EXCEPT ![t] = ctxs[arg[t]]]
    /\ ctxs' = [ctxs EXCEPT ![arg[t]] = 0]
    /\ Goes(t, IF ctxs[arg[t]] = 0 THEN "destroy" ELSE "teardown")
    /\ UNCHANGED <<glVars, states, imgui, arg, behind>>

Delete(t) ==
    /\ states' = [states EXCEPT ![st[t]] =
                     [@ EXCEPT !.deleted = TRUE, !.ready = FALSE, !.gui = FALSE]]
    /\ imgui' = IF states[st[t]].gui THEN 0 ELSE imgui

(* Fault: the state is torn down wherever it is destroyed from. *)
Teardown_Anywhere(t) ==
    /\ pc[t] = "teardown"
    /\ Delete(t)
    /\ Goes(t, "destroy")
    /\ UNCHANGED <<glVars, ctxs, st, arg, behind>>

(* destroy_ctx: the GL objects are deleted by the thread that has the      *)
(* context; otherwise they are the library's to free and the state leaks.  *)
Teardown(t) ==
    /\ pc[t] = "teardown"
    /\ \/ cur[t] = arg[t] /\ Delete(t)
       \/ cur[t] # arg[t] /\ UNCHANGED <<states, imgui>>
    /\ Goes(t, "destroy")
    /\ UNCHANGED <<glVars, ctxs, st, arg, behind>>

RealDestroy(t) ==
    /\ pc[t] = "destroy"
    /\ LibraryDestroys(arg[t])
    /\ arg' = [arg EXCEPT ![t] = None] /\ st' = [st EXCEPT ![t] = 0]
    /\ Goes(t, "out")
    /\ UNCHANGED <<created, cur, ctxs, states, imgui, behind>>

-----------------------------------------------------------------------------
SwapHook(t) ==
    \/ LookUp(t) \/ Skip(t) \/ Ready(t) \/ InitRenderer(t) \/ InitFails(t)
    \/ BeginFrame(t) \/ EndFrame(t) \/ RealSwap(t) \/ LeaveSwap(t)

Exception(t) == LookUpThrows(t) \/ InitThrows(t) \/ DrawThrows(t)

DestroyHook(t) == EraseEntry(t) \/ Teardown(t) \/ RealDestroy(t)

Game(t) ==
    \/ Release(t) \/ Swap(t)
    \/ \E h \in Handles : MakeCurrent(t, h) \/ Destroy(t, h) \/ DestroyBehind(t, h)

Next ==
    \/ \E h \in Handles : CreateContext(h)
    \/ \E t \in Threads : Game(t) \/ SwapHook(t) \/ Exception(t) \/ DestroyHook(t)

Spec == Init /\ [][Next]_vars

-----------------------------------------------------------------------------
(* No thread is drawing with a CtxState that another has deleted, no entry *)
(* leads to a deleted one, and ImGui's current context is not a destroyed  *)
(* one: destroy_ctx may run on one thread while another draws the same     *)
(* context (interposer.cpp:236-241).                                       *)
NoUseAfterFree ==
    /\ \A t \in Threads : pc[t] \in {"init", "draw", "frame"} => ~states[st[t]].deleted
    /\ \A h \in Handles : ctxs[h] # 0 => ~states[ctxs[h]].deleted
    /\ imgui # 0 => states[imgui].gui

(* A frame is drawn with GL objects of the context it is drawn in, though  *)
(* the map knows contexts by a handle that comes round again.  Left out    *)
(* are the handles whose context was destroyed without the hook, or was    *)
(* swapped by another thread during or after its destruction: there a      *)
(* later context of the same handle does draw with the objects of the      *)
(* earlier one (interposer.cpp:198-208).                                   *)
DrawsOwnObjects ==
    \A t \in Threads :
        (pc[t] \in {"draw", "frame"} /\ cur[t] \notin behind)
            => states[st[t]].home = ctx[cur[t]]

InSwapHook(t) ==
    pc[t] \in {"lookup", "init", "draw", "frame", "swap", "shown", "unresolved", "thrown"}

(* The swap hook is not left without the game's own swap, if its symbol    *)
(* resolves, except by an exception; and a renderer that was given up once *)
(* throws none: a failed initialisation costs no frame, then or later      *)
(* (interposer.cpp:207-212).                                               *)
FrameIsPresented ==
    [][\A t \in Threads :
          /\ InSwapHook(t) /\ pc'[t] = "out" => pc[t] \in {"shown", "unresolved", "thrown"}
          /\ pc[t] # "thrown" /\ pc'[t] = "thrown" /\ st[t] # 0 => ~states[st[t]].skip]_vars
=============================================================================
