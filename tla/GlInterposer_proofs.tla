------------------------ MODULE GlInterposer_proofs ------------------------
(***************************************************************************)
(* Proofs about GlInterposer for any number of threads, handles and        *)
(* contexts: no thread draws with a CtxState that another deleted, a frame *)
(* uses the objects of its own context unless the handle was destroyed     *)
(* behind the hooks, and only an exception keeps a swap from the game,     *)
(* whatever the overlay's code fails at or throws.                         *)
(***************************************************************************)
EXTENDS GlInterposer, SequenceTheorems, TLAPS

-----------------------------------------------------------------------------
(* The inductive invariant *)

State == [gui : BOOLEAN, home : Nat, ready : BOOLEAN, skip : BOOLEAN, deleted : BOOLEAN]

SwapSteps    == {"init", "draw", "frame"}
DestroySteps == {"erase", "teardown", "destroy"}
LeavingSteps == {"swap", "shown", "unresolved", "thrown", "out"}
Steps        == {"lookup", "swap", "shown", "unresolved", "thrown", "out"}
                    \cup SwapSteps \cup DestroySteps

(* Every variable keeps its type. *)
TypeOK ==
    /\ ctx \in [Handles -> Nat] /\ created \in Nat /\ doomed \subseteq Handles
    /\ cur \in [Threads -> Handles \cup {None}]
    /\ states \in Seq(State) /\ ctxs \in [Handles -> 0..Len(states)]
    /\ imgui \in Nat
    /\ pc \in [Threads -> Steps] /\ st \in [Threads -> 0..Len(states)]
    /\ arg \in [Threads -> Handles \cup {None}]
    /\ behind \subseteq Handles

(* A thread has in a hook what the hook works on; a context is current on  *)
(* one thread at most, and lives while it is.                              *)
HookLocals ==
    /\ \A t \in Threads : pc[t] \in SwapSteps \cup {"lookup"} => cur[t] # None
    /\ \A t \in Threads : arg[t] # None <=> pc[t] \in DestroySteps
    /\ \A t \in Threads : pc[t] \in SwapSteps \cup {"teardown"} => st[t] # 0
    /\ \A t, u \in Threads : cur[t] = cur[u] /\ cur[t] # None => t = u
    /\ \A t \in Threads : cur[t] # None => ctx[cur[t]] # 0

(* The handle under which a thread found its CtxState. *)
Found(t) == IF pc[t] = "teardown" THEN arg[t] ELSE cur[t]

Holds(t) == pc[t] \in SwapSteps \cup {"teardown"}

(* A CtxState is found under one handle only, for as long as the map or a  *)
(* thread knows it; one that is torn down is out of the map.               *)
OneHandle ==
    /\ \A g, h \in Handles : ctxs[g] = ctxs[h] /\ ctxs[g] # 0 => g = h
    /\ \A t \in Threads, h \in Handles : Holds(t) /\ ctxs[h] = st[t] => h = Found(t)
    /\ \A t \in Threads, h \in Handles : pc[t] = "teardown" => ctxs[h] # st[t]
    /\ \A t, u \in Threads : Holds(t) /\ Holds(u) /\ st[t] = st[u] => Found(t) = Found(u)

(* Unless it was destroyed behind the hooks, a handle has no entry once    *)
(* the hook has passed it, and the objects of the entry it has, or that a  *)
(* thread took from it, are those of the context that lives there.         *)
OwnHome ==
    /\ \A h \in Handles \ behind : PastErase(h) \/ ctx[h] = 0 => ctxs[h] = 0
    /\ \A h \in Handles \ behind :
          ctxs[h] # 0 /\ states[ctxs[h]].ready => states[ctxs[h]].home = ctx[h]
    /\ \A t \in Threads : pc[t] = "init" /\ cur[t] \notin behind =>
          (states[st[t]].ready => states[st[t]].home = ctx[cur[t]])
    /\ DrawsOwnObjects

(* The part of NoUseAfterFree that is about CtxStates. *)
NoFreedState ==
    /\ \A t \in Threads : pc[t] \in SwapSteps => ~states[st[t]].deleted
    /\ \A h \in Handles : ctxs[h] # 0 => ~states[ctxs[h]].deleted

GlInv == TypeOK /\ HookLocals /\ OneHandle /\ NoFreedState /\ OwnHome

-----------------------------------------------------------------------------
(* Lemmas *)

(* Thread t is now at `to`, and no other thread has moved. *)
Moved(t, to) ==
    /\ pc' \in [Threads -> Steps] /\ pc'[t] = to
    /\ \A u \in Threads : u # t => pc'[u] = pc[u]

(* What a thread that moves on leaves alone. *)
LEMMA GoesMovesOne ==
    ASSUME TypeOK, NEW t \in Threads, NEW to \in Steps, Goes(t, to)
    PROVE  Moved(t, to)
    BY DEF TypeOK, Goes, Moved

(* A write to one CtxState leaves the others alone. *)
LEMMA OneStateWritten ==
    ASSUME TypeOK, NEW n \in 1..Len(states), NEW r \in State,
           states' = [states EXCEPT ![n] = r]
    PROVE  /\ states' \in Seq(State) /\ Len(states') = Len(states) /\ states'[n] = r
           /\ \A m \in 1..Len(states) : m # n => states'[m] = states[m]
    BY DEF TypeOK

(* A CtxState that is allocated is the last one, and fresh. *)
LEMMA OneStateAdded ==
    ASSUME TypeOK, states' = Append(states, Fresh)
    PROVE  /\ states' \in Seq(State) /\ Len(states') = Len(states) + 1 /\ Len(states) \in Nat
           /\ states'[Len(states) + 1] = Fresh
           /\ \A m \in 1..Len(states) : states'[m] = states[m]
<1>1. Fresh \in State
    BY DEF Fresh, State
<1> QED
    BY <1>1 DEF TypeOK

(* The library destroys one context, which lives on while it is current. *)
LEMMA OneContextDestroyed ==
    ASSUME TypeOK, NEW h \in Handles, LibraryDestroys(h)
    PROVE  /\ ctx' \in [Handles -> Nat] /\ doomed' \subseteq Handles
           /\ \A g \in Handles : g # h => ctx'[g] = ctx[g] /\ (g \in doomed' <=> g \in doomed)
           /\ IsCurrent(h) => ctx' = ctx /\ h \in doomed'
           /\ ~IsCurrent(h) => doomed' = doomed /\ ctx'[h] = 0
    BY DEF TypeOK, LibraryDestroys

LEMMA GlInvInit == Init => GlInv
<1> SUFFICES ASSUME Init PROVE GlInv
    OBVIOUS
<1>1. states \in Seq(State) /\ Len(states) = 0
    BY DEF Init
<1>2. TypeOK
    <2>1. /\ ctx \in [Handles -> Nat] /\ created \in Nat /\ doomed \subseteq Handles
          /\ cur \in [Threads -> Handles \cup {None}] /\ imgui \in Nat
          /\ pc \in [Threads -> Steps] /\ arg \in [Threads -> Handles \cup {None}]
          /\ behind \subseteq Handles
        BY DEF Init, Steps
    <2>2. ctxs \in [Handles -> 0..Len(states)] /\ st \in [Threads -> 0..Len(states)]
        BY <1>1 DEF Init
    <2> QED
        BY <1>1, <2>1, <2>2 DEF TypeOK
<1>3. HookLocals
    BY DEF Init, HookLocals, SwapSteps, DestroySteps
<1>4. OneHandle
    BY DEF Init, OneHandle, Holds, SwapSteps
<1>5. NoFreedState
    BY DEF Init, NoFreedState, SwapSteps
<1>6. OwnHome
    BY DEF Init, OwnHome, DrawsOwnObjects
<1> QED
    BY <1>2, <1>3, <1>4, <1>5, <1>6 DEF GlInv

-----------------------------------------------------------------------------
(* One lemma per operation *)

(* A new context takes a free handle. *)
LEMMA KeepsCreateContext ==
    ASSUME GlInv, NEW h \in Handles, CreateContext(h)
    PROVE  GlInv'
<1> USE GlAssumption DEF GlInv
<1>a. UNCHANGED <<doomed, cur, ctxs, states, imgui, pc, st, arg, behind>>
    BY DEF CreateContext, glVars, hookVars
<1>b. /\ ctx[h] = 0 /\ created' \in Nat /\ ctx' \in [Handles -> Nat] /\ ctx'[h] # 0
      /\ \A g \in Handles : g # h => ctx'[g] = ctx[g]
    BY DEF CreateContext, TypeOK
<1>1. TypeOK'
    BY <1>a, <1>b DEF TypeOK, Steps, SwapSteps, DestroySteps, Moved
<1>2. HookLocals'
    BY <1>a, <1>b DEF TypeOK, HookLocals, Steps, SwapSteps, DestroySteps, Moved
<1>3. OneHandle'
    BY <1>a, <1>b
       DEF TypeOK, HookLocals, OneHandle, Holds, Found, Steps, SwapSteps, DestroySteps,
           Moved
<1>4. NoFreedState'
    BY <1>a, <1>b
       DEF HookLocals, NoFreedState, SwapSteps, Moved
<1>5. OwnHome'
    BY <1>a, <1>b
       DEF TypeOK, HookLocals, OneHandle, Holds, Found, OwnHome, DrawsOwnObjects,
           PastErase, Steps, SwapSteps, DestroySteps, Moved
<1> QED
    BY <1>1, <1>2, <1>3, <1>4, <1>5

(* A context becomes current on one thread. *)
LEMMA KeepsMakeCurrent ==
    ASSUME GlInv, NEW t \in Threads, NEW h \in Handles, MakeCurrent(t, h)
    PROVE  GlInv'
<1> USE GlAssumption DEF GlInv
<1>a. UNCHANGED <<ctx, created, doomed, ctxs, states, imgui, pc, st, arg, behind>>
    BY DEF MakeCurrent, glVars, hookVars
<1>b. /\ pc[t] = "out" /\ ctx[h] # 0 /\ cur' \in [Threads -> Handles \cup {None}] /\ cur'[t] = h
      /\ \A u \in Threads : cur[u] # h
      /\ \A u \in Threads : u # t => cur'[u] = cur[u]
    BY DEF MakeCurrent, IsCurrent, TypeOK
<1>c. \A u \in Threads : pc[u] \in SwapSteps => cur'[u] = cur[u]
    BY <1>b DEF SwapSteps
<1>1. TypeOK'
    BY <1>a, <1>b, <1>c DEF TypeOK, Steps, SwapSteps, DestroySteps, Moved
<1>2. HookLocals'
    <2>1. \A u \in Threads : pc'[u] \in SwapSteps \cup {"lookup"} => cur'[u] # None
        BY <1>a, <1>b DEF Moved, TypeOK, HookLocals, Steps, SwapSteps, DestroySteps
    <2>2. \A u \in Threads : arg'[u] # None <=> pc'[u] \in DestroySteps
        BY <1>a, <1>b DEF Moved, TypeOK, HookLocals, Steps, SwapSteps, DestroySteps
    <2>3. \A u \in Threads : pc'[u] \in SwapSteps \cup {"teardown"} => st'[u] # 0
        BY <1>a, <1>b DEF Moved, TypeOK, HookLocals, Steps, SwapSteps, DestroySteps
    <2>4. \A u, v \in Threads : cur'[u] = cur'[v] /\ cur'[u] # None => u = v
        BY <1>a, <1>b DEF TypeOK, HookLocals
    <2>5. \A u \in Threads : cur'[u] # None => ctx'[cur'[u]] # 0
        BY <1>a, <1>b DEF TypeOK, HookLocals
    <2> QED
        BY <2>1, <2>2, <2>3, <2>4, <2>5 DEF HookLocals
<1>3. OneHandle'
    BY <1>a, <1>b, <1>c
       DEF TypeOK, HookLocals, OneHandle, Holds, Found, Steps, SwapSteps, DestroySteps,
           Moved
<1>4. NoFreedState'
    BY <1>a, <1>b, <1>c
       DEF HookLocals, NoFreedState, SwapSteps, Moved
<1>5. OwnHome'
    <2>1. \A k \in Handles \ behind' : PastErase(k)' \/ ctx'[k] = 0 => ctxs'[k] = 0
        BY <1>a, <1>b
           DEF Moved, Steps, SwapSteps, DestroySteps, TypeOK, HookLocals, OwnHome,
               PastErase
    <2>2. \A k \in Handles \ behind' :
             ctxs'[k] # 0 /\ states'[ctxs'[k]].ready => states'[ctxs'[k]].home = ctx'[k]
        BY <1>a, <1>b
           DEF Moved, Steps, SwapSteps, DestroySteps, TypeOK, HookLocals, OwnHome,
               PastErase
    <2>3. \A u \in Threads : pc'[u] = "init" /\ cur'[u] \notin behind' =>
             (states'[st'[u]].ready => states'[st'[u]].home = ctx'[cur'[u]])
        BY <1>a, <1>c DEF SwapSteps, OwnHome
    <2>4. DrawsOwnObjects'
        BY <1>a, <1>c DEF SwapSteps, OwnHome, DrawsOwnObjects
    <2> QED
        BY <2>1, <2>2, <2>3, <2>4 DEF OwnHome
<1> QED
    BY <1>1, <1>2, <1>3, <1>4, <1>5

(* A context is released, and goes if it was doomed. *)
LEMMA KeepsRelease ==
    ASSUME GlInv, NEW t \in Threads, Release(t)
    PROVE  GlInv'
<1> USE GlAssumption DEF GlInv
<1>a. UNCHANGED <<created, ctxs, states, imgui, pc, st, arg, behind>>
    BY DEF Release, glVars, hookVars
<1>b. /\ pc[t] = "out" /\ cur[t] \in Handles /\ cur'[t] = None
      /\ cur' \in [Threads -> Handles \cup {None}]
      /\ doomed' = doomed \ {cur[t]} /\ ctx' \in [Handles -> Nat]
      /\ \A u \in Threads : u # t => cur'[u] = cur[u]
      /\ \A g \in Handles : g # cur[t] => ctx'[g] = ctx[g]
      /\ cur[t] \notin doomed => ctx' = ctx
      /\ cur[t] \in doomed => ctx'[cur[t]] = 0
    BY DEF Release, TypeOK
<1>c. \A u \in Threads : cur'[u] # None => u # t /\ cur'[u] = cur[u] /\ ctx'[cur[u]] = ctx[cur[u]]
    <2> SUFFICES ASSUME NEW u \in Threads, cur'[u] # None
                 PROVE  u # t /\ cur'[u] = cur[u] /\ ctx'[cur[u]] = ctx[cur[u]]
        OBVIOUS
    <2>1. u # t /\ cur'[u] = cur[u] /\ cur[u] \in Handles
        BY <1>b DEF TypeOK
    <2>2. cur[u] # cur[t]
        BY <1>b, <2>1 DEF HookLocals
    <2> QED
        BY <1>b, <2>1, <2>2
<1>d. \A u \in Threads : pc[u] \in SwapSteps => cur'[u] = cur[u] /\ ctx'[cur[u]] = ctx[cur[u]]
    BY <1>b, <1>c DEF HookLocals, SwapSteps
<1>1. TypeOK'
    BY <1>a, <1>b, <1>c, <1>d DEF TypeOK, Steps, SwapSteps, DestroySteps, Moved
<1>2. HookLocals'
    <2>1. \A u \in Threads : pc'[u] \in SwapSteps \cup {"lookup"} => cur'[u] # None
        BY <1>a, <1>b, <1>c DEF Moved, TypeOK, HookLocals, Steps, SwapSteps, DestroySteps
    <2>2. \A u \in Threads : arg'[u] # None <=> pc'[u] \in DestroySteps
        BY <1>a, <1>b, <1>c DEF Moved, TypeOK, HookLocals, Steps, SwapSteps, DestroySteps
    <2>3. \A u \in Threads : pc'[u] \in SwapSteps \cup {"teardown"} => st'[u] # 0
        BY <1>a, <1>b, <1>c DEF Moved, TypeOK, HookLocals, Steps, SwapSteps, DestroySteps
    <2>4. \A u, v \in Threads : cur'[u] = cur'[v] /\ cur'[u] # None => u = v
        BY <1>a, <1>b, <1>c DEF TypeOK, HookLocals
    <2>5. \A u \in Threads : cur'[u] # None => ctx'[cur'[u]] # 0
        BY <1>a, <1>b, <1>c DEF TypeOK, HookLocals
    <2> QED
        BY <2>1, <2>2, <2>3, <2>4, <2>5 DEF HookLocals
<1>3. OneHandle'
    BY <1>a, <1>b, <1>c, <1>d
       DEF TypeOK, HookLocals, OneHandle, Holds, Found, Steps, SwapSteps, DestroySteps,
           Moved
<1>4. NoFreedState'
    BY <1>a, <1>b, <1>c, <1>d
       DEF HookLocals, NoFreedState, SwapSteps, Moved
<1>5. OwnHome'
    <2>1. \A h \in Handles \ behind' : PastErase(h)' \/ ctx'[h] = 0 => ctxs'[h] = 0
        BY <1>a, <1>b, <1>c
           DEF Moved, Steps, SwapSteps, DestroySteps, TypeOK, HookLocals, OwnHome,
               PastErase
    <2>2. \A h \in Handles \ behind' :
             ctxs'[h] # 0 /\ states'[ctxs'[h]].ready => states'[ctxs'[h]].home = ctx'[h]
        BY <1>a, <1>b, <1>c
           DEF Moved, Steps, SwapSteps, DestroySteps, TypeOK, HookLocals, OwnHome,
               PastErase
    <2>3. \A u \in Threads : pc'[u] = "init" /\ cur'[u] \notin behind' =>
             (states'[st'[u]].ready => states'[st'[u]].home = ctx'[cur'[u]])
        BY <1>a, <1>d DEF SwapSteps, OwnHome
    <2>4. DrawsOwnObjects'
        BY <1>a, <1>d DEF SwapSteps, OwnHome, DrawsOwnObjects
    <2> QED
        BY <2>1, <2>2, <2>3, <2>4 DEF OwnHome
<1> QED
    BY <1>1, <1>2, <1>3, <1>4, <1>5

(* A context is destroyed past the hook. *)
LEMMA KeepsDestroyBehind ==
    ASSUME GlInv, NEW t \in Threads, NEW h \in Handles, DestroyBehind(t, h)
    PROVE  GlInv'
<1> USE GlAssumption DEF GlInv
<1>a. UNCHANGED <<created, cur, ctxs, states, imgui, pc, st, arg>>
    BY DEF DestroyBehind, glVars, hookVars
<1>b. LibraryDestroys(h) /\ behind' = behind \cup {h}
    BY DEF DestroyBehind
<1>c. /\ ctx' \in [Handles -> Nat] /\ doomed' \subseteq Handles
      /\ \A g \in Handles : g # h => ctx'[g] = ctx[g] /\ (g \in doomed' <=> g \in doomed)
      /\ \A u \in Threads : cur[u] = h => ctx' = ctx
    BY <1>b, OneContextDestroyed DEF IsCurrent
<1>1. TypeOK'
    BY <1>a, <1>b, <1>c DEF TypeOK, Steps, SwapSteps, DestroySteps, Moved
<1>2. HookLocals'
    BY <1>a, <1>b, <1>c DEF TypeOK, HookLocals, Steps, SwapSteps, DestroySteps, Moved
<1>3. OneHandle'
    BY <1>a, <1>b, <1>c
       DEF TypeOK, HookLocals, OneHandle, Holds, Found, Steps, SwapSteps, DestroySteps,
           Moved
<1>4. NoFreedState'
    BY <1>a, <1>b, <1>c
       DEF HookLocals, NoFreedState, SwapSteps, Moved
<1>5. OwnHome'
    BY <1>a, <1>b, <1>c
       DEF TypeOK, HookLocals, OneHandle, Holds, Found, OwnHome, DrawsOwnObjects,
           PastErase, Steps, SwapSteps, DestroySteps, Moved
<1> QED
    BY <1>1, <1>2, <1>3, <1>4, <1>5

(* A swap hook is entered. *)
LEMMA KeepsSwap ==
    ASSUME GlInv, NEW t \in Threads, Swap(t)
    PROVE  GlInv'
<1> USE GlAssumption DEF GlInv
<1>a. UNCHANGED <<ctx, created, doomed, cur, ctxs, states, imgui, st, arg, behind>>
    BY DEF Swap, glVars, hookVars
<1>b. pc[t] = "out" /\ ((Moved(t, "lookup") /\ cur[t] # None) \/ Moved(t, "swap"))
    BY GoesMovesOne DEF Swap, Steps, SwapSteps, DestroySteps
<1>1. TypeOK'
    BY <1>a, <1>b DEF TypeOK, Steps, SwapSteps, DestroySteps, Moved
<1>2. HookLocals'
    BY <1>a, <1>b DEF TypeOK, HookLocals, Steps, SwapSteps, DestroySteps, Moved
<1>3. OneHandle'
    <2>1. \A u \in Threads : Holds(u)' => /\ Holds(u) /\ Found(u)' = Found(u)
                                          /\ (pc'[u] = "teardown" <=> pc[u] = "teardown")
        BY <1>a, <1>b DEF Moved, TypeOK, Holds, Found, Steps, SwapSteps, DestroySteps
    <2>2. \A u \in Threads : pc'[u] = "teardown" => Holds(u)'
        BY DEF Holds
    <2> QED
        BY <1>a, <2>1, <2>2 DEF OneHandle
<1>4. NoFreedState'
    BY <1>a, <1>b
       DEF HookLocals, NoFreedState, SwapSteps, Moved
<1>5. OwnHome'
    BY <1>a, <1>b
       DEF TypeOK, HookLocals, OneHandle, Holds, Found, OwnHome, DrawsOwnObjects,
           PastErase, Steps, SwapSteps, DestroySteps, Moved
<1> QED
    BY <1>1, <1>2, <1>3, <1>4, <1>5

(* A thread that is in no destroy hook goes to a step at which it holds no *)
(* CtxState.                                                               *)
LEMMA KeepsLetGo ==
    ASSUME GlInv, NEW t \in Threads, NEW to \in LeavingSteps, pc[t] \notin DestroySteps,
           Moved(t, to), st' \in [Threads -> 0..Len(states)],
           \A u \in Threads : u # t => st'[u] = st[u],
           UNCHANGED <<ctx, created, doomed, cur, ctxs, states, imgui, arg, behind>>
    PROVE  GlInv'
<1> USE DEF GlInv
<1>b. /\ pc'[t] \notin DestroySteps \cup SwapSteps \cup {"lookup"}
      /\ \A u \in Threads : u # t => pc'[u] = pc[u]
    BY DEF Moved, LeavingSteps, SwapSteps, DestroySteps
<1>1. TypeOK'
    BY DEF TypeOK, Moved
<1>2. HookLocals'
    <2>1. \A u \in Threads : pc'[u] \in SwapSteps \cup {"lookup"} => cur'[u] # None
        BY <1>b DEF HookLocals
    <2>2. \A u \in Threads : arg'[u] # None <=> pc'[u] \in DestroySteps
        BY <1>b DEF HookLocals
    <2>3. \A u \in Threads : pc'[u] \in SwapSteps \cup {"teardown"} => st'[u] # 0
        BY <1>b DEF HookLocals, DestroySteps
    <2> QED
        BY <2>1, <2>2, <2>3 DEF HookLocals
<1>3. OneHandle'
    <2>1. \A u \in Threads : Holds(u)' => /\ u # t /\ Holds(u) /\ Found(u)' = Found(u)
                                          /\ (pc'[u] = "teardown" <=> pc[u] = "teardown")
        BY <1>b DEF Holds, Found, DestroySteps
    <2>2. \A u \in Threads : pc'[u] = "teardown" => Holds(u)'
        BY DEF Holds
    <2> QED
        BY <2>1, <2>2 DEF OneHandle
<1>4. NoFreedState'
    BY <1>b DEF NoFreedState, SwapSteps
<1>5. OwnHome'
    <2>1. \A h \in Handles \ behind' : PastErase(h)' \/ ctx'[h] = 0 => ctxs'[h] = 0
        <3>1. \A h \in Handles : PastErase(h)' => PastErase(h)
            BY <1>b, GlAssumption DEF PastErase, HookLocals
        <3> QED
            BY <3>1 DEF OwnHome
    <2>2. \A h \in Handles \ behind' :
             ctxs'[h] # 0 /\ states'[ctxs'[h]].ready => states'[ctxs'[h]].home = ctx'[h]
        BY DEF OwnHome
    <2>3. \A u \in Threads : pc'[u] = "init" /\ cur'[u] \notin behind' =>
             (states'[st'[u]].ready => states'[st'[u]].home = ctx'[cur'[u]])
        BY <1>b DEF OwnHome, SwapSteps
    <2>4. DrawsOwnObjects'
        BY <1>b DEF OwnHome, DrawsOwnObjects, SwapSteps
    <2> QED
        BY <2>1, <2>2, <2>3, <2>4 DEF OwnHome
<1> QED
    BY <1>1, <1>2, <1>3, <1>4, <1>5

(* A context without a renderer is swapped as it is.                       *)
LEMMA KeepsSkip ==
    ASSUME GlInv, NEW t \in Threads, Skip(t)
    PROVE  GlInv'
<1> USE DEF GlInv
<1>1. /\ pc[t] \notin DestroySteps
      /\ UNCHANGED <<ctx, created, doomed, cur, ctxs, states, imgui, arg, behind>>
    BY DEF Skip, DestroySteps, glVars
<1>2. \E to \in LeavingSteps : Moved(t, to)
    BY GoesMovesOne DEF Skip, LeavingSteps, Steps
<1>3. st' \in [Threads -> 0..Len(states)] /\ \A u \in Threads : u # t => st'[u] = st[u]
    BY DEF Skip, TypeOK
<1> QED
    BY <1>1, <1>2, <1>3, KeepsLetGo

(* A renderer that is ready draws. *)
LEMMA KeepsReady ==
    ASSUME GlInv, NEW t \in Threads, Ready(t)
    PROVE  GlInv'
<1> USE GlAssumption DEF GlInv
<1>a. UNCHANGED <<ctx, created, doomed, cur, ctxs, states, imgui, st, arg, behind>>
    BY DEF Ready, glVars, hookVars
<1>b. pc[t] = "init" /\ states[st[t]].ready /\ Moved(t, "draw")
    BY GoesMovesOne DEF Ready, Steps, SwapSteps, DestroySteps
<1>1. TypeOK'
    BY <1>a, <1>b DEF TypeOK, Steps, SwapSteps, DestroySteps, Moved
<1>2. HookLocals'
    BY <1>a, <1>b DEF TypeOK, HookLocals, Steps, SwapSteps, DestroySteps, Moved
<1>3. OneHandle'
    <2>1. \A u \in Threads : Holds(u)' => /\ Holds(u) /\ Found(u)' = Found(u)
                                          /\ (pc'[u] = "teardown" <=> pc[u] = "teardown")
        BY <1>a, <1>b DEF Moved, Holds, Found, SwapSteps
    <2>2. \A u \in Threads : pc'[u] = "teardown" => Holds(u)'
        BY DEF Holds
    <2> QED
        BY <1>a, <2>1, <2>2 DEF OneHandle
<1>4. NoFreedState'
    BY <1>a, <1>b
       DEF HookLocals, NoFreedState, SwapSteps, Moved
<1>5. OwnHome'
    BY <1>a, <1>b
       DEF TypeOK, HookLocals, OneHandle, Holds, Found, OwnHome, DrawsOwnObjects,
           PastErase, Steps, SwapSteps, DestroySteps, Moved
<1> QED
    BY <1>1, <1>2, <1>3, <1>4, <1>5

(* A frame ends.                                                           *)
LEMMA KeepsEndFrame ==
    ASSUME GlInv, NEW t \in Threads, EndFrame(t)
    PROVE  GlInv'
<1> USE DEF GlInv
<1>1. /\ pc[t] \notin DestroySteps
      /\ UNCHANGED <<ctx, created, doomed, cur, ctxs, states, imgui, arg, behind>>
    BY DEF EndFrame, DestroySteps, glVars
<1>2. \E to \in LeavingSteps : Moved(t, to)
    BY GoesMovesOne DEF EndFrame, LeavingSteps, Steps
<1>3. st' \in [Threads -> 0..Len(states)] /\ \A u \in Threads : u # t => st'[u] = st[u]
    BY DEF EndFrame, TypeOK
<1> QED
    BY <1>1, <1>2, <1>3, KeepsLetGo

(* A frame begins in the ImGui context of its renderer. *)
LEMMA KeepsBeginFrame ==
    ASSUME GlInv, NEW t \in Threads, BeginFrame(t)
    PROVE  GlInv'
<1> USE GlAssumption DEF GlInv
<1>a. UNCHANGED <<ctx, created, doomed, cur, ctxs, states, st, arg, behind>>
    BY DEF BeginFrame, glVars, hookVars
<1>b. pc[t] = "draw" /\ imgui' = st[t] /\ Moved(t, "frame")
    BY GoesMovesOne DEF BeginFrame, Steps, SwapSteps, DestroySteps
<1>1. TypeOK'
    BY <1>a, <1>b DEF TypeOK, Steps, SwapSteps, DestroySteps, Moved
<1>2. HookLocals'
    BY <1>a, <1>b
       DEF TypeOK, HookLocals, Steps, SwapSteps, DestroySteps, Moved
<1>3. OneHandle'
    <2>1. \A u \in Threads : Holds(u)' => /\ Holds(u) /\ Found(u)' = Found(u)
                                          /\ (pc'[u] = "teardown" <=> pc[u] = "teardown")
        BY <1>a, <1>b DEF Moved, TypeOK, Holds, Found, Steps, SwapSteps, DestroySteps
    <2>2. \A u \in Threads : pc'[u] = "teardown" => Holds(u)'
        BY DEF Holds
    <2> QED
        BY <1>a, <2>1, <2>2 DEF OneHandle
<1>4. NoFreedState'
    BY <1>a, <1>b
       DEF HookLocals, NoFreedState, SwapSteps, Moved
<1>5. OwnHome'
    BY <1>a, <1>b
       DEF TypeOK, HookLocals, OneHandle, Holds, Found, OwnHome, DrawsOwnObjects,
           PastErase, Steps, SwapSteps, DestroySteps, Moved
<1> QED
    BY <1>1, <1>2, <1>3, <1>4, <1>5

(* The library's swap, if it resolves.                                     *)
LEMMA KeepsRealSwap ==
    ASSUME GlInv, NEW t \in Threads, RealSwap(t)
    PROVE  GlInv'
<1> USE DEF GlInv
<1>1. /\ pc[t] \notin DestroySteps
      /\ UNCHANGED <<ctx, created, doomed, cur, ctxs, states, imgui, arg, behind>>
    BY DEF RealSwap, DestroySteps, glVars
<1>2. \E to \in LeavingSteps : Moved(t, to)
    BY GoesMovesOne DEF RealSwap, LeavingSteps, Steps
<1>3. st' \in [Threads -> 0..Len(states)] /\ \A u \in Threads : u # t => st'[u] = st[u]
    BY DEF RealSwap, TypeOK
<1> QED
    BY <1>1, <1>2, <1>3, KeepsLetGo

(* The hook is left.                                                       *)
LEMMA KeepsLeaveSwap ==
    ASSUME GlInv, NEW t \in Threads, LeaveSwap(t)
    PROVE  GlInv'
<1> USE DEF GlInv
<1>1. /\ pc[t] \notin DestroySteps
      /\ UNCHANGED <<ctx, created, doomed, cur, ctxs, states, imgui, arg, behind>>
    BY DEF LeaveSwap, DestroySteps, glVars
<1>2. \E to \in LeavingSteps : Moved(t, to)
    BY GoesMovesOne DEF LeaveSwap, LeavingSteps, Steps
<1>3. st' \in [Threads -> 0..Len(states)] /\ \A u \in Threads : u # t => st'[u] = st[u]
    BY DEF LeaveSwap, TypeOK
<1> QED
    BY <1>1, <1>2, <1>3, KeepsLetGo

(* An exception from the look-up.                                          *)
LEMMA KeepsLookUpThrows ==
    ASSUME GlInv, NEW t \in Threads, LookUpThrows(t)
    PROVE  GlInv'
<1> USE DEF GlInv
<1>1. /\ pc[t] \notin DestroySteps
      /\ UNCHANGED <<ctx, created, doomed, cur, ctxs, states, imgui, arg, behind>>
    BY DEF LookUpThrows, DestroySteps, glVars
<1>2. \E to \in LeavingSteps : Moved(t, to)
    BY GoesMovesOne DEF LookUpThrows, LeavingSteps, Steps, Throws
<1>3. st' \in [Threads -> 0..Len(states)] /\ \A u \in Threads : u # t => st'[u] = st[u]
    BY DEF LookUpThrows, TypeOK, Throws
<1> QED
    BY <1>1, <1>2, <1>3, KeepsLetGo

(* An exception from the drawing of a frame.                               *)
LEMMA KeepsDrawThrows ==
    ASSUME GlInv, NEW t \in Threads, DrawThrows(t)
    PROVE  GlInv'
<1> USE DEF GlInv
<1>1. /\ pc[t] \notin DestroySteps
      /\ UNCHANGED <<ctx, created, doomed, cur, ctxs, states, imgui, arg, behind>>
    BY DEF DrawThrows, DestroySteps, glVars
<1>2. \E to \in LeavingSteps : Moved(t, to)
    BY GoesMovesOne DEF DrawThrows, LeavingSteps, Steps, Throws
<1>3. st' \in [Threads -> 0..Len(states)] /\ \A u \in Threads : u # t => st'[u] = st[u]
    BY DEF DrawThrows, TypeOK, Throws
<1> QED
    BY <1>1, <1>2, <1>3, KeepsLetGo

(* A destroy hook is entered. *)
LEMMA KeepsDestroy ==
    ASSUME GlInv, NEW t \in Threads, NEW h \in Handles, Destroy(t, h)
    PROVE  GlInv'
<1> USE GlAssumption DEF GlInv
<1>a. UNCHANGED <<ctx, created, doomed, cur, ctxs, states, imgui, st, behind>>
    BY DEF Destroy, glVars, hookVars
<1>b. pc[t] = "out" /\ arg' = [arg EXCEPT ![t] = h] /\ Moved(t, "erase")
    BY GoesMovesOne DEF Destroy, Steps, SwapSteps, DestroySteps
<1>1. TypeOK'
    BY <1>a, <1>b DEF TypeOK, Steps, SwapSteps, DestroySteps, Moved
<1>2. HookLocals'
    BY <1>a, <1>b DEF TypeOK, HookLocals, Steps, SwapSteps, DestroySteps, Moved
<1>3. OneHandle'
    <2>1. \A u \in Threads : Holds(u)' => /\ Holds(u) /\ Found(u)' = Found(u)
                                          /\ (pc'[u] = "teardown" <=> pc[u] = "teardown")
        BY <1>a, <1>b DEF Moved, TypeOK, Holds, Found, Steps, SwapSteps, DestroySteps
    <2>2. \A u \in Threads : pc'[u] = "teardown" => Holds(u)'
        BY DEF Holds
    <2> QED
        BY <1>a, <2>1, <2>2 DEF OneHandle
<1>4. NoFreedState'
    BY <1>a, <1>b
       DEF HookLocals, NoFreedState, SwapSteps, Moved
<1>5. OwnHome'
    BY <1>a, <1>b
       DEF TypeOK, HookLocals, OneHandle, Holds, Found, OwnHome, DrawsOwnObjects,
           PastErase, Steps, SwapSteps, DestroySteps, Moved
<1> QED
    BY <1>1, <1>2, <1>3, <1>4, <1>5

(* A thread finds the CtxState of its context's handle, or makes one. *)
LEMMA KeepsLookUp ==
    ASSUME GlInv, NEW t \in Threads, LookUp(t)
    PROVE  GlInv'
<1> USE GlAssumption DEF GlInv
<1>a. UNCHANGED <<ctx, created, doomed, cur, imgui, arg>>
    BY DEF LookUp, glVars
<1>b. /\ pc[t] = "lookup" /\ Moved(t, "init") /\ cur[t] \in Handles
      /\ behind' = IF PastErase(cur[t]) THEN behind \cup {cur[t]} ELSE behind
    BY GoesMovesOne DEF LookUp, TypeOK, HookLocals, Steps, SwapSteps
<1>c. /\ behind' \subseteq Handles /\ behind \subseteq behind'
      /\ PastErase(cur[t]) => cur[t] \in behind'
    BY <1>b DEF TypeOK
<1>7. CASE ctxs[cur[t]] # 0 /\ st' = [st EXCEPT ![t] = ctxs[cur[t]]] /\ UNCHANGED <<ctxs, states>>
    <2>a. st'[t] = ctxs[cur[t]] /\ \A u \in Threads : u # t => st'[u] = st[u]
        BY <1>7 DEF TypeOK
    <2>1. TypeOK'
        BY <1>a, <1>b, <1>c, <1>7 DEF TypeOK, Moved
    <2>2. HookLocals'
        BY <1>a, <1>b, <1>7, <2>a
           DEF TypeOK, HookLocals, Moved, Steps, SwapSteps, DestroySteps
    <2>3. OneHandle'
        BY <1>a, <1>b, <1>7, <2>a
           DEF TypeOK, HookLocals, OneHandle, Holds, Found, Moved, Steps, SwapSteps, DestroySteps
    <2>4. NoFreedState'
        BY <1>a, <1>b, <1>7, <2>a DEF TypeOK, NoFreedState, Moved
    <2>5. OwnHome'
        <3>1. \A h \in Handles \ behind' : PastErase(h)' \/ ctx'[h] = 0 => ctxs'[h] = 0
            BY <1>a, <1>b, <1>c, <1>7
               DEF TypeOK, HookLocals, OwnHome, PastErase, Moved, SwapSteps, DestroySteps
        <3>2. \A h \in Handles \ behind' :
                 ctxs'[h] # 0 /\ states'[ctxs'[h]].ready => states'[ctxs'[h]].home = ctx'[h]
            BY <1>a, <1>c, <1>7 DEF OwnHome
        <3>3. \A u \in Threads : pc'[u] = "init" /\ cur'[u] \notin behind' =>
                 (states'[st'[u]].ready => states'[st'[u]].home = ctx'[cur'[u]])
            BY <1>a, <1>b, <1>c, <1>7, <2>a DEF OwnHome, Moved
        <3>4. DrawsOwnObjects'
            BY <1>a, <1>b, <1>c, <1>7, <2>a DEF OwnHome, DrawsOwnObjects, Moved
        <3> QED
            BY <3>1, <3>2, <3>3, <3>4 DEF OwnHome
    <2> QED
        BY <2>1, <2>2, <2>3, <2>4, <2>5
<1>8. CASE /\ ctxs[cur[t]] = 0 /\ states' = Append(states, Fresh)
           /\ ctxs' = [ctxs EXCEPT ![cur[t]] = Len(states) + 1]
           /\ st' = [st EXCEPT ![t] = Len(states) + 1]
    <2> DEFINE n == Len(states) + 1
    <2>a. /\ states' \in Seq(State) /\ Len(states') = n /\ Len(states) \in Nat
          /\ ~states'[n].ready /\ ~states'[n].deleted
          /\ \A m \in 1..Len(states) : states'[m] = states[m]
        BY <1>8, OneStateAdded DEF Fresh
    <2>b. st'[t] = n /\ \A u \in Threads : u # t => st'[u] = st[u]
        BY <1>8 DEF TypeOK
    <2>c. ctxs'[cur[t]] = n /\ \A h \in Handles : h # cur[t] => ctxs'[h] = ctxs[h]
        BY <1>b, <1>8 DEF TypeOK
    <2>d. /\ \A h \in Handles : ctxs[h] \in 0..Len(states) /\ ctxs[h] # n
          /\ \A u \in Threads : st[u] \in 0..Len(states) /\ st[u] # n
        BY <2>a DEF TypeOK
    <2> HIDE DEF n
    <2>1. TypeOK'
        <3>1. ctxs' \in [Handles -> 0..Len(states')] /\ st' \in [Threads -> 0..Len(states')]
            <4>1. /\ ctxs \in [Handles -> 0..Len(states')] /\ st \in [Threads -> 0..Len(states')]
                  /\ n \in 0..Len(states')
                BY <2>a DEF TypeOK, n
            <4> QED
                BY <1>8, <4>1 DEF n
        <3> QED
            BY <1>a, <1>b, <1>c, <2>a, <3>1 DEF TypeOK, Moved
    <2>2. HookLocals'
        <3>1. n # 0
            BY <2>a DEF n
        <3> QED
            BY <1>a, <1>b, <2>b, <3>1 DEF HookLocals, Moved, SwapSteps, DestroySteps
    <2>3. OneHandle'
        <3>1. \A u \in Threads : u # t => /\ Holds(u)' = Holds(u) /\ Found(u)' = Found(u)
                                          /\ pc'[u] = pc[u]
            BY <1>a, <1>b DEF Holds, Found, Moved
        <3>2. Found(t)' = cur[t] /\ pc'[t] # "teardown"
            BY <1>a, <1>b DEF Found, Moved
        <3>3. \A g, h \in Handles : ctxs'[g] = ctxs'[h] /\ ctxs'[g] # 0 => g = h
            BY <2>c, <2>d DEF OneHandle
        <3>4. \A u \in Threads, h \in Handles : Holds(u)' /\ ctxs'[h] = st'[u] => h = Found(u)'
            BY <2>b, <2>c, <2>d, <3>1, <3>2 DEF OneHandle
        <3>5. \A u \in Threads, h \in Handles : pc'[u] = "teardown" => ctxs'[h] # st'[u]
            BY <2>b, <2>c, <2>d, <3>1, <3>2 DEF OneHandle
        <3>6. \A u, v \in Threads :
                 Holds(u)' /\ Holds(v)' /\ st'[u] = st'[v] => Found(u)' = Found(v)'
            BY <2>b, <2>d, <3>1 DEF OneHandle
        <3> QED
            BY <3>3, <3>4, <3>5, <3>6 DEF OneHandle
    <2>e. /\ \A h \in Handles : h # cur[t] /\ ctxs[h] # 0 => states'[ctxs'[h]] = states[ctxs[h]]
          /\ \A u \in Threads : u # t /\ pc[u] \in SwapSteps => states'[st'[u]] = states[st[u]]
        BY <2>a, <2>b, <2>c, <2>d DEF HookLocals
    <2>4. NoFreedState'
        BY <1>b, <2>a, <2>b, <2>c, <2>e DEF NoFreedState, Moved, SwapSteps
    <2>5. OwnHome'
        <3>1. \A h \in Handles \ behind' : PastErase(h)' \/ ctx'[h] = 0 => ctxs'[h] = 0
            BY <1>a, <1>b, <1>c, <2>c
               DEF TypeOK, HookLocals, OwnHome, PastErase, Moved, SwapSteps, DestroySteps
        <3>2. \A h \in Handles \ behind' :
                 ctxs'[h] # 0 /\ states'[ctxs'[h]].ready => states'[ctxs'[h]].home = ctx'[h]
            BY <1>a, <1>c, <2>a, <2>c, <2>e DEF OwnHome
        <3>3. \A u \in Threads : pc'[u] = "init" /\ cur'[u] \notin behind' =>
                 (states'[st'[u]].ready => states'[st'[u]].home = ctx'[cur'[u]])
            BY <1>a, <1>b, <1>c, <2>a, <2>b, <2>e DEF OwnHome, Moved, SwapSteps
        <3>4. DrawsOwnObjects'
            BY <1>a, <1>b, <1>c, <2>b, <2>e DEF OwnHome, DrawsOwnObjects, Moved, SwapSteps
        <3> QED
            BY <3>1, <3>2, <3>3, <3>4 DEF OwnHome
    <2> QED
        BY <2>1, <2>2, <2>3, <2>4, <2>5
<1> QED
    BY <1>7, <1>8 DEF LookUp

(* A thread in the init step of the swap hook, or in the teardown of the   *)
(* destroy hook of the context it has, is the only one there that draws    *)
(* with its CtxState.                                                      *)
LEMMA HolderIsAlone ==
    ASSUME GlInv, NEW t \in Threads, Holds(t), pc[t] = "teardown" => cur[t] = arg[t]
    PROVE  /\ st[t] \in 1..Len(states) /\ states[st[t]] \in State
           /\ \A u \in Threads : u # t /\ pc[u] \in SwapSteps => st[u] # st[t]
           /\ \A h \in Handles : ctxs[h] = st[t] => h = cur[t] /\ pc[t] # "teardown"
<1> USE DEF GlInv
<1>1. st[t] \in 1..Len(states) /\ states[st[t]] \in State
    BY DEF TypeOK, HookLocals, Holds
<1>2. Found(t) = cur[t]
    BY DEF Found
<1>3. ASSUME NEW u \in Threads, u # t, pc[u] \in SwapSteps PROVE st[u] # st[t]
    <2>1. Holds(u) /\ Found(u) = cur[u] /\ cur[u] # None
        BY <1>3 DEF Holds, Found, HookLocals, SwapSteps
    <2>2. cur[u] # cur[t]
        BY <1>3, <2>1 DEF HookLocals
    <2> QED
        BY <1>2, <2>1, <2>2 DEF OneHandle
<1> QED
    BY <1>1, <1>2, <1>3 DEF OneHandle

(* The renderer's objects are made in the context that is current. *)
LEMMA KeepsInitRenderer ==
    ASSUME GlInv, NEW t \in Threads, InitRenderer(t)
    PROVE  GlInv'
<1> USE GlAssumption DEF GlInv
<1> DEFINE r == [states[st[t]] EXCEPT !.gui = TRUE, !.ready = TRUE, !.home = ctx[cur[t]]]
<1>a. UNCHANGED <<ctx, created, doomed, cur, ctxs, st, arg, behind>>
    BY DEF InitRenderer, glVars
<1>b. pc[t] = "init" /\ imgui' = st[t] /\ Moved(t, "draw") /\ cur[t] \in Handles
    BY GoesMovesOne DEF InitRenderer, Initialises, TypeOK, HookLocals, Steps, SwapSteps
<1>d. /\ st[t] \in 1..Len(states) /\ states[st[t]] \in State
      /\ \A u \in Threads : u # t /\ pc[u] \in SwapSteps => st[u] # st[t]
      /\ \A h \in Handles : ctxs[h] = st[t] => h = cur[t]
    BY <1>b, HolderIsAlone DEF Holds, SwapSteps
<1>e. r \in State /\ r.ready /\ r.home = ctx[cur[t]] /\ r.deleted = states[st[t]].deleted
    BY <1>b, <1>d DEF State, TypeOK
<1>f. states' = [states EXCEPT ![st[t]] = r]
    BY <1>d DEF InitRenderer, TypeOK
<1>g. /\ states' \in Seq(State) /\ Len(states') = Len(states) /\ states'[st[t]] = r
      /\ \A m \in 1..Len(states) : m # st[t] => states'[m] = states[m]
    BY <1>d, <1>e, <1>f, OneStateWritten
<1> HIDE DEF r
<1>h. /\ \A h \in Handles : ctxs[h] # 0 /\ ctxs[h] # st[t] => states'[ctxs[h]] = states[ctxs[h]]
      /\ \A u \in Threads : u # t /\ pc[u] \in SwapSteps => states'[st[u]] = states[st[u]]
    BY <1>d, <1>g DEF TypeOK, HookLocals
<1>1. TypeOK'
    BY <1>a, <1>b, <1>g DEF TypeOK, Moved
<1>2. HookLocals'
    BY <1>a, <1>b DEF TypeOK, HookLocals, Moved, Steps, SwapSteps, DestroySteps
<1>3. OneHandle'
    <2>1. \A u \in Threads : Holds(u)' => /\ Holds(u) /\ Found(u)' = Found(u)
                                          /\ (pc'[u] = "teardown" <=> pc[u] = "teardown")
        BY <1>a, <1>b DEF Moved, Holds, Found, SwapSteps
    <2>2. \A u \in Threads : pc'[u] = "teardown" => Holds(u)'
        BY DEF Holds
    <2> QED
        BY <1>a, <2>1, <2>2 DEF OneHandle
<1>4. NoFreedState'
    BY <1>a, <1>b, <1>d, <1>e, <1>g, <1>h DEF NoFreedState, Moved, SwapSteps
<1>5. OwnHome'
    <2>1. \A h \in Handles \ behind' : PastErase(h)' \/ ctx'[h] = 0 => ctxs'[h] = 0
        BY <1>a, <1>b
           DEF TypeOK, HookLocals, OwnHome, PastErase, Moved, SwapSteps, DestroySteps
    <2>2. \A h \in Handles \ behind' :
             ctxs'[h] # 0 /\ states'[ctxs'[h]].ready => states'[ctxs'[h]].home = ctx'[h]
        BY <1>a, <1>d, <1>e, <1>g, <1>h DEF OwnHome
    <2>3. \A u \in Threads : pc'[u] = "init" /\ cur'[u] \notin behind' =>
             (states'[st'[u]].ready => states'[st'[u]].home = ctx'[cur'[u]])
        BY <1>a, <1>b, <1>h DEF OwnHome, Moved, SwapSteps
    <2>4. DrawsOwnObjects'
        BY <1>a, <1>b, <1>e, <1>g, <1>h DEF OwnHome, DrawsOwnObjects, Moved, SwapSteps
    <2> QED
        BY <2>1, <2>2, <2>3, <2>4 DEF OwnHome
<1> QED
    BY <1>1, <1>2, <1>3, <1>4, <1>5

(* A renderer that is not made, whether it fails or throws: its CtxState is *)
(* as ready, and as deleted, as it was.                                     *)
LEMMA KeepsNotMade ==
    ASSUME GlInv, NEW t \in Threads, pc[t] = "init", NEW to \in LeavingSteps, Moved(t, to),
           NEW r \in State, r.ready = states[st[t]].ready, r.home = states[st[t]].home,
           r.deleted = states[st[t]].deleted, states' = [states EXCEPT ![st[t]] = r],
           imgui' \in Nat, st' \in [Threads -> 0..Len(states)],
           \A u \in Threads : u # t => st'[u] = st[u],
           UNCHANGED <<ctx, created, doomed, cur, ctxs, arg, behind>>
    PROVE  GlInv'
<1> USE GlAssumption DEF GlInv
<1>b. /\ pc'[t] \notin DestroySteps \cup SwapSteps \cup {"lookup"}
      /\ \A u \in Threads : u # t => pc'[u] = pc[u]
    BY DEF Moved, LeavingSteps, SwapSteps, DestroySteps
<1>d. st[t] \in 1..Len(states) /\ states[st[t]] \in State
    BY HolderIsAlone DEF Holds, SwapSteps
<1>g. /\ states' \in Seq(State) /\ Len(states') = Len(states) /\ states'[st[t]] = r
      /\ \A m \in 1..Len(states) : m # st[t] => states'[m] = states[m]
    BY <1>d, OneStateWritten
<1>h. \A m \in 1..Len(states) :
         /\ states'[m].ready = states[m].ready /\ states'[m].home = states[m].home
         /\ states'[m].deleted = states[m].deleted
    BY <1>d, <1>g
<1>i. /\ \A h \in Handles : ctxs[h] # 0 => ctxs[h] \in 1..Len(states)
      /\ \A u \in Threads : pc[u] \in SwapSteps => st[u] \in 1..Len(states)
    BY DEF TypeOK, HookLocals
<1>1. TypeOK'
    BY <1>g DEF TypeOK, Moved
<1>2. HookLocals'
    <2>1. \A u \in Threads : pc'[u] \in SwapSteps \cup {"lookup"} => cur'[u] # None
        BY <1>b DEF HookLocals
    <2>2. \A u \in Threads : arg'[u] # None <=> pc'[u] \in DestroySteps
        BY <1>b DEF HookLocals, DestroySteps
    <2>3. \A u \in Threads : pc'[u] \in SwapSteps \cup {"teardown"} => st'[u] # 0
        BY <1>b DEF HookLocals, DestroySteps
    <2> QED
        BY <2>1, <2>2, <2>3 DEF HookLocals
<1>3. OneHandle'
    <2>1. \A u \in Threads : Holds(u)' => /\ u # t /\ Holds(u) /\ Found(u)' = Found(u)
                                          /\ (pc'[u] = "teardown" <=> pc[u] = "teardown")
        BY <1>b DEF Holds, Found, DestroySteps
    <2>2. \A u \in Threads : pc'[u] = "teardown" => Holds(u)'
        BY DEF Holds
    <2>3. \A u \in Threads, h \in Handles : Holds(u)' /\ ctxs'[h] = st'[u] => h = Found(u)'
        BY <2>1 DEF OneHandle
    <2>4. \A u \in Threads, h \in Handles : pc'[u] = "teardown" => ctxs'[h] # st'[u]
        BY <2>1, <2>2 DEF OneHandle
    <2>5. \A u, v \in Threads : Holds(u)' /\ Holds(v)' /\ st'[u] = st'[v] => Found(u)' = Found(v)'
        BY <2>1 DEF OneHandle
    <2> QED
        BY <2>3, <2>4, <2>5 DEF OneHandle
<1>4. NoFreedState'
    BY <1>b, <1>h, <1>i DEF NoFreedState, SwapSteps
<1>5. OwnHome'
    <2>1. \A h \in Handles \ behind' : PastErase(h)' \/ ctx'[h] = 0 => ctxs'[h] = 0
        <3>1. \A h \in Handles : PastErase(h)' => PastErase(h)
            BY <1>b DEF PastErase, HookLocals, DestroySteps
        <3> QED
            BY <3>1 DEF OwnHome
    <2>2. \A h \in Handles \ behind' :
             ctxs'[h] # 0 /\ states'[ctxs'[h]].ready => states'[ctxs'[h]].home = ctx'[h]
        BY <1>h, <1>i DEF OwnHome
    <2>3. \A u \in Threads : pc'[u] = "init" /\ cur'[u] \notin behind' =>
             (states'[st'[u]].ready => states'[st'[u]].home = ctx'[cur'[u]])
        BY <1>b, <1>h, <1>i DEF OwnHome, SwapSteps
    <2>4. DrawsOwnObjects'
        BY <1>b, <1>h, <1>i DEF OwnHome, DrawsOwnObjects, SwapSteps
    <2> QED
        BY <2>1, <2>2, <2>3, <2>4 DEF OwnHome
<1> QED
    BY <1>1, <1>2, <1>3, <1>4, <1>5

(* A renderer that cannot be made is not tried again.                      *)
LEMMA KeepsInitFails ==
    ASSUME GlInv, NEW t \in Threads, InitFails(t)
    PROVE  GlInv'
<1> USE DEF GlInv
<1> DEFINE r == [states[st[t]] EXCEPT !.gui = FALSE, !.skip = TRUE]
<1>1. /\ pc[t] = "init" /\ Moved(t, "swap")
      /\ UNCHANGED <<ctx, created, doomed, cur, ctxs, arg, behind>>
    BY GoesMovesOne DEF InitFails, Initialises, Steps, LeavingSteps, glVars
<1>2. st[t] \in 1..Len(states) /\ states[st[t]] \in State
    BY <1>1, HolderIsAlone DEF Holds, SwapSteps
<1>3. /\ r \in State /\ r.ready = states[st[t]].ready /\ r.home = states[st[t]].home
      /\ r.deleted = states[st[t]].deleted
    BY <1>2 DEF State
<1>4. states' = [states EXCEPT ![st[t]] = r] /\ imgui' \in Nat
    BY <1>2 DEF InitFails, TypeOK
<1>5. st' \in [Threads -> 0..Len(states)] /\ \A u \in Threads : u # t => st'[u] = st[u]
    BY DEF InitFails, TypeOK
<1>6. "swap" \in LeavingSteps
    BY DEF LeavingSteps
<1> HIDE DEF r
<1> QED
    BY <1>1, <1>3, <1>4, <1>5, <1>6, KeepsNotMade

(* A renderer whose making throws is tried again.                          *)
LEMMA KeepsInitThrows ==
    ASSUME GlInv, NEW t \in Threads, InitThrows(t)
    PROVE  GlInv'
<1> USE DEF GlInv
<1> DEFINE r == [states[st[t]] EXCEPT !.gui = TRUE]
<1>1. /\ pc[t] = "init" /\ Moved(t, "thrown")
      /\ UNCHANGED <<ctx, created, doomed, cur, ctxs, arg, behind>>
    BY GoesMovesOne DEF InitThrows, Initialises, Steps, LeavingSteps, glVars, Throws
<1>2. st[t] \in 1..Len(states) /\ states[st[t]] \in State
    BY <1>1, HolderIsAlone DEF Holds, SwapSteps
<1>3. /\ r \in State /\ r.ready = states[st[t]].ready /\ r.home = states[st[t]].home
      /\ r.deleted = states[st[t]].deleted
    BY <1>2 DEF State
<1>4. states' = [states EXCEPT ![st[t]] = r] /\ imgui' \in Nat
    BY <1>2 DEF InitThrows, TypeOK
<1>5. st' \in [Threads -> 0..Len(states)] /\ \A u \in Threads : u # t => st'[u] = st[u]
    BY DEF InitThrows, TypeOK, Throws
<1>6. "thrown" \in LeavingSteps
    BY DEF LeavingSteps
<1> HIDE DEF r
<1> QED
    BY <1>1, <1>3, <1>4, <1>5, <1>6, KeepsNotMade

(* The entry leaves the map before anything is torn down. *)
LEMMA KeepsEraseEntry ==
    ASSUME GlInv, NEW t \in Threads, EraseEntry(t)
    PROVE  GlInv'
<1> USE GlAssumption DEF GlInv
<1>a. UNCHANGED <<ctx, created, doomed, cur, states, imgui, arg, behind>>
    BY DEF EraseEntry, glVars
<1>b. /\ pc[t] = "erase" /\ arg[t] \in Handles
      /\ Moved(t, IF ctxs[arg[t]] = 0 THEN "destroy" ELSE "teardown")
    BY GoesMovesOne DEF EraseEntry, TypeOK, HookLocals, Steps, SwapSteps, DestroySteps
<1>c. /\ st' \in [Threads -> 0..Len(states)] /\ st'[t] = ctxs[arg[t]]
      /\ \A u \in Threads : u # t => st'[u] = st[u]
    BY <1>b DEF EraseEntry, TypeOK
<1>d. /\ ctxs' \in [Handles -> 0..Len(states)] /\ ctxs'[arg[t]] = 0
      /\ \A h \in Handles : h # arg[t] => ctxs'[h] = ctxs[h]
    BY <1>b DEF EraseEntry, TypeOK
<1>1. TypeOK'
    BY <1>a, <1>b, <1>c, <1>d DEF TypeOK, Moved
<1>2. HookLocals'
    BY <1>a, <1>b, <1>c DEF TypeOK, HookLocals, Moved, Steps, SwapSteps, DestroySteps
<1>3. OneHandle'
    <2>0. \A u \in Threads : u # t => Holds(u)' = Holds(u) /\ Found(u)' = Found(u)
        BY <1>a, <1>b DEF Holds, Found, Moved
    <2>1. \A g, h \in Handles : ctxs'[g] = ctxs'[h] /\ ctxs'[g] # 0 => g = h
        BY <1>d DEF OneHandle
    <2>2. \A u \in Threads, h \in Handles : Holds(u)' /\ ctxs'[h] = st'[u] => h = Found(u)'
        <3> SUFFICES ASSUME NEW u \in Threads, NEW h \in Handles, Holds(u)', ctxs'[h] = st'[u]
                     PROVE  h = Found(u)'
            OBVIOUS
        <3>1. st'[u] # 0 /\ h # arg[t] /\ ctxs'[h] = ctxs[h]
            BY <1>2, <1>d DEF HookLocals, Holds
        <3>2. CASE u = t
            BY <1>b, <1>c, <3>1, <3>2 DEF OneHandle
        <3>3. CASE u # t
            BY <1>c, <2>0, <3>1, <3>3 DEF OneHandle
        <3> QED
            BY <3>2, <3>3
    <2>3. \A u \in Threads, h \in Handles : pc'[u] = "teardown" => ctxs'[h] # st'[u]
        <3> SUFFICES ASSUME NEW u \in Threads, NEW h \in Handles, pc'[u] = "teardown",
                            ctxs'[h] = st'[u]
                     PROVE  FALSE
            OBVIOUS
        <3>1. st'[u] # 0 /\ h # arg[t] /\ ctxs'[h] = ctxs[h]
            BY <1>2, <1>d DEF HookLocals
        <3>2. CASE u = t
            BY <1>b, <1>c, <3>1, <3>2 DEF OneHandle
        <3>3. CASE u # t
            <4>1. pc[u] = "teardown" /\ ctxs[h] = st[u]
                BY <1>b, <1>c, <3>1, <3>3 DEF Moved
            <4> QED
                BY <4>1 DEF OneHandle
        <3> QED
            BY <3>2, <3>3
    <2>4. \A u \in Threads :
             u # t /\ Holds(u)' /\ Holds(t)' /\ st'[u] = st'[t] => Found(u)' = arg[t]
        <3> SUFFICES ASSUME NEW u \in Threads, u # t, Holds(u)', st'[u] = st'[t]
                     PROVE  Found(u)' = arg[t]
            OBVIOUS
        <3> QED
            BY <1>b, <1>c, <2>0 DEF OneHandle
    <2>5. Holds(t)' => Found(t)' = arg[t]
        BY <1>a, <1>b DEF Holds, Found, Moved, SwapSteps
    <2>6. \A u, v \in Threads : Holds(u)' /\ Holds(v)' /\ st'[u] = st'[v] => Found(u)' = Found(v)'
        BY <1>c, <2>0, <2>4, <2>5 DEF OneHandle
    <2> QED
        BY <2>1, <2>2, <2>3, <2>6 DEF OneHandle
<1>4. NoFreedState'
    BY <1>a, <1>b, <1>c, <1>d DEF NoFreedState, Moved, SwapSteps
<1>5. OwnHome'
    <2>1. \A h \in Handles \ behind' : PastErase(h)' \/ ctx'[h] = 0 => ctxs'[h] = 0
        <3> SUFFICES ASSUME NEW h \in Handles, h \notin behind, PastErase(h)' \/ ctx'[h] = 0,
                            h # arg[t]
                     PROVE  PastErase(h) \/ ctx[h] = 0
            BY <1>a, <1>d DEF OwnHome
        <3> QED
            BY <1>a, <1>b DEF PastErase, Moved
    <2>2. \A h \in Handles \ behind' :
             ctxs'[h] # 0 /\ states'[ctxs'[h]].ready => states'[ctxs'[h]].home = ctx'[h]
        BY <1>a, <1>d DEF OwnHome
    <2>3. \A u \in Threads : pc'[u] = "init" /\ cur'[u] \notin behind' =>
             (states'[st'[u]].ready => states'[st'[u]].home = ctx'[cur'[u]])
        BY <1>a, <1>b, <1>c DEF OwnHome, Moved
    <2>4. DrawsOwnObjects'
        BY <1>a, <1>b, <1>c DEF OwnHome, DrawsOwnObjects, Moved
    <2> QED
        BY <2>1, <2>2, <2>3, <2>4 DEF OwnHome
<1> QED
    BY <1>1, <1>2, <1>3, <1>4, <1>5

(* A CtxState is deleted by the thread that has its context, when nobody   *)
(* else can be drawing with it, or it leaks.                               *)
LEMMA KeepsTeardown ==
    ASSUME GlInv, NEW t \in Threads, Teardown(t)
    PROVE  GlInv'
<1> USE GlAssumption DEF GlInv
<1>a. UNCHANGED <<ctx, created, doomed, cur, ctxs, st, arg, behind>>
    BY DEF Teardown, glVars
<1>b. pc[t] = "teardown" /\ Moved(t, "destroy")
    BY GoesMovesOne DEF Teardown, Steps, DestroySteps
<1>2. HookLocals'
    BY <1>a, <1>b DEF TypeOK, HookLocals, Moved, Steps, SwapSteps, DestroySteps
<1>3. OneHandle'
    <2>1. \A u \in Threads : Holds(u)' => /\ Holds(u) /\ Found(u)' = Found(u)
                                          /\ (pc'[u] = "teardown" <=> pc[u] = "teardown")
        BY <1>a, <1>b DEF Moved, Holds, Found, SwapSteps
    <2>2. \A u \in Threads : pc'[u] = "teardown" => Holds(u)'
        BY DEF Holds
    <2> QED
        BY <1>a, <2>1, <2>2 DEF OneHandle
<1>7. \A h \in Handles \ behind' : PastErase(h)' \/ ctx'[h] = 0 => ctxs'[h] = 0
    BY <1>a, <1>b
       DEF TypeOK, HookLocals, OwnHome, PastErase, Moved, SwapSteps, DestroySteps
<1>8. CASE cur[t] = arg[t] /\ Delete(t)
    <2> DEFINE r == [states[st[t]] EXCEPT !.deleted = TRUE, !.ready = FALSE, !.gui = FALSE]
    <2>1. /\ st[t] \in 1..Len(states) /\ states[st[t]] \in State
          /\ \A u \in Threads : u # t /\ pc[u] \in SwapSteps => st[u] # st[t]
          /\ \A h \in Handles : ctxs[h] # st[t]
        BY <1>b, <1>8, HolderIsAlone DEF Holds
    <2>2. r \in State /\ states' = [states EXCEPT ![st[t]] = r]
        BY <1>8, <2>1 DEF State, Delete, TypeOK
    <2>3. /\ states' \in Seq(State) /\ Len(states') = Len(states)
          /\ \A m \in 1..Len(states) : m # st[t] => states'[m] = states[m]
        BY <2>1, <2>2, OneStateWritten
    <2>4. /\ \A h \in Handles : ctxs[h] # 0 => states'[ctxs[h]] = states[ctxs[h]]
          /\ \A u \in Threads : u # t /\ pc[u] \in SwapSteps => states'[st[u]] = states[st[u]]
        BY <2>1, <2>3 DEF TypeOK, HookLocals
    <2>5. TypeOK'
        <3>1. imgui' \in Nat
            BY <1>8 DEF TypeOK, Delete
        <3> QED
            BY <1>a, <1>b, <2>3, <3>1 DEF TypeOK, Moved
    <2>6. NoFreedState'
        BY <1>a, <1>b, <2>4 DEF NoFreedState, Moved, SwapSteps
    <2>7. OwnHome'
        <3>2. \A h \in Handles \ behind' :
                 ctxs'[h] # 0 /\ states'[ctxs'[h]].ready => states'[ctxs'[h]].home = ctx'[h]
            BY <1>a, <2>4 DEF OwnHome
        <3>3. \A u \in Threads : pc'[u] = "init" /\ cur'[u] \notin behind' =>
                 (states'[st'[u]].ready => states'[st'[u]].home = ctx'[cur'[u]])
            BY <1>a, <1>b, <2>4 DEF OwnHome, Moved, SwapSteps
        <3>4. DrawsOwnObjects'
            BY <1>a, <1>b, <2>4 DEF OwnHome, DrawsOwnObjects, Moved, SwapSteps
        <3> QED
            BY <1>7, <3>2, <3>3, <3>4 DEF OwnHome
    <2> QED
        BY <1>2, <1>3, <2>5, <2>6, <2>7
<1>9. CASE UNCHANGED <<states, imgui>>
    <2>1. TypeOK'
        BY <1>a, <1>b, <1>9 DEF TypeOK, Moved
    <2>2. NoFreedState'
        BY <1>a, <1>b, <1>9 DEF NoFreedState, Moved, SwapSteps
    <2>3. OwnHome'
        <3>2. \A h \in Handles \ behind' :
                 ctxs'[h] # 0 /\ states'[ctxs'[h]].ready => states'[ctxs'[h]].home = ctx'[h]
            BY <1>a, <1>9 DEF OwnHome
        <3>3. \A u \in Threads : pc'[u] = "init" /\ cur'[u] \notin behind' =>
                 (states'[st'[u]].ready => states'[st'[u]].home = ctx'[cur'[u]])
            BY <1>a, <1>b, <1>9 DEF OwnHome, Moved
        <3>4. DrawsOwnObjects'
            BY <1>a, <1>b, <1>9 DEF OwnHome, DrawsOwnObjects, Moved
        <3> QED
            BY <1>7, <3>2, <3>3, <3>4 DEF OwnHome
    <2> QED
        BY <1>2, <1>3, <2>1, <2>2, <2>3
<1> QED
    BY <1>8, <1>9 DEF Teardown

(* The context goes, or is doomed, when its entry has gone. *)
LEMMA KeepsRealDestroy ==
    ASSUME GlInv, NEW t \in Threads, RealDestroy(t)
    PROVE  GlInv'
<1> USE GlAssumption DEF GlInv
<1>a. UNCHANGED <<created, cur, ctxs, states, imgui, behind>>
    BY DEF RealDestroy
<1>b. pc[t] = "destroy" /\ Moved(t, "out") /\ arg[t] \in Handles /\ LibraryDestroys(arg[t])
    BY GoesMovesOne DEF RealDestroy, TypeOK, HookLocals, Steps, DestroySteps
<1>c. /\ arg' \in [Threads -> Handles \cup {None}] /\ arg'[t] = None
      /\ st' \in [Threads -> 0..Len(states)]
      /\ \A u \in Threads : u # t => arg'[u] = arg[u] /\ st'[u] = st[u]
    BY DEF RealDestroy, TypeOK
<1>d. /\ ctx' \in [Handles -> Nat] /\ doomed' \subseteq Handles
      /\ \A g \in Handles : g # arg[t] => ctx'[g] = ctx[g] /\ (g \in doomed' <=> g \in doomed)
      /\ IsCurrent(arg[t]) => ctx' = ctx
    BY <1>b, OneContextDestroyed
<1>e. \A u \in Threads : cur[u] # None => ctx'[cur[u]] = ctx[cur[u]]
    BY <1>d DEF TypeOK, IsCurrent
<1>1. TypeOK'
    BY <1>a, <1>b, <1>c, <1>d DEF TypeOK, Moved
<1>2. HookLocals'
    <2>1. \A u \in Threads : /\ pc'[u] \in SwapSteps \cup {"lookup"} => cur'[u] # None
                             /\ pc'[u] \in SwapSteps \cup {"teardown"} => st'[u] # 0
        BY <1>a, <1>b, <1>c DEF HookLocals, Moved, SwapSteps
    <2>2. \A u \in Threads : arg'[u] # None <=> pc'[u] \in DestroySteps
        BY <1>b, <1>c DEF HookLocals, Moved, DestroySteps
    <2>3. \A u, v \in Threads : cur'[u] = cur'[v] /\ cur'[u] # None => u = v
        BY <1>a DEF HookLocals
    <2>4. \A u \in Threads : cur'[u] # None => ctx'[cur'[u]] # 0
        BY <1>a, <1>e DEF HookLocals
    <2> QED
        BY <2>1, <2>2, <2>3, <2>4 DEF HookLocals
<1>3. OneHandle'
    <2>1. \A u \in Threads : Holds(u)' => /\ u # t /\ Holds(u) /\ Found(u)' = Found(u)
                                          /\ (pc'[u] = "teardown" <=> pc[u] = "teardown")
        BY <1>a, <1>b, <1>c DEF Moved, Holds, Found, SwapSteps
    <2>2. \A u \in Threads : pc'[u] = "teardown" => Holds(u)'
        BY DEF Holds
    <2> QED
        BY <1>a, <1>c, <2>1, <2>2 DEF OneHandle
<1>4. NoFreedState'
    BY <1>a, <1>b, <1>c DEF NoFreedState, Moved, SwapSteps
<1>5. OwnHome'
    <2>0. PastErase(arg[t])
        BY <1>b DEF PastErase
    <2>1. \A h \in Handles \ behind' : PastErase(h)' \/ ctx'[h] = 0 => ctxs'[h] = 0
        <3> SUFFICES ASSUME NEW h \in Handles, h \notin behind, PastErase(h)' \/ ctx'[h] = 0,
                            h # arg[t]
                     PROVE  PastErase(h) \/ ctx[h] = 0
            BY <1>a, <1>b, <2>0 DEF OwnHome
        <3> QED
            BY <1>b, <1>c, <1>d, GlAssumption DEF PastErase, Moved
    <2>2. \A h \in Handles \ behind' :
             ctxs'[h] # 0 /\ states'[ctxs'[h]].ready => states'[ctxs'[h]].home = ctx'[h]
        BY <1>a, <1>b, <1>d, <2>0 DEF OwnHome
    <2>3. \A u \in Threads : pc'[u] = "init" /\ cur'[u] \notin behind' =>
             (states'[st'[u]].ready => states'[st'[u]].home = ctx'[cur'[u]])
        BY <1>a, <1>b, <1>c, <1>e DEF OwnHome, HookLocals, Moved, SwapSteps
    <2>4. DrawsOwnObjects'
        BY <1>a, <1>b, <1>c, <1>e
           DEF OwnHome, HookLocals, DrawsOwnObjects, Moved, SwapSteps
    <2> QED
        BY <2>1, <2>2, <2>3, <2>4 DEF OwnHome
<1> QED
    BY <1>1, <1>2, <1>3, <1>4, <1>5

-----------------------------------------------------------------------------
(* The theorems *)

LEMMA GlInvNext == GlInv /\ [Next]_vars => GlInv'
<1> SUFFICES ASSUME GlInv, [Next]_vars PROVE GlInv'
    OBVIOUS
<1>1. ASSUME NEW t \in Threads, Game(t) PROVE GlInv'
    BY <1>1, KeepsRelease, KeepsSwap, KeepsMakeCurrent, KeepsDestroy, KeepsDestroyBehind
       DEF Game
<1>2. ASSUME NEW t \in Threads, SwapHook(t) PROVE GlInv'
    BY <1>2, KeepsLookUp, KeepsSkip, KeepsReady, KeepsInitRenderer, KeepsInitFails,
       KeepsBeginFrame, KeepsEndFrame, KeepsRealSwap, KeepsLeaveSwap DEF SwapHook
<1>3. ASSUME NEW t \in Threads, DestroyHook(t) PROVE GlInv'
    BY <1>3, KeepsEraseEntry, KeepsTeardown, KeepsRealDestroy DEF DestroyHook
<1>4. ASSUME NEW t \in Threads, Exception(t) PROVE GlInv'
    BY <1>4, KeepsLookUpThrows, KeepsInitThrows, KeepsDrawThrows DEF Exception
<1>5. CASE UNCHANGED vars
    <2> USE <1>5 DEF vars, GlInv
    <2>1. TypeOK' /\ HookLocals'
        BY DEF TypeOK, HookLocals
    <2>2. OneHandle'
        BY DEF OneHandle, Holds, Found
    <2>3. NoFreedState'
        BY DEF NoFreedState, SwapSteps
    <2>4. OwnHome'
        BY DEF OwnHome, PastErase, DrawsOwnObjects
    <2> QED
        BY <2>1, <2>2, <2>3, <2>4
<1> QED
    BY <1>1, <1>2, <1>3, <1>4, <1>5, KeepsCreateContext DEF Next

LEMMA GlInvariant == Spec => []GlInv
    BY GlInvInit, GlInvNext, PTL DEF Spec

(* Every variable keeps its type. *)
THEOREM TypeCorrect == Spec => []TypeOK
<1>1. GlInv => TypeOK
    BY DEF GlInv
<1> QED
    BY <1>1, GlInvariant, PTL

(* A frame is drawn with the GL objects of the context it is drawn in, for *)
(* every handle that is destroyed through the hooks and not swapped past   *)
(* them, however often it comes round again.                               *)
THEOREM FrameUsesOwnObjects == Spec => []DrawsOwnObjects
<1>1. GlInv => DrawsOwnObjects
    BY DEF GlInv, OwnHome
<1> QED
    BY <1>1, GlInvariant, PTL

-----------------------------------------------------------------------------
(* The renderers and ImGui's current context *)

Idle == {"out", "lookup", "shown", "unresolved", "thrown"}

(* A renderer that is ready has its ImGui context and was not given up; a  *)
(* thread draws with a ready one, though another may be initialising,      *)
(* failing or tearing down its own; the context that is ImGui's current    *)
(* one exists; and a thread outside a hook has let its CtxState go.        *)
ReadyHasGui  == \A n \in 1..Len(states) : states[n].ready => states[n].gui /\ ~states[n].skip
DrawsReady   == \A t \in Threads : pc[t] \in {"draw", "frame"} => states[st[t]].ready
CurrentLives == imgui # 0 => imgui \in 1..Len(states) /\ states[imgui].gui
LetGo        == \A t \in Threads : pc[t] \in Idle => st[t] = 0

RendererInv == ReadyHasGui /\ DrawsReady /\ CurrentLives /\ LetGo

LEMMA RendererInvInit == Init => RendererInv
<1> SUFFICES ASSUME Init PROVE RendererInv
    OBVIOUS
<1>1. Len(states) = 0 /\ imgui = 0
    BY DEF Init
<1>2. ReadyHasGui /\ CurrentLives
    BY <1>1 DEF ReadyHasGui, CurrentLives
<1>3. DrawsReady /\ LetGo
    BY DEF Init, DrawsReady, LetGo
<1> QED
    BY <1>2, <1>3 DEF RendererInv

(* A step of one thread that leaves the renderers alone. *)
LEMMA RenderersAlone ==
    ASSUME RendererInv, NEW t \in Threads, UNCHANGED <<states, imgui>>,
           \A u \in Threads : u # t => pc'[u] = pc[u] /\ st'[u] = st[u],
           pc'[t] \in Idle => st'[t] = 0,
           pc'[t] \in {"draw", "frame"} => states[st'[t]].ready
    PROVE  RendererInv'
<1>1. ReadyHasGui' /\ CurrentLives'
    BY DEF RendererInv, ReadyHasGui, CurrentLives
<1>2. DrawsReady' /\ LetGo'
    BY DEF RendererInv, DrawsReady, LetGo
<1> QED
    BY <1>1, <1>2 DEF RendererInv

(* A step that writes the CtxState a thread holds alone. *)
LEMMA RendererWritten ==
    ASSUME GlInv, RendererInv, NEW t \in Threads, Holds(t),
           pc[t] = "teardown" => cur[t] = arg[t],
           NEW r \in State, states' = [states EXCEPT ![st[t]] = r],
           r.ready => r.gui /\ ~r.skip,
           imgui' = 0 \/ (imgui' = st[t] /\ r.gui),
           \A u \in Threads : u # t => pc'[u] = pc[u] /\ st'[u] = st[u],
           pc'[t] \in Idle => st'[t] = 0,
           pc'[t] \in {"draw", "frame"} => st'[t] = st[t] /\ r.ready
    PROVE  RendererInv'
<1>1. /\ st[t] \in 1..Len(states)
      /\ \A u \in Threads : u # t /\ pc[u] \in SwapSteps => st[u] # st[t]
    BY HolderIsAlone
<1>2. /\ Len(states') = Len(states) /\ states'[st[t]] = r
      /\ \A m \in 1..Len(states) : m # st[t] => states'[m] = states[m]
    BY <1>1, OneStateWritten DEF GlInv
<1>3. ReadyHasGui' /\ CurrentLives'
    BY <1>1, <1>2 DEF RendererInv, ReadyHasGui, CurrentLives
<1>4. DrawsReady'
    <2> SUFFICES ASSUME NEW u \in Threads, pc'[u] \in {"draw", "frame"}
                 PROVE  states'[st'[u]].ready
        BY DEF DrawsReady
    <2>1. CASE u = t
        BY <1>2, <2>1
    <2>2. CASE u # t
        <3>1. pc[u] \in SwapSteps /\ st'[u] = st[u] /\ states[st[u]].ready
            BY <2>2 DEF SwapSteps, RendererInv, DrawsReady
        <3>2. st[u] \in 1..Len(states) /\ st[u] # st[t]
            BY <1>1, <2>2, <3>1 DEF GlInv, TypeOK, HookLocals
        <3> QED
            BY <1>2, <3>1, <3>2
    <2> QED
        BY <2>1, <2>2
<1>5. LetGo'
    BY DEF RendererInv, LetGo
<1> QED
    BY <1>3, <1>4, <1>5 DEF RendererInv

LEMMA SwapKeepsRenderers ==
    ASSUME GlInv, RendererInv, NEW t \in Threads, SwapHook(t) \/ Exception(t)
    PROVE  RendererInv'
<1> USE DEF GlInv
<1>0. \A u \in Threads : pc[u] \in SwapSteps => st[u] \in 1..Len(states) /\ states[st[u]] \in State
    BY DEF TypeOK, HookLocals, SwapSteps
<1>1. CASE LookUp(t)
    <2>0. /\ \A u \in Threads : u # t => pc'[u] = pc[u] /\ st'[u] = st[u]
          /\ pc'[t] = "init" /\ imgui' = imgui
        BY <1>1 DEF LookUp, Goes, TypeOK
    <2>1. CASE UNCHANGED states
        BY <2>0, <2>1, RenderersAlone DEF Idle
    <2>2. CASE states' = Append(states, Fresh)
        <3>1. /\ Len(states') = Len(states) + 1 /\ Len(states) \in Nat
              /\ states'[Len(states) + 1] = Fresh
              /\ \A m \in 1..Len(states) : states'[m] = states[m]
            BY <2>2, OneStateAdded
        <3>2. ReadyHasGui'
            BY <3>1 DEF Fresh, RendererInv, ReadyHasGui
        <3>3. CurrentLives'
            BY <2>0, <3>1 DEF RendererInv, CurrentLives
        <3>4. DrawsReady'
            BY <1>0, <2>0, <3>1 DEF RendererInv, DrawsReady, SwapSteps
        <3>5. LetGo'
            BY <2>0 DEF RendererInv, LetGo, Idle
        <3> QED
            BY <3>2, <3>3, <3>4, <3>5 DEF RendererInv
    <2> QED
        BY <1>1, <2>1, <2>2 DEF LookUp
<1>2. CASE Skip(t) \/ Ready(t) \/ EndFrame(t) \/ LookUpThrows(t) \/ DrawThrows(t) \/ RealSwap(t)
           \/ LeaveSwap(t)
    <2>1. UNCHANGED <<states, imgui>>
        BY <1>2 DEF Skip, Ready, EndFrame, LookUpThrows, DrawThrows, RealSwap, LeaveSwap
    <2>2. \A u \in Threads : u # t => pc'[u] = pc[u] /\ st'[u] = st[u]
        BY <1>2 DEF Skip, Ready, EndFrame, LookUpThrows, DrawThrows, RealSwap, LeaveSwap,
                    Goes, Throws, TypeOK
    <2>3. pc'[t] \in Idle => st'[t] = 0
        BY <1>2 DEF Skip, Ready, EndFrame, LookUpThrows, DrawThrows, RealSwap, LeaveSwap,
                    Goes, Throws, TypeOK, Idle, RendererInv, LetGo
    <2>4. pc'[t] \in {"draw", "frame"} => states[st'[t]].ready
        BY <1>2 DEF Skip, Ready, EndFrame, LookUpThrows, DrawThrows, RealSwap, LeaveSwap,
                    Goes, Throws, TypeOK
    <2> QED
        BY <2>1, <2>2, <2>3, <2>4, RenderersAlone
<1>3. CASE InitRenderer(t)
    <2> DEFINE r == [states[st[t]] EXCEPT !.gui = TRUE, !.ready = TRUE, !.home = ctx[cur[t]]]
    <2>1. pc[t] = "init" /\ Holds(t) /\ cur[t] \in Handles
        BY <1>3 DEF InitRenderer, Initialises, Holds, SwapSteps, TypeOK, HookLocals
    <2>2. r \in State /\ r.ready /\ r.gui /\ ~r.skip
        BY <1>0, <1>3, <2>1 DEF InitRenderer, Initialises, State, SwapSteps, TypeOK
    <2>3. states' = [states EXCEPT ![st[t]] = r] /\ imgui' = st[t] /\ pc'[t] = "draw"
        BY <1>0, <1>3, <2>1 DEF InitRenderer, Goes, TypeOK, SwapSteps
    <2>4. \A u \in Threads : st'[u] = st[u] /\ (u # t => pc'[u] = pc[u])
        BY <1>3 DEF InitRenderer, Goes, TypeOK
    <2> HIDE DEF r
    <2> QED
        BY <2>1, <2>2, <2>3, <2>4, RendererWritten DEF Idle
<1>4. CASE InitFails(t)
    <2> DEFINE r == [states[st[t]] EXCEPT !.gui = FALSE, !.skip = TRUE]
    <2>1. pc[t] = "init" /\ Holds(t)
        BY <1>4 DEF InitFails, Initialises, Holds, SwapSteps
    <2>2. r \in State /\ ~r.ready
        BY <1>0, <1>4, <2>1 DEF InitFails, Initialises, State, SwapSteps
    <2>3. states' = [states EXCEPT ![st[t]] = r] /\ imgui' = 0 /\ pc'[t] = "swap"
        BY <1>0, <1>4, <2>1 DEF InitFails, Goes, TypeOK, SwapSteps
    <2>4. \A u \in Threads : st'[u] = st[u] /\ (u # t => pc'[u] = pc[u])
        BY <1>4 DEF InitFails, Goes, TypeOK
    <2> HIDE DEF r
    <2> QED
        BY <2>1, <2>2, <2>3, <2>4, RendererWritten DEF Idle
<1>5. CASE InitThrows(t)
    <2> DEFINE r == [states[st[t]] EXCEPT !.gui = TRUE]
    <2>1. pc[t] = "init" /\ Holds(t)
        BY <1>5 DEF InitThrows, Initialises, Holds, SwapSteps
    <2>2. r \in State /\ ~r.ready /\ r.gui
        BY <1>0, <1>5, <2>1 DEF InitThrows, Initialises, State, SwapSteps
    <2>3. states' = [states EXCEPT ![st[t]] = r] /\ imgui' = st[t] /\ pc'[t] = "thrown"
        BY <1>0, <1>5, <2>1 DEF InitThrows, Throws, Goes, TypeOK, SwapSteps
    <2>4. st'[t] = 0 /\ \A u \in Threads : u # t => pc'[u] = pc[u] /\ st'[u] = st[u]
        BY <1>5 DEF InitThrows, Throws, Goes, TypeOK
    <2> HIDE DEF r
    <2> QED
        BY <2>1, <2>2, <2>3, <2>4, RendererWritten
<1>6. CASE BeginFrame(t)
    <2>1. /\ pc[t] = "draw" /\ imgui' = st[t] /\ pc'[t] = "frame" /\ states' = states
          /\ \A u \in Threads : st'[u] = st[u] /\ (u # t => pc'[u] = pc[u])
        BY <1>6 DEF BeginFrame, Goes, TypeOK
    <2>2. st[t] \in 1..Len(states) /\ states[st[t]].ready
        BY <1>0, <2>1 DEF SwapSteps, RendererInv, DrawsReady
    <2>3. ReadyHasGui' /\ CurrentLives'
        BY <2>1, <2>2 DEF RendererInv, ReadyHasGui, CurrentLives
    <2>4. DrawsReady' /\ LetGo'
        BY <2>1, <2>2 DEF RendererInv, DrawsReady, LetGo, Idle
    <2> QED
        BY <2>3, <2>4 DEF RendererInv
<1> QED
    BY <1>1, <1>2, <1>3, <1>4, <1>5, <1>6 DEF SwapHook, Exception

LEMMA DestroyKeepsRenderers ==
    ASSUME GlInv, RendererInv, NEW t \in Threads, DestroyHook(t)
    PROVE  RendererInv'
<1> USE DEF GlInv
<1>1. CASE EraseEntry(t) \/ RealDestroy(t)
    <2>1. /\ UNCHANGED <<states, imgui>>
          /\ \A u \in Threads : u # t => pc'[u] = pc[u] /\ st'[u] = st[u]
        BY <1>1 DEF EraseEntry, RealDestroy, Goes, TypeOK
    <2>2. pc'[t] \in {"destroy", "teardown"} \/ (pc'[t] = "out" /\ st'[t] = 0)
        BY <1>1 DEF EraseEntry, RealDestroy, Goes, TypeOK
    <2> QED
        BY <2>1, <2>2, RenderersAlone DEF Idle
<1>2. CASE Teardown(t)
    <2>1. /\ pc[t] = "teardown" /\ Holds(t) /\ pc'[t] = "destroy"
          /\ \A u \in Threads : st'[u] = st[u] /\ (u # t => pc'[u] = pc[u])
        BY <1>2 DEF Teardown, Goes, TypeOK, Holds
    <2>2. CASE UNCHANGED <<states, imgui>>
        BY <2>1, <2>2, RenderersAlone DEF Idle
    <2>3. CASE cur[t] = arg[t] /\ Delete(t)
        <3> DEFINE r == [states[st[t]] EXCEPT !.deleted = TRUE, !.ready = FALSE, !.gui = FALSE]
        <3>1. st[t] \in 1..Len(states) /\ states[st[t]] \in State
            BY <2>1, <2>3, HolderIsAlone
        <3>2. r \in State /\ ~r.ready /\ states' = [states EXCEPT ![st[t]] = r]
            BY <2>3, <3>1 DEF State, Delete, TypeOK
        <3>3. /\ Len(states') = Len(states) /\ states'[st[t]] = r
              /\ \A m \in 1..Len(states) : m # st[t] => states'[m] = states[m]
            BY <3>1, <3>2, OneStateWritten
        <3>4. CurrentLives'
            BY <2>3, <3>1, <3>3 DEF RendererInv, CurrentLives, Delete
        <3>5. ReadyHasGui'
            BY <3>1, <3>2, <3>3 DEF RendererInv, ReadyHasGui
        <3>6. DrawsReady'
            <4> SUFFICES ASSUME NEW u \in Threads, pc'[u] \in {"draw", "frame"}
                         PROVE  states'[st'[u]].ready
                BY DEF DrawsReady
            <4>1. u # t /\ pc[u] \in SwapSteps /\ st'[u] = st[u] /\ states[st[u]].ready
                BY <2>1 DEF SwapSteps, RendererInv, DrawsReady
            <4>2. st[u] \in 1..Len(states) /\ st[u] # st[t]
                BY <2>1, <2>3, <4>1, HolderIsAlone DEF TypeOK, HookLocals
            <4> QED
                BY <3>3, <4>1, <4>2
        <3>7. LetGo'
            BY <2>1 DEF RendererInv, LetGo, Idle
        <3> QED
            BY <3>4, <3>5, <3>6, <3>7 DEF RendererInv
    <2> QED
        BY <1>2, <2>2, <2>3 DEF Teardown
<1> QED
    BY <1>1, <1>2 DEF DestroyHook

(* What the game does by itself. *)
LEMMA GameKeepsRenderers ==
    ASSUME GlInv, RendererInv, NEW t \in Threads, Game(t)
    PROVE  RendererInv'
<1> USE DEF GlInv
<1>1. UNCHANGED <<states, imgui, st>>
    BY DEF Game, Release, Swap, MakeCurrent, Destroy, DestroyBehind, hookVars
<1>2. \A u \in Threads : u # t => pc'[u] = pc[u]
    BY DEF Game, Release, Swap, MakeCurrent, Destroy, DestroyBehind, hookVars, Goes, TypeOK
<1>3. pc[t] = "out" /\ pc'[t] \in {"out", "lookup", "swap", "erase"}
    BY DEF Game, Release, Swap, MakeCurrent, Destroy, DestroyBehind, hookVars, Goes, TypeOK
<1>4. st'[t] = 0
    BY <1>1, <1>3 DEF RendererInv, LetGo, Idle
<1> QED
    BY <1>1, <1>2, <1>3, <1>4, RenderersAlone

LEMMA RendererInvNext == GlInv /\ RendererInv /\ [Next]_vars => RendererInv'
<1> SUFFICES ASSUME GlInv, RendererInv, [Next]_vars PROVE RendererInv'
    OBVIOUS
<1>1. CASE UNCHANGED vars \/ \E h \in Handles : CreateContext(h)
    <2>1. UNCHANGED <<states, imgui, pc, st>>
        BY <1>1 DEF vars, CreateContext, hookVars
    <2>2. ReadyHasGui' /\ CurrentLives'
        BY <2>1 DEF RendererInv, ReadyHasGui, CurrentLives
    <2>3. DrawsReady' /\ LetGo'
        BY <2>1 DEF RendererInv, DrawsReady, LetGo
    <2> QED
        BY <2>2, <2>3 DEF RendererInv
<1> QED
    BY <1>1, GameKeepsRenderers, SwapKeepsRenderers, DestroyKeepsRenderers DEF Next

LEMMA RendererInvariant == Spec => []RendererInv
    BY GlInvariant, RendererInvInit, RendererInvNext, PTL DEF Spec

(* A CtxState that destroy_ctx deleted is in no thread's hands and in no   *)
(* entry: it is only deleted by the thread that has its context current,   *)
(* and every other thread that found it would have the same one current.   *)
(* Nor does ImGui keep a destroyed context for its current one, whichever  *)
(* thread set it.                                                          *)
THEOREM NoThreadUsesFreed == Spec => []NoUseAfterFree
<1>1. GlInv /\ RendererInv => NoUseAfterFree
    BY DEF GlInv, NoFreedState, SwapSteps, RendererInv, CurrentLives, NoUseAfterFree
<1> QED
    BY <1>1, GlInvariant, RendererInvariant, PTL

LEMMA StepPresents ==
    ASSUME GlInv, RendererInv, [Next]_vars, NEW t \in Threads
    PROVE  /\ InSwapHook(t) /\ pc'[t] = "out" => pc[t] \in {"shown", "unresolved", "thrown"}
           /\ pc[t] # "thrown" /\ pc'[t] = "thrown" /\ st[t] # 0 => ~states[st[t]].skip
<1> USE DEF GlInv
<1>1. CASE pc'[t] = pc[t]
    BY <1>1 DEF InSwapHook
<1>2. CASE Game(t) \/ DestroyHook(t)
    <2>1. ~InSwapHook(t)
        BY <1>2 DEF Game, Release, Swap, MakeCurrent, Destroy, DestroyBehind, DestroyHook,
                    EraseEntry, Teardown, RealDestroy, InSwapHook
    <2>2. pc'[t] # "thrown"
        BY <1>2 DEF Game, Release, Swap, MakeCurrent, Destroy, DestroyBehind, DestroyHook,
                    EraseEntry, Teardown, RealDestroy, hookVars, Goes, TypeOK
    <2> QED
        BY <2>1, <2>2
<1>3. CASE SwapHook(t)
    <2>1. pc'[t] = "out" => LeaveSwap(t)
        BY <1>3 DEF SwapHook, LookUp, Skip, Ready, InitRenderer, InitFails, BeginFrame,
                    EndFrame, RealSwap, Goes, TypeOK
    <2>2. pc'[t] # "thrown"
        BY <1>3 DEF SwapHook, LookUp, Skip, Ready, InitRenderer, InitFails, BeginFrame,
                    EndFrame, RealSwap, LeaveSwap, Goes, TypeOK
    <2> QED
        BY <2>1, <2>2 DEF LeaveSwap
<1>4. CASE Exception(t)
    <2>1. pc'[t] = "thrown"
        BY <1>4 DEF Exception, LookUpThrows, InitThrows, DrawThrows, Throws, Goes, TypeOK
    <2>2. CASE LookUpThrows(t)
        BY <2>1, <2>2 DEF LookUpThrows, RendererInv, LetGo, Idle
    <2>3. CASE InitThrows(t)
        BY <2>1, <2>3 DEF InitThrows, Initialises
    <2>4. CASE DrawThrows(t)
        <3>1. st[t] \in 1..Len(states) /\ states[st[t]].ready
            BY <2>4 DEF DrawThrows, TypeOK, HookLocals, SwapSteps, RendererInv, DrawsReady
        <3> QED
            BY <2>1, <3>1 DEF RendererInv, ReadyHasGui
    <2> QED
        BY <1>4, <2>2, <2>3, <2>4 DEF Exception
<1>5. ASSUME NEW u \in Threads, u # t,
             Game(u) \/ SwapHook(u) \/ Exception(u) \/ DestroyHook(u)
      PROVE  pc'[t] = pc[t]
    <2>1. CASE Game(u) \/ DestroyHook(u)
        BY <1>5, <2>1 DEF Game, Release, Swap, MakeCurrent, Destroy, DestroyBehind,
                          DestroyHook, EraseEntry, Teardown, RealDestroy, hookVars, Goes,
                          TypeOK
    <2>2. CASE SwapHook(u) \/ Exception(u)
        BY <1>5, <2>2 DEF SwapHook, LookUp, Skip, Ready, InitRenderer, InitFails, BeginFrame,
                          EndFrame, RealSwap, LeaveSwap, Exception, LookUpThrows, InitThrows,
                          DrawThrows, Throws, Goes, TypeOK
    <2> QED
        BY <1>5, <2>1, <2>2
<1>6. (\E h \in Handles : CreateContext(h)) \/ UNCHANGED vars => pc'[t] = pc[t]
    BY DEF CreateContext, hookVars, vars
<1> QED
    BY <1>1, <1>2, <1>3, <1>4, <1>5, <1>6 DEF Next

(* The game gets its own swap, unless the real symbol does not resolve or  *)
(* the overlay's code throws; and a renderer whose initialisation failed   *)
(* is never drawn with or tried again, so it throws for no later frame.    *)
THEOREM SwapIsPassedOn == Spec => FrameIsPresented
<1> DEFINE Presents ==
        \A t \in Threads :
          /\ InSwapHook(t) /\ pc'[t] = "out" => pc[t] \in {"shown", "unresolved", "thrown"}
          /\ pc[t] # "thrown" /\ pc'[t] = "thrown" /\ st[t] # 0 => ~states[st[t]].skip
<1>1. GlInv /\ RendererInv /\ [Next]_vars => [Presents]_vars
    BY StepPresents
<1>2. FrameIsPresented <=> [][Presents]_vars
    BY DEF FrameIsPresented
<1> HIDE DEF Presents
<1> QED
    BY <1>1, <1>2, GlInvariant, RendererInvariant, PTL DEF Spec
=============================================================================
