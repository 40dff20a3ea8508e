------------------------------ MODULE OverlayUi ------------------------------
(***************************************************************************)
(* What a game's overlay draws of the snapshot it has (src/overlay/        *)
(* overlay_ui.cpp): whether anything is drawn at all, which participants   *)
(* have a row and how bright it is, and how the toasts are stacked.  The   *)
(* brightness carries over from frame to frame in g_anim.                  *)
(*                                                                         *)
(* A frame draws the snapshot the host has published: that a game may be   *)
(* behind is StateLink's subject, and frames see no more of the host than  *)
(* the snapshots they draw.  Geometry is abstracted to how many toasts     *)
(* fit, brightness to Levels steps; text layout and colours are left out.  *)
(***************************************************************************)
EXTENDS OverlayState

CONSTANTS
    Duration,   \* toast_duration_ms
    Fits,       \* how many toasts fit between the anchor and the far edge
    AllMembers, \* the settings with show_all_members
    Levels      \* brightness of a speaker; 0 is kIdleAlpha

ASSUME UiAssumption == AllMembers \subseteq Configs /\ Levels \in Nat \ {0}

VARIABLES
    anim,       \* g_anim: user id -> brightness
    drawn       \* the users whose rows the last frame drew

uiVars == <<shown, participants, index, notifications, config, published, arrived, now,
            anim, drawn>>

-----------------------------------------------------------------------------
(* draw_overlay: nothing unless in a voice channel. *)
Visible(snap) == snap.channel # NoChannel

(* draw_voice_panel: everybody, or the speakers. *)
Rows(snap) ==
    {p \in ToSet(snap.participants) : snap.config \in AllMembers \/ p.speaking}

Target(p) == IF p.speaking THEN Levels ELSE 0

(* fade_toward: some part of the way, all of it, or none: dt is 0 when the *)
(* clock was set back, and the distance shrinks exponentially.             *)
FadeToward(a, target) == IF a <= target THEN a..target ELSE target..a

(* Brightness of a row: its target at first sight, eased from then on. *)
Eased(p) ==
    IF p.user \notin DOMAIN anim THEN {Target(p)}
                                 ELSE FadeToward(anim[p.user], Target(p))

(* draw_toasts: the vector is walked from its end; a toast is live for      *)
(* Duration after its stamp, and not before it (the clock was set back).    *)
LiveToasts(snap, t) ==
    SelectSeq(Reverse(snap.notifications),
              LAMBDA n : Visible(snap) /\ t >= n.created /\ t - n.created < Duration)

(* Stacked from the anchor inward; what runs off the screen is not seen.    *)
ToastStack(snap, t) ==
    LET live == LiveToasts(snap, t)
    IN  SubSeq(live, 1, Min({Len(live), Fits}))

(* Fault: who has left keeps an entry. *)
DrawPanel_Unpruned ==
    LET rows  == Rows(published)
        users == {p.user : p \in rows}
    IN  /\ Visible(published) /\ rows # {}
        /\ \E a \in [users \cup DOMAIN anim -> 0..Levels] :
              /\ \A p \in rows : a[p.user] \in Eased(p)
              /\ \A u \in DOMAIN anim \ users : a[u] = anim[u]
              /\ anim' = a
        /\ drawn' = users
        /\ UNCHANGED vars

(* draw_voice_panel: the rows are eased, then the others pruned. *)
DrawPanel ==
    LET rows == Rows(published)
    IN  /\ Visible(published) /\ rows # {}
        /\ \E a \in [{p.user : p \in rows} -> 0..Levels] :
              /\ \A p \in rows : a[p.user] \in Eased(p)
              /\ anim' = a
        /\ drawn' = {p.user : p \in rows}
        /\ UNCHANGED vars

(* A frame without a row returns before it prunes. *)
DrawNoPanel ==
    /\ ~Visible(published) \/ Rows(published) = {}
    /\ drawn' = {}
    /\ anim' = anim /\ UNCHANGED vars

UiInit == Init /\ anim = Empty /\ drawn = {}

UiNext ==
    \/ Next /\ UNCHANGED <<anim, drawn>>
    \/ DrawPanel
    \/ DrawNoPanel

UiSpec == UiInit /\ [][UiNext]_uiVars

(* Users are told apart by equality alone, and no liveness is checked. *)
UserSymmetry == Permutations(Users)

-----------------------------------------------------------------------------
(* "first sight: no fade-in on appear": a row that was not there in the     *)
(* frame before appears at its own brightness, not at one left over from    *)
(* when its user was last shown, whatever joined, left, spoke or was        *)
(* configured in between (overlay_ui.cpp:372-383).  A frame before it that  *)
(* showed nobody is left out: it prunes nothing, and a row can then start   *)
(* from an old brightness (overlay_ui.cpp:356).                             *)
FirstSightAtTarget ==
    [][\A p \in Rows(published) :
          (drawn # {} /\ drawn' # {} /\ p.user \in drawn' \ drawn)
              => anim'[p.user] = Target(p)]_uiVars

(* "Live toasts, newest first (so the newest sits at the anchor)"           *)
(* (draw_toasts): the toast at the anchor is the newest of the live ones.   *)
NewestAtAnchor ==
    LET stack == ToastStack(published, now)
        live  == LiveToasts(published, now)
    IN  \A n \in DOMAIN live : stack[1].id >= live[n].id
=============================================================================
