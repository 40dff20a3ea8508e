-------------------------- MODULE Backends_proofs --------------------------
(***************************************************************************)
(* Proofs about Backends for any set of AppImage versions: type            *)
(* correctness, that no reader meets half a file, that a host which counts *)
(* its libraries as up to date has both at its own version, and that only  *)
(* a user who agreed has files written outside the AppImage.               *)
(***************************************************************************)
EXTENDS Backends, TLAPS

-----------------------------------------------------------------------------
(* The inductive invariant *)

(* The tasks the host ever has before it: at most two, and never the same  *)
(* one twice.                                                               *)
TaskLists ==
    {<<>>, <<"save">>, <<"install">>, <<"save", "install">>, <<"install", "save">>}

(* TypeOK, with the task lists of main and of the settings window. *)
Typed == TypeOK /\ todo \in TaskLists

(* A grant, wherever it is kept, is the user's last word: in the file, in  *)
(* the host's memory, and as an installation under way.  A dialog is only  *)
(* on screen while the file holds no grant that a "no" would leave behind. *)
GrantIsTheUsers ==
    /\ config = "granted" => agreed
    /\ consent = "granted" => agreed
    /\ todo \in {<<"install">>, <<"save", "install">>, <<"install", "save">>} => agreed
    /\ pc = "ask" => config # "granted"

BackendsInv == Typed /\ FilesAreWhole /\ NeverStale /\ GrantIsTheUsers

-----------------------------------------------------------------------------
(* Lemmas *)

(* What is left of a task list after its first task, and what that task is *)
(* (the sequence of calls in sync_appimage_backends and in the window).    *)
LEMMA TaskTails ==
    ASSUME NEW ts \in TaskLists, ts # <<>>
    PROVE  /\ Tail(ts) \in TaskLists
           /\ ts = <<"save">> => Head(ts) = "save" /\ Tail(ts) = <<>>
           /\ ts = <<"install">> => Head(ts) = "install" /\ Tail(ts) = <<>>
           /\ ts = <<"save", "install">> => Head(ts) = "save" /\ Tail(ts) = <<"install">>
           /\ ts = <<"install", "save">> => Head(ts) = "install" /\ Tail(ts) = <<"save">>
<1>1. CASE ts = <<"save">>
    BY <1>1 DEF TaskLists
<1>2. CASE ts = <<"install">>
    BY <1>2 DEF TaskLists
<1>3. CASE ts = <<"save", "install">>
    BY <1>3 DEF TaskLists
<1>4. CASE ts = <<"install", "save">>
    BY <1>4 DEF TaskLists
<1> QED
    BY <1>1, <1>2, <1>3, <1>4 DEF TaskLists

(* A task list is a sequence of tasks. *)
LEMMA TaskListsAreLists == TaskLists \subseteq Seq({"save", "install"})
    BY DEF TaskLists

(* GoOn leads to the event loop exactly when no task is left. *)
LEMMA GoOnType ==
    ASSUME NEW ts \in TaskLists, GoOn(ts)
    PROVE  /\ todo' = ts /\ todo' \in TaskLists
           /\ pc' \in {"do", "running"}
           /\ pc' = "do" => todo' # <<>>
    BY DEF GoOn

(* The orders in which install_backends writes and uninstall_backends      *)
(* removes: each over all the files.                                       *)
LEMMA Orders ==
    /\ Len(InstallOrder) = 4 /\ Len(RemoveOrder) = 4
    /\ DOMAIN InstallOrder = 1..4 /\ DOMAIN RemoveOrder = 1..4
    /\ \A n \in 1..4 : InstallOrder[n] \in Files /\ RemoveOrder[n] \in Files
    /\ InstallOrder[4] = "manifest"
    BY DEF InstallOrder, RemoveOrder, Files, Libs

-----------------------------------------------------------------------------
(* Type correctness *)

LEMMA TypedInit == Init => Typed
<1> SUFFICES ASSUME Init PROVE Typed
    OBVIOUS
<1>1. todo \in TaskLists
    BY DEF Init, TaskLists
<1>2. todo \in Seq({"save", "install"})
    BY <1>1, TaskListsAreLists
<1>3. pc = "off" /\ file \in [Files -> Versions \cup {"absent", "torn", "text"}]
    BY DEF Init
<1>4. agreed \in BOOLEAN /\ synced \in BOOLEAN
    BY DEF Init
<1>5. at = 1 /\ uat = 1 /\ config = "absent" /\ payload \in Versions /\ consent = "unasked" /\ upc = "off"
    BY DEF Init
<1> QED
    BY <1>1, <1>2, <1>3, <1>4, <1>5, Orders DEF Typed, TypeOK, Consents

LEMMA TypedNext == Typed /\ [Next]_vars => Typed'
<1> SUFFICES ASSUME Typed, [Next]_vars PROVE Typed'
    OBVIOUS
<1> USE Orders DEF Typed
<1>0. \A ts \in TaskLists : ts \in Seq({"save", "install"})
    BY TaskListsAreLists
<1>t. todo # <<>> => Tail(todo) \in TaskLists
    BY TaskTails
<1>1. ASSUME NEW v \in Versions, Launch(v) PROVE Typed'
    <2>1. <<>> \in TaskLists /\ <<"install">> \in TaskLists
        BY DEF TaskLists
    <2>2. LoadConsent \in Consents
        BY DEF LoadConsent, Consents
    <2>3. todo' \in TaskLists /\ pc' \in {"ask", "do", "running"} /\ (pc' = "do" => todo' # <<>>)
        BY <1>1, <2>1, GoOnType DEF Launch
    <2> QED
        BY <1>1, <1>0, <2>2, <2>3 DEF Launch, TypeOK, uninstallVars, UpToDate
<1>2. ASSUME NEW b \in BOOLEAN, Answer(b) PROVE Typed'
    <2>1. <<"save", "install">> \in TaskLists /\ <<"save">> \in TaskLists
        BY DEF TaskLists
    <2>2. todo' \in TaskLists /\ pc' \in {"do", "running"} /\ (pc' = "do" => todo' # <<>>)
        BY <1>2, <2>1, GoOnType DEF Answer
    <2> QED
        BY <1>2, <1>0, <2>2 DEF Answer, TypeOK, uninstallVars, Consents
<1>3. ASSUME NEW b \in BOOLEAN, Remove(b) PROVE Typed'
    BY <1>3 DEF Remove, TypeOK, hostVars
<1>4. CASE ClickInstall
    <2>1. <<"install", "save">> \in TaskLists
        BY DEF TaskLists
    <2>2. todo' \in TaskLists /\ pc' \in {"do", "running"} /\ (pc' = "do" => todo' # <<>>)
        BY <1>4, <2>1, GoOnType DEF ClickInstall
    <2> QED
        BY <1>4, <1>0, <2>2 DEF ClickInstall, TypeOK, uninstallVars, Consents
<1>5. CASE ClickSave
    <2>1. <<"save">> \in TaskLists
        BY DEF TaskLists
    <2>2. todo' \in TaskLists /\ pc' \in {"do", "running"} /\ (pc' = "do" => todo' # <<>>)
        BY <1>5, <2>1, GoOnType DEF ClickSave
    <2> QED
        BY <1>5, <1>0, <2>2 DEF ClickSave, TypeOK, uninstallVars
<1>6. CASE SaveOpens
    <2>1. CASE GoOn(Tail(todo)) /\ UNCHANGED config
        <3>1. todo' \in TaskLists /\ pc' \in {"do", "running"} /\ (pc' = "do" => todo' # <<>>)
            BY <1>6, <1>t, <2>1, GoOnType DEF SaveOpens, TypeOK
        <3> QED
            BY <1>6, <1>0, <2>1, <3>1 DEF SaveOpens, TypeOK, uninstallVars
    <2>2. CASE config' = "torn" /\ pc' = "writing" /\ UNCHANGED todo
        BY <1>6, <2>2 DEF SaveOpens, TypeOK, uninstallVars
    <2> QED
        BY <1>6, <2>1, <2>2 DEF SaveOpens
<1>7. CASE SaveWrites
    <2>1. todo' \in TaskLists /\ pc' \in {"do", "running"} /\ (pc' = "do" => todo' # <<>>)
        BY <1>7, <1>t, GoOnType DEF SaveWrites, TypeOK
    <2> QED
        BY <1>7, <1>0, <2>1 DEF SaveWrites, TypeOK, uninstallVars
<1>8. CASE WriteTemp
    BY <1>8 DEF WriteTemp, TypeOK, uninstallVars
<1>9. CASE Rename
    <2>1. file' \in [Files -> Versions \cup {"absent", "torn", "text"}]
        BY <1>9 DEF Rename, TypeOK, Content
    <2>2. CASE at < Len(InstallOrder)
        BY <1>9, <2>1, <2>2 DEF Rename, TypeOK, uninstallVars
    <2>3. CASE ~(at < Len(InstallOrder))
        <3>1. todo' \in TaskLists /\ pc' \in {"do", "running"} /\ (pc' = "do" => todo' # <<>>)
            BY <1>9, <1>t, <2>3, GoOnType DEF Rename, TypeOK
        <3> QED
            BY <1>9, <1>0, <2>1, <2>3, <3>1 DEF Rename, TypeOK, uninstallVars, UpToDate
    <2> QED
        BY <2>2, <2>3
<1>10. CASE InstallFails
    <2>1. todo' \in TaskLists /\ pc' \in {"do", "running"} /\ (pc' = "do" => todo' # <<>>)
        BY <1>10, <1>t, GoOnType DEF InstallFails, TypeOK
    <2> QED
        BY <1>10, <1>0, <2>1 DEF InstallFails, TypeOK, uninstallVars
<1>11. CASE HostEnds
    <2>1. <<>> \in TaskLists
        BY DEF TaskLists
    <2> QED
        <3>1. todo' \in TaskLists /\ todo' \in Seq({"save", "install"}) /\ pc' = "off" /\ at' = 1
            BY <1>11, <1>0, <2>1 DEF HostEnds
        <3>2. synced' \in BOOLEAN
            BY <1>11 DEF HostEnds
        <3>3. UNCHANGED <<file, config, payload, consent, uat, upc, agreed>>
            BY <1>11 DEF HostEnds, uninstallVars
        <3> QED
            BY <3>1, <3>2, <3>3 DEF TypeOK
<1>12. CASE Uninstall
    BY <1>12 DEF Uninstall, TypeOK, hostVars
<1>13. CASE Forget
    BY <1>13 DEF Forget, TypeOK, hostVars
<1>14. CASE ForgetWrites
    BY <1>14 DEF ForgetWrites, TypeOK, hostVars, Consents
<1>15. CASE UninstallerDies
    BY <1>15 DEF UninstallerDies, TypeOK, hostVars
<1>16. CASE UNCHANGED vars
    BY <1>16 DEF vars, TypeOK
<1> QED
    BY <1>1, <1>2, <1>3, <1>4, <1>5, <1>6, <1>7, <1>8, <1>9, <1>10, <1>11, <1>12,
       <1>13, <1>14, <1>15, <1>16 DEF Next

(* Every variable keeps its type, whatever dies or fails on the way. *)
THEOREM TypeCorrect == Spec => []TypeOK
<1>1. Init => Typed
    BY TypedInit
<1>2. Typed /\ [Next]_vars => Typed'
    BY TypedNext
<1>3. Typed => TypeOK
    BY DEF Typed
<1> QED
    BY <1>1, <1>2, <1>3, PTL DEF Spec

-----------------------------------------------------------------------------
(* Safety *)

LEMMA BackendsInvInit == Init => BackendsInv
    BY TypedInit DEF Init, BackendsInv, FilesAreWhole, NeverStale, GrantIsTheUsers

(* A payload is a version, so nothing an installer writes is torn. *)
LEMMA WholePayload ==
    ASSUME TypeOK, NEW f \in Files
    PROVE  Content(f, payload) \notin {"torn", "absent"}
    BY BackendsAssumption DEF TypeOK, Content

LEMMA BackendsInvNext == BackendsInv /\ [Next]_vars => BackendsInv'
<1> SUFFICES ASSUME BackendsInv, [Next]_vars
             PROVE  (FilesAreWhole /\ NeverStale /\ GrantIsTheUsers)'
    BY TypedNext DEF BackendsInv
<1> USE DEF BackendsInv
<1>0. TypeOK
    BY DEF Typed
<1>t. /\ todo # <<>> => \/ Head(todo) = "save" /\ Tail(todo) \in {<<>>, <<"install">>}
                        \/ Head(todo) = "install" /\ Tail(todo) \in {<<>>, <<"save">>}
      /\ pc \in {"do", "writing"} /\ Head(todo) = "install" => agreed
      /\ pc \in {"do", "writing"} /\ Tail(todo) = <<"install">> => agreed
    <2> SUFFICES ASSUME todo # <<>> PROVE <1>t!1 /\ <1>t!2 /\ <1>t!3
        BY <1>0 DEF TypeOK
    <2>0. todo \in TaskLists
        BY DEF Typed
    <2>1. CASE todo = <<"save">>
        BY <2>0, <2>1, TaskTails DEF GrantIsTheUsers
    <2>2. CASE todo = <<"install">>
        BY <2>0, <2>2, TaskTails DEF GrantIsTheUsers
    <2>3. CASE todo = <<"save", "install">>
        BY <2>0, <2>3, TaskTails DEF GrantIsTheUsers
    <2>4. CASE todo = <<"install", "save">>
        BY <2>0, <2>4, TaskTails DEF GrantIsTheUsers
    <2> QED
        BY <2>0, <2>1, <2>2, <2>3, <2>4 DEF TaskLists
<1>1. ASSUME NEW v \in Versions, Launch(v) PROVE (FilesAreWhole /\ NeverStale /\ GrantIsTheUsers)'
    <2>1. (FilesAreWhole /\ NeverStale)'
        BY <1>1 DEF Launch, FilesAreWhole, NeverStale, UpToDate
    <2>2. GrantIsTheUsers'
        BY <1>1 DEF Launch, GrantIsTheUsers, LoadConsent, GoOn, Consents
    <2> QED
        BY <2>1, <2>2
<1>2. ASSUME NEW b \in BOOLEAN, Answer(b) PROVE (FilesAreWhole /\ NeverStale /\ GrantIsTheUsers)'
    <2>1. (FilesAreWhole /\ NeverStale)'
        BY <1>2 DEF Answer, FilesAreWhole, NeverStale
    <2>2. GrantIsTheUsers'
        BY <1>2 DEF Answer, GrantIsTheUsers, GoOn
    <2> QED
        BY <2>1, <2>2
<1>3. ASSUME NEW b \in BOOLEAN, Remove(b) PROVE (FilesAreWhole /\ NeverStale /\ GrantIsTheUsers)'
    BY <1>3, <1>0, Orders
       DEF Remove, FilesAreWhole, NeverStale, GrantIsTheUsers, hostVars, TypeOK
<1>4. CASE ClickInstall
    BY <1>4 DEF ClickInstall, FilesAreWhole, NeverStale, GrantIsTheUsers, GoOn
<1>5. CASE ClickSave
    BY <1>5 DEF ClickSave, FilesAreWhole, NeverStale, GrantIsTheUsers, GoOn
<1>6. CASE SaveOpens
    BY <1>6, <1>0, <1>t
       DEF SaveOpens, FilesAreWhole, NeverStale, GrantIsTheUsers, GoOn, TypeOK
<1>7. CASE SaveWrites
    BY <1>7, <1>0, <1>t
       DEF SaveWrites, FilesAreWhole, NeverStale, GrantIsTheUsers, GoOn, TypeOK
<1>8. CASE WriteTemp
    BY <1>8 DEF WriteTemp, FilesAreWhole, NeverStale, GrantIsTheUsers
<1>9. CASE Rename
    <2>1. FilesAreWhole'
        BY <1>9, <1>0, Orders, WholePayload DEF Rename, FilesAreWhole, TypeOK
    <2>2. NeverStale'
        <3>1. CASE at < Len(InstallOrder)
            BY <1>9, <1>0, <3>1, Orders
               DEF Rename, NeverStale, TypeOK, Content, Libs, Files
        <3>2. CASE ~(at < Len(InstallOrder))
            BY <1>9, <1>0, <3>2, Orders
               DEF Rename, NeverStale, TypeOK, UpToDate, Libs, Files
        <3> QED
            BY <3>1, <3>2
    <2>3. GrantIsTheUsers'
        BY <1>9, <1>0, <1>t DEF Rename, GrantIsTheUsers, GoOn, TypeOK
    <2> QED
        BY <2>1, <2>2, <2>3
<1>10. CASE InstallFails
    BY <1>10, <1>0, <1>t
       DEF InstallFails, FilesAreWhole, NeverStale, GrantIsTheUsers, GoOn, TypeOK
<1>11. CASE HostEnds
    BY <1>11 DEF HostEnds, FilesAreWhole, NeverStale, GrantIsTheUsers
<1>12. CASE Uninstall
    BY <1>12 DEF Uninstall, FilesAreWhole, NeverStale, GrantIsTheUsers, hostVars
<1>13. CASE Forget
    BY <1>13 DEF Forget, FilesAreWhole, NeverStale, GrantIsTheUsers, hostVars
<1>14. CASE ForgetWrites
    BY <1>14 DEF ForgetWrites, FilesAreWhole, NeverStale, GrantIsTheUsers, hostVars
<1>15. CASE UninstallerDies
    BY <1>15 DEF UninstallerDies, FilesAreWhole, NeverStale, GrantIsTheUsers, hostVars
<1>16. CASE UNCHANGED vars
    BY <1>16 DEF vars, FilesAreWhole, NeverStale, GrantIsTheUsers
<1> QED
    BY <1>0, <1>1, <1>2, <1>3, <1>4, <1>5, <1>6, <1>7, <1>8, <1>9, <1>10, <1>11, <1>12,
       <1>13, <1>14, <1>15, <1>16 DEF Next

LEMMA BackendsInvariant == Spec => []BackendsInv
    BY BackendsInvInit, BackendsInvNext, PTL DEF Spec

(* A file at an install path is whole or absent at every moment, since     *)
(* write_atomic renames a finished temporary over it: for every set of     *)
(* versions and however often host and uninstaller die.                    *)
THEOREM NoTornFile == Spec => []FilesAreWhole
<1>1. BackendsInv => FilesAreWhole
    BY DEF BackendsInv
<1> QED
    BY <1>1, BackendsInvariant, PTL

(* A host that found its libraries up to date, or installed them, has both *)
(* at its own version for as long as nothing is removed.                   *)
THEOREM NoStaleLibrary == Spec => []NeverStale
<1>1. BackendsInv => NeverStale
    BY DEF BackendsInv
<1> QED
    BY <1>1, BackendsInvariant, PTL

(* Every step that puts something at an install path is taken after the    *)
(* user's last answer was yes: only Rename writes there, and the           *)
(* installation it belongs to goes back to a grant that GrantIsTheUsers    *)
(* traces to the user through every crash and torn configuration.          *)
THEOREM InstallsAreAgreed == Spec => InstallsOnlyAgreed
<1> DEFINE Writes == \E f \in Files : file'[f] \notin {file[f], "absent"}
<1>1. BackendsInv /\ [Next]_vars => [Writes => agreed]_vars
    <2> SUFFICES ASSUME BackendsInv, Next, Writes PROVE agreed
        OBVIOUS
    <2>1. TypeOK
        BY DEF BackendsInv, Typed
    <2>2. file' # file
        OBVIOUS
    <2>3. ASSUME NEW b \in BOOLEAN PROVE ~Remove(b)
        BY <2>1, Orders DEF Remove, TypeOK
    <2>4. Rename
        BY <2>2, <2>3
           DEF Next, Launch, Answer, ClickInstall, ClickSave, SaveOpens, SaveWrites,
           WriteTemp, InstallFails, HostEnds, Uninstall, Forget, ForgetWrites, UninstallerDies
    <2> QED
        BY <2>1, <2>4, TaskTails
           DEF Rename, BackendsInv, Typed, TypeOK, TaskLists, GrantIsTheUsers
<1> QED
    BY <1>1, BackendsInvariant, PTL DEF Spec, InstallsOnlyAgreed
=============================================================================
