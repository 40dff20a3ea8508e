------------------------------ MODULE Backends ------------------------------
(***************************************************************************)
(* How an AppImage's overlay libraries get into ~/.local and out again:    *)
(* install_backends and uninstall_backends (src/host/config/backends.cpp), *)
(* the launch-time sync and --uninstall of src/host/main.cpp, the settings *)
(* window's buttons, and the consent kept in the configuration file.       *)
(*                                                                         *)
(* One host process and one --uninstall process work on the same files;    *)
(* either may die between any two system calls, and every call may fail.   *)
(***************************************************************************)
EXTENDS Naturals, Sequences

CONSTANT Versions    \* AppImage versions: the payloads that can be installed

Libs  == {"layer", "gl"}
Files == Libs \cup {"wrapper", "manifest"}

ASSUME BackendsAssumption == Versions \cap {"absent", "torn", "text"} = {}

VARIABLES
    file,      \* what is at each install path: absent, torn, or its content
    config,    \* config.json: absent, torn (truncated by save), or a consent
    pc,        \* the host: off, ask (the dialog), do (a task of todo),
               \* writing (inside a file write of that task), running
    todo,      \* what it still has to do before it runs: save, install
    at,        \* how far install_backends is
    payload,   \* the version of the AppImage it was launched from
    consent,   \* Config::backend_consent in memory
    upc,       \* the uninstaller: off, remove, forget, saving
    uat,       \* how far it is
    agreed,    \* the user's last answer, or click, was to install
    synced     \* the host found or made the libraries up to date, and
               \* nothing was removed since

hostVars      == <<pc, todo, at, payload, consent>>
uninstallVars == <<upc, uat>>
vars == <<file, config, pc, todo, at, payload, consent, upc, uat, agreed, synced>>

Consents == {"unasked", "granted", "declined"}

InstallOrder == <<"layer", "gl", "wrapper", "manifest">>
RemoveOrder  == <<"manifest", "wrapper", "layer", "gl">>

(* The manifest and choir-run name paths: the same text for every version. *)
Content(f, v) == IF f \in Libs THEN v ELSE "text"

Init ==
    /\ file = [f \in Files |-> "absent"]
    /\ config = "absent"
    /\ pc = "off" /\ todo = <<>> /\ at = 1
    /\ payload \in Versions
    /\ consent = "unasked"
    /\ upc = "off" /\ uat = 1
    /\ agreed = FALSE /\ synced = FALSE

-----------------------------------------------------------------------------
(* Fault: a configuration that cannot be parsed counts as consent. *)
LoadConsent_Lenient == IF config \in Consents THEN config ELSE "granted"

(* Config::load: an absent or unparsable file gives the defaults. *)
LoadConsent == IF config \in Consents THEN config ELSE "unasked"

(* Fault: only the Vulkan layer is compared. *)
UpToDate_LayerOnly(v) == file["layer"] = v

(* backends_up_to_date: both libraries are there and identical. *)
UpToDate(v) == \A f \in Libs : file[f] = v

(* The first task of ts, or the event loop. *)
GoOn(ts) == todo' = ts /\ pc' = IF ts = <<>> THEN "running" ELSE "do"

(* main, up to the dialog or the first write of sync_appimage_backends. *)
Launch(v) ==
    /\ pc = "off"
    /\ payload' = v
    /\ consent' = LoadConsent
    /\ at' = 1
    /\ synced' = UpToDate(v)
    /\ \/ (UpToDate(v) \/ LoadConsent = "declined") /\ GoOn(<<>>)
       \/ ~UpToDate(v) /\ LoadConsent = "granted" /\ GoOn(<<"install">>)
       \/ ~UpToDate(v) /\ LoadConsent = "unasked" /\ pc' = "ask" /\ todo' = <<>>
    /\ UNCHANGED <<file, config, uninstallVars, agreed>>

(* The dialog's answer is saved, then acted on. *)
Answer(yes) ==
    /\ pc = "ask"
    /\ consent' = IF yes THEN "granted" ELSE "declined"
    /\ agreed' = yes
    /\ GoOn(IF yes THEN <<"save", "install">> ELSE <<"save">>)
    /\ UNCHANGED <<file, config, at, payload, uninstallVars, synced>>

(* on_install_backends_clicked, on_save_clicked. *)
ClickInstall ==
    /\ pc = "running"
    /\ consent' = "granted" /\ agreed' = TRUE
    /\ at' = 1
    /\ GoOn(<<"install", "save">>)
    /\ UNCHANGED <<file, config, payload, uninstallVars, synced>>

ClickSave ==
    /\ pc = "running"
    /\ GoOn(<<"save">>)
    /\ UNCHANGED <<file, config, at, payload, consent, uninstallVars, agreed, synced>>

(* Config::save truncates the file in place ... *)
SaveOpens ==
    /\ pc = "do" /\ Head(todo) = "save"
    /\ \/ config' = "torn" /\ pc' = "writing" /\ UNCHANGED todo
       \/ GoOn(Tail(todo)) /\ UNCHANGED config
    /\ UNCHANGED <<file, at, payload, consent, uninstallVars, agreed, synced>>

(* ... and writes it; an error is not acted on. *)
SaveWrites ==
    /\ pc = "writing" /\ Head(todo) = "save"
    /\ config' \in {consent, "torn"}
    /\ GoOn(Tail(todo))
    /\ UNCHANGED <<file, at, payload, consent, uninstallVars, agreed, synced>>

(* Fault: the file is truncated and written in place. *)
WriteTemp_InPlace ==
    /\ pc = "do" /\ Head(todo) = "install"
    /\ file' = [file EXCEPT ![InstallOrder[at]] = "torn"]
    /\ pc' = "writing"
    /\ UNCHANGED <<config, todo, at, payload, consent, uninstallVars, agreed, synced>>

(* write_atomic writes a sibling temporary file, which nobody reads and the *)
(* next attempt truncates ...                                               *)
WriteTemp ==
    /\ pc = "do" /\ Head(todo) = "install"
    /\ pc' = "writing"
    /\ UNCHANGED <<file, config, todo, at, payload, consent, uninstallVars, agreed, synced>>

(* ... and renames it over the target. *)
Rename ==
    /\ pc = "writing" /\ Head(todo) = "install"
    /\ file' = [file EXCEPT ![InstallOrder[at]] = Content(InstallOrder[at], payload)]
    /\ IF at < Len(InstallOrder)
       THEN at' = at + 1 /\ pc' = "do" /\ UNCHANGED <<todo, synced>>
       ELSE at' = 1 /\ GoOn(Tail(todo)) /\ synced' = UpToDate(payload)
    /\ UNCHANGED <<config, payload, consent, uninstallVars, agreed>>

(* A read, write or rename fails: install_backends returns false. *)
InstallFails ==
    /\ pc \in {"do", "writing"} /\ Head(todo) = "install"
    /\ at' = 1
    /\ GoOn(Tail(todo))
    /\ UNCHANGED <<file, config, payload, consent, uninstallVars, agreed, synced>>

(* The host quits, or dies wherever it is. *)
HostEnds ==
    /\ pc # "off"
    /\ pc' = "off" /\ todo' = <<>> /\ at' = 1
    /\ synced' = FALSE
    /\ UNCHANGED <<file, config, payload, consent, uninstallVars, agreed>>

-----------------------------------------------------------------------------
(* choir --uninstall *)

Uninstall ==
    /\ upc = "off"
    /\ upc' = "remove" /\ uat' = 1
    /\ UNCHANGED <<file, config, hostVars, agreed, synced>>

(* One removal of the loop in uninstall_backends, which goes on after one   *)
(* that failed.                                                             *)
Remove(ok) ==
    /\ upc = "remove"
    /\ file' = IF ok THEN [file EXCEPT ![RemoveOrder[uat]] = "absent"] ELSE file
    /\ synced' = (synced /\ ~ok)
    /\ IF uat < Len(RemoveOrder) THEN uat' = uat + 1 /\ UNCHANGED upc
                                 ELSE uat' = 1 /\ upc' = "forget"
    /\ UNCHANGED <<config, hostVars, agreed>>

(* Forget the consent: load, and save if there is one to forget. *)
Forget ==
    /\ upc = "forget"
    /\ \/ LoadConsent # "unasked" /\ config' = "torn" /\ upc' = "saving"
       \/ upc' = "off" /\ UNCHANGED config
    /\ UNCHANGED <<file, hostVars, uat, agreed, synced>>

ForgetWrites ==
    /\ upc = "saving"
    /\ config' \in {"unasked", "torn"}
    /\ upc' = "off"
    /\ UNCHANGED <<file, hostVars, uat, agreed, synced>>

UninstallerDies ==
    /\ upc # "off"
    /\ upc' = "off" /\ uat' = 1
    /\ UNCHANGED <<file, config, hostVars, agreed, synced>>

-----------------------------------------------------------------------------
Next ==
    \/ \E v \in Versions : Launch(v)
    \/ \E b \in BOOLEAN : Answer(b) \/ Remove(b)
    \/ ClickInstall \/ ClickSave \/ SaveOpens \/ SaveWrites
    \/ WriteTemp \/ Rename \/ InstallFails \/ HostEnds
    \/ Uninstall \/ Forget \/ ForgetWrites \/ UninstallerDies

Spec == Init /\ [][Next]_vars

-----------------------------------------------------------------------------
(* Properties *)

(* Every variable keeps its type. *)
TypeOK ==
    /\ file \in [Files -> Versions \cup {"absent", "torn", "text"}]
    /\ config \in Consents \cup {"absent", "torn"}
    /\ pc \in {"off", "ask", "do", "writing", "running"}
    /\ todo \in Seq({"save", "install"})
    /\ pc \in {"do", "writing"} => todo # <<>>
    /\ at \in DOMAIN InstallOrder /\ uat \in DOMAIN RemoveOrder
    /\ payload \in Versions /\ consent \in Consents
    /\ upc \in {"off", "remove", "forget", "saving"}
    /\ agreed \in BOOLEAN /\ synced \in BOOLEAN

(* No game or Vulkan loader ever reads half a file, whenever the host died  *)
(* (write_atomic: "a torn write can never be observed").                    *)
FilesAreWhole == \A f \in Files : file[f] # "torn"

(* Nothing is written outside the AppImage unless the user last said yes,   *)
(* whatever crashes, torn configurations and restarts lie in between        *)
(* (sync_appimage_backends: "ask once, remember the answer").               *)
InstallsOnlyAgreed ==
    [][(\E f \in Files : file'[f] \notin {file[f], "absent"}) => agreed]_vars

(* A host that believes its libraries are in step runs with both of them at *)
(* its own version, also after an update that was cut short ("a newer       *)
(* AppImage can never pair with stale libraries").                          *)
NeverStale == synced => \A f \in Libs : file[f] = payload
=============================================================================
