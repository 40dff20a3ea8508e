----------------------------- MODULE AvatarPath -----------------------------
(***************************************************************************)
(* The way of a picture from Discord's CDN to a texture in a game:         *)
(* AvatarCache in the host (src/host/model/avatar_cache.cpp), the file in  *)
(* the cache directory (src/ipc/avatar_file.cpp), StateLink's announcement *)
(* and the texture cache of the game's renderer                            *)
(* (src/layer/avatar_textures.cpp, src/gl/gl_avatar_textures.cpp).         *)
(*                                                                         *)
(* Composed with StateLink: its BroadcastAvatar is AvatarCache::ready      *)
(* here.  The picture of a hash never changes; a file is read in one step, *)
(* since its writer only ever appends to it.                               *)
(***************************************************************************)
EXTENDS StateLink

CONSTANT
    MaxFailures     \* bound on the failed fetches, writes and uploads

ASSUME PathAssumption == None \notin Avatars /\ MaxFailures \in Nat

VARIABLES
    file,        \* <hash>.rgba on disk: absent, torn or whole
    cut,         \* files whose writer was killed, or could not remove them
    known,       \* AvatarCache::known_
    step,        \* the host in request_url: idle, fetch (a nested event
                 \* loop), write
    key,         \* the hash requested
    renderer,    \* each game's renderer: none, vulkan, gl
    textures,    \* its texture cache, by hash
    objects,     \* the GPU objects it owns, as <<hash, kind>>
    failures     \* failures so far

cacheVars == <<file, cut, known, step, key>>
drawVars  == <<renderer, textures, objects>>
pathVars  == <<cacheVars, drawVars, failures>>

PathInit ==
    /\ Init
    /\ file = [h \in Avatars |-> "absent"] /\ cut = {}
    /\ known = {} /\ step = "idle" /\ key = None
    /\ renderer = [g \in Games |-> "none"]
    /\ textures = [g \in Games |-> {}] /\ objects = [g \in Games |-> {}]
    /\ failures = 0

-----------------------------------------------------------------------------
(* The host: AvatarCache::request_url *)

Failure == failures < MaxFailures /\ failures' = failures + 1

(* ready: the server announces the picture. *)
Ready(h) ==
    /\ known' = known \cup {h}
    /\ BroadcastAvatar(h)

(* request_url returns. *)
Returned == step' = "idle" /\ key' = None

(* A participant or a notification names h.  A hit, in memory or on disk,   *)
(* is announced at once; a miss is fetched.                                 *)
Request(h) ==
    /\ hostUp /\ step = "idle"
    /\ \/ /\ h \in known \/ file[h] # "absent"
          /\ Ready(h)
          /\ UNCHANGED <<step, key>>
       \/ /\ ~(h \in known \/ file[h] # "absent")
          /\ step' = "fetch" /\ key' = h
          /\ UNCHANGED <<vars, known>>
    /\ UNCHANGED <<file, cut, drawVars, failures>>

(* No answer, no picture in it, no directory, or no file: not marked known. *)
FetchFails ==
    /\ step = "fetch"
    /\ Failure
    /\ Returned
    /\ UNCHANGED <<vars, file, cut, known, drawVars>>

(* The picture is there and write_avatar_rgba has opened the file. *)
WriteOpens ==
    /\ step = "fetch"
    /\ step' = "write"
    /\ file' = [file EXCEPT ![key] = "torn"]
    /\ UNCHANGED <<vars, cut, known, key, drawVars, failures>>

WriteDone ==
    /\ step = "write"
    /\ file' = [file EXCEPT ![key] = "whole"]
    /\ Ready(key)
    /\ Returned
    /\ UNCHANGED <<cut, drawVars, failures>>

(* Fault: a failed write leaves its file behind. *)
WriteFails_KeepsFile ==
    /\ step = "write"
    /\ Failure
    /\ Returned
    /\ UNCHANGED <<vars, file, cut, known, drawVars>>

(* A failed write is removed; the removal may fail too, unnoticed. *)
WriteFails ==
    /\ step = "write"
    /\ Failure
    /\ \/ /\ file' = [file EXCEPT ![key] = "absent"]
          /\ UNCHANGED cut
       \/ /\ cut' = cut \cup {key}
          /\ UNCHANGED file
    /\ Returned
    /\ UNCHANGED <<vars, known, drawVars>>

(* A new host knows nothing; a host that dies while writing leaves the file *)
(* as it is.                                                                *)
CacheStarts ==
    /\ HostStarts
    /\ UNCHANGED pathVars

CacheDies ==
    /\ HostDies
    /\ known' = {}
    /\ cut' = IF step = "write" THEN cut \cup {key} ELSE cut
    /\ Returned
    /\ UNCHANGED <<file, drawVars, failures>>

-----------------------------------------------------------------------------
(* The game: a renderer and its texture cache *)

Texture == {"image", "memory", "view", "sampler"}    \* destroy_texture
Staging == {"staging", "stagingMemory"}              \* free_staging

(* The calls of create_texture and get_or_load that make an object, or      *)
(* submit the copy, in order.                                               *)
UploadCalls == <<"image", "memory", "staging", "stagingMemory", "pool", "fence",
                 "submit", "view", "sampler", "descriptor">>

Call(kind) == CHOOSE n \in DOMAIN UploadCalls : UploadCalls[n] = kind

(* What exists when the n-th call is made: fence, pool and staging go right *)
(* after the submit.                                                        *)
Released(n) == IF n > Call("submit") THEN Staging \cup {"pool", "fence", "submit"} ELSE {}

Built(n) == {UploadCalls[m] : m \in 1..(n - 1)} \ Released(n)

TextureBefore(n) == IF n > Call("image") THEN Texture ELSE {}
PoolBefore(n)    == IF n \in Call("fence")..Call("submit") THEN {"pool"} ELSE {}
FenceBefore(n)   == IF n = Call("submit") THEN {"fence"} ELSE {}

(* Fault: without a command pool the staging buffer is forgotten. *)
Undone_Early(n) ==
    TextureBefore(n) \cup PoolBefore(n) \cup FenceBefore(n)
        \cup IF n \in Call("fence")..Call("submit") THEN Staging ELSE {}

(* What the error path of the n-th call destroys. *)
Undone(n) ==
    TextureBefore(n) \cup PoolBefore(n) \cup FenceBefore(n)
        \cup IF n \in Call("stagingMemory")..Call("submit") THEN Staging ELSE {}

VulkanTexture == Texture \cup {"descriptor"}

Kinds(api) == IF api = "gl" THEN {"texture"} ELSE VulkanTexture

(* A frame with something to draw, of a game that is not exiting. *)
Draws(g) == pc[g] # "off" /\ ~stop[g] /\ ~disabled[g] /\ latest[g] # None

(* Fault: a failure is remembered, and the picture not tried again. *)
Loads_NotAfterFailure(g, h) ==
    /\ Draws(g) /\ renderer[g] # "none"
    /\ h \notin textures[g] /\ h \in retained[g]
    /\ file[h] = "whole" /\ failures = 0

(* The snapshot drawn names h, resolve_icon gets past lookup and            *)
(* avatar_for, and read_avatar_rgba finds magic, size and end of file as    *)
(* they should be.                                                          *)
Loads(g, h) ==
    /\ Draws(g) /\ renderer[g] # "none"
    /\ h \notin textures[g] /\ h \in retained[g]
    /\ file[h] = "whole"

(* get_or_load *)
GetOrLoad(g, h) ==
    /\ Loads(g, h)
    /\ textures' = [textures EXCEPT ![g] = @ \cup {h}]
    /\ objects' = [objects EXCEPT ![g] = @ \cup ({h} \X Kinds(renderer[g]))]
    /\ UNCHANGED <<vars, cacheVars, renderer, failures>>

(* create_texture or add_texture fails at the n-th call. *)
UploadFails(g, h, n) ==
    /\ Loads(g, h) /\ renderer[g] = "vulkan"
    /\ Failure
    /\ objects' = [objects EXCEPT ![g] = @ \cup ({h} \X (Built(n) \ Undone(n)))]
    /\ UNCHANGED <<vars, cacheVars, renderer, textures>>

(* glGenTextures fails, before anything is made. *)
GenTexturesFails(g, h) ==
    /\ Loads(g, h) /\ renderer[g] = "gl"
    /\ Failure
    /\ UNCHANGED <<vars, cacheVars, drawVars>>

(* The renderer of a swapchain or a GL context is initialised by the first  *)
(* frame that draws.                                                        *)
RendererInit(g, api) ==
    /\ Draws(g) /\ renderer[g] = "none"
    /\ renderer' = [renderer EXCEPT ![g] = api]
    /\ UNCHANGED <<vars, cacheVars, textures, objects, failures>>

(* shutdown: every cached texture is destroyed.  GL objects also die with   *)
(* their context.                                                           *)
Shutdown(g) ==
    /\ renderer[g] # "none"
    /\ renderer' = [renderer EXCEPT ![g] = "none"]
    /\ textures' = [textures EXCEPT ![g] = {}]
    /\ objects' = [objects EXCEPT ![g] = @ \ (textures[g] \X Kinds(renderer[g]))]
    /\ UNCHANGED <<vars, cacheVars, failures>>

GameEnds(g) ==
    /\ ProcessEnds(g)
    /\ renderer' = [renderer EXCEPT ![g] = "none"]
    /\ textures' = [textures EXCEPT ![g] = {}]
    /\ objects' = [objects EXCEPT ![g] = {}]
    /\ UNCHANGED <<cacheVars, failures>>

-----------------------------------------------------------------------------
(* The rest of StateLink.  The host's thread runs an event loop except      *)
(* while it writes a file.                                                  *)
HostHandles(g) ==
    /\ step # "write"
    /\ DenylistChanges(g) \/ ServerStep(g)
    /\ UNCHANGED pathVars

HostBroadcasts ==
    /\ step # "write"
    /\ Broadcast
    /\ UNCHANGED pathVars

GameHandles(g) ==
    /\ ThreadStep(g) \/ GameStarts(g) \/ Destroy(g)
    /\ UNCHANGED pathVars

CacheStep == FetchFails \/ WriteOpens \/ WriteDone \/ WriteFails

PathNext ==
    \/ CacheStarts \/ CacheDies \/ HostBroadcasts \/ CacheStep
    \/ \E h \in Avatars : Request(h)
    \/ \E g \in Games :
          \/ HostHandles(g) \/ GameHandles(g) \/ GameEnds(g) \/ Shutdown(g)
          \/ \E api \in {"vulkan", "gl"} : RendererInit(g, api)
          \/ \E h \in Avatars :
                \/ GetOrLoad(g, h) \/ GenTexturesFails(g, h)
                \/ \E n \in DOMAIN UploadCalls : UploadFails(g, h, n)

allVars == <<vars, pathVars>>

PathSpec == PathInit /\ [][PathNext]_allVars

(* The host's event loop and the client threads keep running, and serve     *)
(* looks at stop_ after every read, so frames cannot keep it from leaving;  *)
(* the fetch ends within its timeout; a game with a renderer draws frames.  *)
PathFairness ==
    /\ WF_allVars(CacheStep)
    /\ \A g \in Games :
          /\ WF_allVars(HostHandles(g) /\ (OnNewConnection(g) \/ HandleHello(g)))
          /\ WF_allVars(GameHandles(g) /\ ThreadStep(g))
          /\ WF_allVars(GameHandles(g) /\ ThreadExits(g))
          /\ \A h \in Avatars : WF_allVars(GetOrLoad(g, h))

FairPathSpec == PathSpec /\ PathFairness

-----------------------------------------------------------------------------
(* Properties *)

(* Every variable keeps its type. *)
PathTypeOK ==
    /\ TypeOK
    /\ file \in [Avatars -> {"absent", "torn", "whole"}]
    /\ cut \subseteq Avatars /\ known \subseteq Avatars
    /\ step \in {"idle", "fetch", "write"}
    /\ key \in Avatars \cup {None} /\ (step = "idle" <=> key = None)
    /\ renderer \in [Games -> {"none", "vulkan", "gl"}]
    /\ textures \in [Games -> SUBSET Avatars]
    /\ failures \in 0..MaxFailures

(* What a game has been told to load is a complete picture, whatever failed *)
(* before and however often it was retried: only a host killed in the       *)
(* middle of a write, or unable to remove its file, leaves a torn one       *)
(* (avatar_cache.hpp, "leaves no partial file").                            *)
AnnouncedIsWhole ==
    \A h \in announced \cup UNION {retained[g] : g \in Games} :
        file[h] = "whole" \/ h \in cut

(* The objects a renderer owns are those of its cached textures: no error   *)
(* path of an upload leaks one, and none survives the renderer.             *)
NothingLeaks ==
    \A g \in Games : objects[g] = textures[g] \X Kinds(renderer[g])

(* A picture announced once comes to be shown by every game that runs and   *)
(* draws, whether it was connected then or joins later, and through failed  *)
(* uploads, unless the game is switched off or the file was cut.            *)
ComesToShow ==
    \A g \in Games, h \in Avatars :
        <>[](/\ hostUp /\ h \in announced
             /\ pc[g] # "off" /\ ~stop[g] /\ renderer[g] # "none")
            => <>(h \in textures[g] \/ disabled[g] \/ h \in cut)
=============================================================================
