----------------------------- MODULE VrSession -----------------------------
(***************************************************************************)
(* The headset side of the video extension: src/vr/vr_video_vk.cpp (the    *)
(* OpenXR session and its frames), src/vr/vr_pose.c (the head pose and     *)
(* what the video plugin says of its swaps) and the VR parts of            *)
(* src/api/vidext.c.                                                       *)
(*                                                                         *)
(* A game frame reaches the headset in VidExt_GL_SwapBuffers: the picture  *)
(* is staged for one eye, and an XR frame shows what both eyes have.  A    *)
(* dual plugin draws every game frame twice, left then right; the left     *)
(* swap is normally stage-only (swap mode 1), but now and then the left    *)
(* picture comes through an ordinary swap, which is then held.  A mono     *)
(* (stock) plugin swaps once and knows nothing of eyes.                    *)
(*                                                                         *)
(* The runtime starts, stops and loses the session on its own, and the     *)
(* program learns of it when it polls, at the start of StageEye and of     *)
(* PresentBoth: between any two polls the runtime may do anything.         *)
(*                                                                         *)
(* Pictures are told apart only by whether they belong to the game frame   *)
(* in hand.  Where the quad hangs, the Vulkan calls, and s_lost, which     *)
(* only shortens the wait in DestroyAll, are left out.                     *)
(***************************************************************************)
EXTENDS Integers, Sequences

CONSTANT
    Switches     \* pairs <<previous, next>> of plugins that a process may load

Plugins == {"dual", "mono"}

ASSUME VrSessionAssumption == Switches \subseteq ({"none"} \cup Plugins) \X Plugins

VARIABLES
    plugin,      \* the video plugin of the open ROM, or "none"
    last,        \* the plugin of the ROM before it
    half,        \* the eye that a dual plugin draws next
    active,      \* l_vr_active
    dualSeen,    \* l_vr_dual_seen
    eye,         \* s_stereo_eye
    mode,        \* s_swap_mode
    at,          \* where VidExt_GL_SwapBuffers is
    running,     \* s_session_running
    view,        \* s_view_space exists
    img,         \* what each eye's swapchain holds; "none" where g_have is false
    pose,        \* s_pose.valid
    recenter,    \* s_recenter_req
    rt,          \* the runtime's state of the session
    events,      \* what the runtime has to report
    shown,       \* what the XR frame of the last swap showed to each eye (history)
    joined,      \* the session began after the frame's first picture (history)
    starved      \* swaps of a running session since the last PresentBoth (history)

pluginVars == <<plugin, last, half>>
coreVars == <<active, dualSeen, eye, mode>>
rtVars == <<rt, events>>
vars == <<plugin, last, half, active, dualSeen, eye, mode, at, running, view, img,
          pose, recenter, rt, events, shown, joined, starved>>

Eyes == {0, 1}
Pictures == {"none", "old", "current"}
NoFrame == [e \in Eyes |-> "none"]

\* The types of the variables; the runtime never has more than two events to report.
TypeOK ==
    /\ plugin \in {"none"} \cup Plugins /\ last \in {"none"} \cup Plugins
    /\ half \in Eyes
    /\ active \in BOOLEAN /\ dualSeen \in BOOLEAN
    /\ eye \in {-1, 0, 1} /\ mode \in {0, 1}
    /\ at \in {"game", "stage", "present"}
    /\ running \in BOOLEAN /\ view \in BOOLEAN /\ pose \in BOOLEAN
    /\ img \in [Eyes -> Pictures] /\ shown \in [Eyes -> Pictures]
    /\ recenter \in BOOLEAN /\ joined \in BOOLEAN /\ starved \in 0 .. 2
    /\ rt \in {"none", "idle", "ready", "begun", "stopping", "gone"}
    /\ events \in Seq({"READY", "STOPPING", "LOSS"}) /\ Len(events) <= 2

Init ==
    /\ plugin = "none" /\ last = "none" /\ half = 0
    /\ active = FALSE /\ dualSeen = FALSE /\ eye = -1 /\ mode = 0
    /\ at = "game" /\ running = FALSE /\ view = FALSE
    /\ img = NoFrame /\ pose = FALSE /\ recenter = FALSE
    /\ rt = "none" /\ events = <<>>
    /\ shown = NoFrame /\ joined = FALSE /\ starved = 0

-----------------------------------------------------------------------------
(* The runtime.                                                             *)

Report(to, event) ==
    /\ rt' = to /\ events' = Append(events, event)
    /\ UNCHANGED <<pluginVars, coreVars, at, running, view, img, pose, recenter,
                   shown, joined, starved>>

RuntimeReady == rt = "idle" /\ Report("ready", "READY")
RuntimeStops == rt = "begun" /\ Report("stopping", "STOPPING")

\* LOSS_PENDING, EXITING, or the loss of the instance.
RuntimeLost == rt \notin {"none", "gone"} /\ Report("gone", "LOSS")

-----------------------------------------------------------------------------
(* The session.                                                             *)

\* HandleSessionStateChange and the loss of the instance in PumpEvents: whether the
\* session runs and the pose is valid, and how the runtime takes xrBeginSession and
\* xrEndSession.  HandleStopping_KeepsPose forgets vr_pose_invalidate.
HandleReady ==
    /\ running' = IF rt = "ready" THEN TRUE ELSE running
    /\ rt' = IF rt = "ready" THEN "begun" ELSE rt
    /\ joined' = (joined \/ rt = "ready")
    /\ UNCHANGED pose

HandleStopping_KeepsPose ==
    /\ running' = FALSE
    /\ rt' = IF rt = "stopping" THEN "idle" ELSE rt
    /\ UNCHANGED <<pose, joined>>
HandleStopping ==
    /\ running' = FALSE /\ pose' = FALSE
    /\ rt' = IF rt = "stopping" THEN "idle" ELSE rt
    /\ UNCHANGED joined

HandleLoss ==
    /\ running' = FALSE /\ pose' = FALSE
    /\ UNCHANGED <<rt, joined>>

\* One turn of the loop of PumpEvents, which StageEye and PresentBoth start with.
PumpEvent ==
    /\ at # "game" /\ events # <<>>
    /\ events' = Tail(events)
    /\ \/ Head(events) = "READY" /\ HandleReady
       \/ Head(events) = "STOPPING" /\ HandleStopping
       \/ Head(events) = "LOSS" /\ HandleLoss
    /\ UNCHANGED <<pluginVars, coreVars, at, view, img, recenter, shown, starved>>

\* PumpEvents returns when no event is left, or when xrPollEvent fails.
Pumped(pollFails) == events = <<>> \/ pollFails

\* InitPersistent: a new session, in a new instance or in the one that an earlier
\* SetVideoMode left behind, whose session is forgotten with its events.
CreateSessionVk(hasView) == rt' = "idle" /\ events' = <<>> /\ view' = hasView
InitPersistent(hasView) == CreateSessionVk(hasView) /\ img' = NoFrame

\* Whether or not STOPPING arrives while DestroyAll waits, the session ends, the pose
\* goes, and session and instance are destroyed.
DestroyAll ==
    /\ running' = FALSE
    /\ pose' = (pose /\ rt = "none")
    /\ rt' = "none" /\ events' = <<>> /\ view' = FALSE
ShutdownPersistent == DestroyAll /\ img' = NoFrame

-----------------------------------------------------------------------------
(* The video extension.                                                     *)

\* A ROM is opened with plugin p.
OpenRom(p) ==
    /\ plugin = "none" /\ <<last, p>> \in Switches
    /\ plugin' = p /\ half' = 0
    /\ UNCHANGED <<last, coreVars, at, running, view, img, pose, recenter, rtVars,
                   shown, joined, starved>>

\* The end of VidExt_SetVideoMode: the compositor is brought up, cannot be brought up,
\* or comes up without a readback buffer.
SetVideoMode(outcome, hasView) ==
    /\ plugin # "none" /\ at = "game" /\ ~active
    /\ active' = (outcome = "up")
    /\ \/ outcome \in {"up", "noBuffer"} /\ InitPersistent(hasView)
          /\ UNCHANGED <<running, pose>>
       \/ outcome = "fails" /\ ShutdownPersistent
    /\ UNCHANGED <<pluginVars, dualSeen, eye, mode, at, recenter, shown, joined, starved>>

\* VidExt_Quit: the latch is reset; what the plugin said of its swaps is not.
Quit ==
    /\ plugin # "none" /\ at = "game"
    /\ plugin' = "none" /\ last' = plugin
    /\ active' = FALSE
    /\ IF active THEN ShutdownPersistent /\ dualSeen' = FALSE
                 ELSE UNCHANGED <<running, pose, rtVars, view, img, dualSeen>>
    /\ shown' = NoFrame /\ starved' = 0
    /\ UNCHANGED <<half, eye, mode, at, recenter, joined>>

\* vr_stereo_eye_get, with a plugin that never said: the left eye.
Eye == IF eye < 0 THEN 0 ELSE eye

\* l_vr_hold_present: a left picture that does not come as stage-only is not presented
\* once the plugin has staged.  HoldPresent_Never has no gate, HoldPresent_Either holds
\* right pictures too.
HoldPresent_Never == FALSE
HoldPresent_Either == dualSeen /\ mode # 1
HoldPresent == dualSeen /\ Eye = 0 /\ mode # 1

\* The plugin has drawn a picture, says what it is (CoreVR_SetStereoEye and
\* CoreVR_SetSwapMode, which only a dual plugin calls), and swaps.
NewFrame(first) ==
    img' = [e \in Eyes |-> IF first /\ img[e] = "current" THEN "old" ELSE img[e]]

Swap(stageOnly) ==
    /\ plugin # "none" /\ at = "game"
    /\ IF plugin = "dual"
       THEN /\ eye' = half /\ mode' = (IF stageOnly THEN 1 ELSE 0)
            /\ stageOnly => half = 0
            /\ half' = 1 - half
            /\ NewFrame(half = 0)
       ELSE ~stageOnly /\ NewFrame(TRUE) /\ UNCHANGED <<eye, mode, half>>
    /\ at' = IF active THEN "stage" ELSE "game"
    /\ shown' = NoFrame
    /\ UNCHANGED <<plugin, last, active, dualSeen, running, view, pose, recenter, rtVars,
                   joined, starved>>

FirstOfFrame == plugin = "mono" \/ half = 1

\* What VidExt_GL_SwapBuffers does after it has staged: return, hold, or present.
AfterStage ==
    /\ at' = IF mode = 1 \/ HoldPresent THEN "game" ELSE "present"
    /\ dualSeen' = (dualSeen \/ mode = 1)

\* StageEye: without a session the picture goes nowhere.
StageEye(pollFails) ==
    /\ at = "stage" /\ Pumped(pollFails)
    /\ img' = IF running THEN [img EXCEPT ![Eye] = "current"] ELSE img
    /\ AfterStage
    /\ joined' = (joined /\ ~FirstOfFrame)
    /\ starved' = IF ~running THEN 0
                  ELSE IF at' = "game" /\ starved < 2 THEN starved + 1 ELSE starved
    /\ UNCHANGED <<pluginVars, active, eye, mode, running, view, pose, recenter, rtVars,
                   shown>>

\* The layers of an XR frame: until the right eye has a picture, it sees the left one.
Sees(e) == IF e = 1 /\ img[1] = "none" THEN img[0] ELSE img[e]

\* A pending recenter needs the head's position too.
\* Consumes_Anchored leaves the request pending when the pose is valid already.
Consumes_Anchored(located) == located = "pose" /\ ~pose
Consumes(located) == located = "pose"

\* vr_pose_publish or vr_pose_invalidate, where there is a view space to locate.
Published(located) == IF view THEN located # "nothing" ELSE pose

\* PresentBoth.  The head is located with "pose", "orientation" only, or "nothing";
\* a failing xrWaitFrame ends it early.
PresentBoth(pollFails, waitFails, located, shouldRender) ==
    /\ at = "present" /\ Pumped(pollFails)
    /\ at' = "game" /\ starved' = 0
    /\ IF running /\ ~waitFails
       THEN /\ pose' = Published(located)
            /\ recenter' = (recenter /\ ~(view /\ Consumes(located)))
            /\ shown' = IF shouldRender THEN [e \in Eyes |-> Sees(e)] ELSE NoFrame
       ELSE /\ pose' = (pose /\ running)
            /\ UNCHANGED <<recenter, shown>>
    /\ UNCHANGED <<pluginVars, coreVars, running, view, img, rtVars, joined>>

\* vr_video_vk_recenter, on any thread.
Recenter ==
    /\ ~recenter /\ recenter' = TRUE
    /\ UNCHANGED <<pluginVars, coreVars, at, running, view, img, pose, rtVars, shown,
                   joined, starved>>

Located == {"pose", "orientation", "nothing"}

GameStep ==
    \/ \E stageOnly \in BOOLEAN : Swap(stageOnly)
    \/ PumpEvent
    \/ \E pollFails \in BOOLEAN :
          \/ StageEye(pollFails)
          \/ \E waitFails, shouldRender \in BOOLEAN, located \in Located :
                PresentBoth(pollFails, waitFails, located, shouldRender)

Next ==
    \/ RuntimeReady \/ RuntimeStops \/ RuntimeLost
    \/ GameStep
    \/ \E p \in Plugins : OpenRom(p)
    \/ \E outcome \in {"up", "noBuffer", "fails"}, hasView \in BOOLEAN :
          SetVideoMode(outcome, hasView)
    \/ Quit
    \/ Recenter

Spec == Init /\ [][Next]_vars

\* The game goes on.
GameSpec == Spec /\ WF_vars(GameStep)

\* The game goes on, and a headset that is worn is located again and again.
FairSpec ==
    /\ GameSpec
    /\ SF_vars(\E pollFails, shouldRender \in BOOLEAN :
                   PresentBoth(pollFails, FALSE, "pose", shouldRender))

-----------------------------------------------------------------------------
(* Properties.                                                              *)

\* "pose must not outlive the session" (vr_video_vk.cpp, vr_pose.h), as far as the program
\* can know of the session's end: whoever reads a valid pose reads it from a session that
\* the runtime has begun and has neither stopped nor lost, or of whose end it has a report
\* that PumpEvents has not read yet; s_session_running is set as long.
PoseNotOutlivesSession == pose => running /\ (rt = "begun" \/ events # <<>>)

\* The same as a promise: the pose of a session that the runtime has lost becomes invalid,
\* if the game goes on drawing.  The code does not keep it: when every poll fails from then
\* on, s_session_running and the pose stay as they are.
PoseEndsWithSession == rt = "gone" ~> ~pose

\* The headset never gets a mismatched pair: once a dual plugin has staged, and always
\* with a mono plugin, both eyes of an XR frame see the game frame in hand, unless the
\* session began after the frame's first picture was staged.
EyesAgree ==
    (shown # NoFrame /\ ~joined /\ (plugin = "dual" => dualSeen)) =>
        \A e \in Eyes : shown[e] = "current"

\* The gate of VidExt_GL_SwapBuffers does not starve the headset: of two swaps in a row
\* during which the session runs, one gets as far as the xrWaitFrame of PresentBoth.
FramesFlow == starved <= 1

\* A request to recentre the screen is met while the session lasts.
RecenterMet ==
    (recenter /\ running /\ view) ~> (~recenter \/ ~running)

\* "stock plugin: mono; compositor mirrors left to both" (vidext.c): both eyes of an XR
\* frame see the picture of a mono plugin.
MonoOnBothEyes ==
    (plugin = "mono" /\ shown # NoFrame /\ ~joined) =>
        \A e \in Eyes : shown[e] = "current"

=============================================================================
