-------------------------- MODULE VrSessionProofs --------------------------
(***************************************************************************)
(* PoseNotOutlivesSession of VrSession for every order of plugins, and     *)
(* FramesFlow and EyesAgree for every order in which no stock plugin comes *)
(* after a dual one.  The run vr_mono_after_dual shows what happens when   *)
(* one does.                                                               *)
(***************************************************************************)
EXTENDS VrSession, TLAPS

\* What the runtime has to report follows from where it is: it reports each change of
\* its state once, and PumpEvents takes the reports in order.
EventsMatch ==
    /\ rt \in {"none", "idle", "begun"} => events = <<>>
    /\ rt = "ready" => events = <<"READY">>
    /\ rt = "stopping" => events = <<"STOPPING">>
    /\ rt = "gone" => events \in {<<>>, <<"LOSS">>, <<"READY", "LOSS">>,
                                  <<"STOPPING", "LOSS">>}

\* A swap is under way only with an open ROM and a compositor; before the compositor
\* is up no session runs.
SwapInv ==
    /\ at # "game" => plugin # "none" /\ active
    /\ plugin = "none" => ~active
    /\ ~active => ~running

\* s_session_running only while the runtime's session has begun or the report of its end
\* has not been read, and s_pose.valid only with it.
SessionInv ==
    /\ TypeOK
    /\ EventsMatch
    /\ SwapInv
    /\ running => rt \in {"begun", "stopping", "gone"}
    /\ running /\ rt = "gone" => events # <<>>
    /\ pose => running

\* What a dual plugin said of its swap is still there when the swap is staged and
\* presented; a left picture is presented only before the plugin has staged.
SaidInv ==
    /\ (plugin = "dual" /\ at # "game") => eye = 1 - half
    /\ (plugin = "dual" /\ at # "game" /\ eye = 1) => mode = 0
    /\ (plugin = "dual" /\ at = "present" /\ half = 1) => ~dualSeen

\* A process that has not yet loaded a dual plugin: nobody has called CoreVR_SetStereoEye
\* or CoreVR_SetSwapMode, the latch is open and the right eye has no picture.
StockInv ==
    /\ plugin = "mono" => last # "dual"
    /\ (plugin # "dual" /\ last # "dual") =>
          eye = -1 /\ mode = 0 /\ ~dualSeen /\ img[1] = "none"

\* One swap without an XR frame is a left picture; the right one is to come.
StarvedInv ==
    /\ starved <= 1
    /\ starved = 1 =>
          active /\ plugin = "dual" /\ (IF at = "game" THEN half = 1 ELSE half = 0)

\* The pictures of the game frame in hand, as far as the session has seen it: the left
\* one from its staging on, the right one (of a stock plugin: the only one) when
\* PresentBoth is to show it.
PictureInv ==
    (running /\ ~joined) =>
        /\ (plugin = "dual" /\ (half = 1 \/ at # "game") /\ ~(half = 1 /\ at = "stage"))
              => img[0] = "current"
        /\ (plugin = "dual" /\ half = 0 /\ at = "present") => img[1] = "current"
        /\ (plugin = "mono" /\ at = "present") => img[0] = "current"

\* An XR frame is looked at until the next swap.
ShownInv ==
    /\ (at = "stage" \/ plugin = "none") => shown = NoFrame
    /\ EyesAgree

FrameInv == SaidInv /\ StockInv /\ StarvedInv /\ PictureInv /\ ShownInv

-----------------------------------------------------------------------------
(* The reports of the runtime: sequences of at most two.                    *)

\* The last element of a sequence that has just been extended.
LEMMA LastAppended ==
    ASSUME NEW S, NEW s \in Seq(S), NEW b \in S
    PROVE  Append(s, b)[Len(s) + 1] = b
  OBVIOUS

\* One report: added to none, and taken.
LEMMA OneReport ==
    ASSUME NEW a
    PROVE  Append(<<>>, a) = <<a>> /\ Head(<<a>>) = a /\ Tail(<<a>>) = <<>>
<1>1. Append(<<>>, a) = <<a>>
  OBVIOUS
<1>2. Head(<<a>>) = a
  OBVIOUS
<1>3. Tail(<<a>>) = <<>>
  OBVIOUS
<1> QED BY <1>1, <1>2, <1>3

\* Two reports: the second one added, and the first one taken.
LEMMA TwoReports ==
    ASSUME NEW S, NEW a \in S, NEW b \in S
    PROVE  Append(<<a>>, b) = <<a, b>> /\ Head(<<a, b>>) = a /\ Tail(<<a, b>>) = <<b>>
<1>1. ASSUME NEW s \in Seq(S), Len(s) = 1, s[1] = a
      PROVE  Append(s, b) = <<a, b>>
  <2>1. Append(s, b) \in Seq(S) /\ Len(Append(s, b)) = 2
    <3>1. Append(s, b) \in Seq(S) /\ Len(Append(s, b)) = Len(s) + 1
      OBVIOUS
    <3> QED BY <1>1, <3>1
  <2>5. Append(s, b)[1] = s[1]
    BY <1>1
  <2>2. Len(s) + 1 = 2
    BY <1>1
  <2>3. Append(s, b)[2] = b
    BY <2>2, LastAppended, Zenon
  <2>4. ASSUME NEW t \in Seq(S), Len(t) = 2 PROVE t = <<t[1], t[2]>>
    BY <2>4
  <2> QED BY <1>1, <2>1, <2>3, <2>4, <2>5, Zenon
<1>2. <<a>> \in Seq(S) /\ Len(<<a>>) = 1 /\ <<a>>[1] = a
  OBVIOUS
<1>3. Head(<<a, b>>) = a
  OBVIOUS
<1>4. Tail(<<a, b>>) = <<b>>
  OBVIOUS
<1> QED BY <1>1, <1>2, <1>3, <1>4, Zenon

-----------------------------------------------------------------------------
(* The session and the pose.                                                *)

\* The initial state, before any ROM.
LEMMA InitSession == Init => SessionInv
<1> SUFFICES ASSUME Init PROVE SessionInv
  OBVIOUS
<1>1. TypeOK
  BY DEF Init, TypeOK, NoFrame, Eyes, Pictures, Plugins
<1> QED
  BY <1>1 DEF Init, SessionInv, EventsMatch, SwapInv

\* PumpEvents takes one report: what is left is what EventsMatch says of the new state.
LEMMA PumpSession == SessionInv /\ PumpEvent => SessionInv'
<1> SUFFICES ASSUME SessionInv, PumpEvent PROVE SessionInv'
  OBVIOUS
<1> USE DEF SessionInv, TypeOK, EventsMatch, SwapInv, pluginVars, coreVars
<1>1. CASE rt = "ready"
  <2>1. Head(events) = "READY" /\ Tail(events) = <<>>
    BY <1>1, OneReport
  <2>2. HandleReady /\ events' = <<>>
    BY <2>1 DEF PumpEvent
  <2> QED BY <1>1, <2>2 DEF HandleReady, PumpEvent
<1>2. CASE rt = "stopping"
  <2>1. Head(events) = "STOPPING" /\ Tail(events) = <<>>
    BY <1>2, OneReport
  <2>2. HandleStopping /\ events' = <<>>
    BY <2>1 DEF PumpEvent
  <2>3. running' \in BOOLEAN /\ pose' \in BOOLEAN
    BY <2>2, Zenon DEF HandleStopping
  <2> QED BY <1>2, <2>2, <2>3 DEF HandleStopping, PumpEvent
<1>3. CASE rt = "gone"
  <2>1. events \in {<<"LOSS">>, <<"READY", "LOSS">>, <<"STOPPING", "LOSS">>}
    BY <1>3 DEF PumpEvent
  <2>2. CASE events = <<"LOSS">>
    <3>1. Head(events) = "LOSS" /\ Tail(events) = <<>>
      BY <2>2, OneReport
    <3>2. HandleLoss /\ events' = <<>>
      BY <3>1 DEF PumpEvent
    <3>3. running' \in BOOLEAN /\ pose' \in BOOLEAN
      BY <3>2, Zenon DEF HandleLoss
    <3> QED BY <1>3, <3>2, <3>3 DEF HandleLoss, PumpEvent
  <2>3. CASE events = <<"READY", "LOSS">>
    <3>1. Head(events) = "READY" /\ Tail(events) = <<"LOSS">>
      BY <2>3, TwoReports
    <3>2. HandleReady /\ events' = <<"LOSS">>
      BY <3>1 DEF PumpEvent
    <3>3. events' \in Seq({"READY", "STOPPING", "LOSS"}) /\ Len(events') <= 2
      BY <3>2
    <3>4. running' = running /\ rt' = rt /\ joined' \in BOOLEAN /\ pose' = pose
      BY <1>3, <3>2 DEF HandleReady
    <3>5. EventsMatch'
      BY <1>3, <3>2, <3>4, Zenon
    <3>6. TypeOK'
      BY <3>3, <3>4 DEF PumpEvent
    <3>7. SwapInv'
      BY <1>3, <3>4 DEF PumpEvent
    <3>8. events' # <<>>
      BY <3>2
    <3> QED BY <1>3, <3>4, <3>5, <3>6, <3>7, <3>8
  <2>4. CASE events = <<"STOPPING", "LOSS">>
    <3>1. Head(events) = "STOPPING" /\ Tail(events) = <<"LOSS">>
      BY <2>4, TwoReports
    <3>2. HandleStopping /\ events' = <<"LOSS">>
      BY <3>1 DEF PumpEvent
    <3>3. running' \in BOOLEAN /\ pose' \in BOOLEAN
      BY <3>2, Zenon DEF HandleStopping
    <3>4. events' \in Seq({"READY", "STOPPING", "LOSS"}) /\ Len(events') <= 2
      BY <3>2
    <3>5. TypeOK'
      BY <3>2, <3>3, <3>4 DEF HandleStopping, PumpEvent
    <3>6. rt' = rt /\ ~running' /\ ~pose'
      BY <1>3, <3>2 DEF HandleStopping
    <3>7. EventsMatch'
      BY <1>3, <3>2, <3>6, Zenon
    <3>8. SwapInv'
      BY <3>6 DEF PumpEvent
    <3> QED BY <3>5, <3>6, <3>7, <3>8
  <2> QED BY <2>1, <2>2, <2>3, <2>4
<1>4. rt \in {"ready", "stopping", "gone"}
  BY DEF PumpEvent
<1> QED BY <1>1, <1>2, <1>3, <1>4

\* Every step keeps the pose within the session.
LEMMA NextSession == SessionInv /\ [Next]_vars => SessionInv'
<1> SUFFICES ASSUME SessionInv, [Next]_vars PROVE SessionInv'
  OBVIOUS
<1> USE DEF SessionInv, SwapInv, pluginVars, coreVars, rtVars
<1>1. CASE RuntimeReady
  <2>1. events' = <<"READY">>
    BY <1>1, OneReport DEF RuntimeReady, Report, EventsMatch
  <2> QED BY <1>1, <2>1 DEF RuntimeReady, Report, TypeOK, EventsMatch
<1>2. CASE RuntimeStops
  <2>1. events' = <<"STOPPING">>
    BY <1>2, OneReport DEF RuntimeStops, Report, EventsMatch
  <2> QED BY <1>2, <2>1 DEF RuntimeStops, Report, TypeOK, EventsMatch
<1>3. CASE RuntimeLost
  <2>1. events \in {<<>>, <<"READY">>, <<"STOPPING">>}
    BY <1>3 DEF RuntimeLost, EventsMatch, TypeOK
  <2>2. events' \in {<<"LOSS">>, <<"READY", "LOSS">>, <<"STOPPING", "LOSS">>}
    <3> DEFINE S == {"READY", "STOPPING", "LOSS"}
    <3>1. \A a \in S : Append(<<a>>, "LOSS") = <<a, "LOSS">>
      <4> TAKE a \in S
      <4> "LOSS" \in S
        OBVIOUS
      <4> QED BY TwoReports
    <3>2. events' = Append(events, "LOSS")
      BY <1>3 DEF RuntimeLost, Report
    <3> QED BY <2>1, <3>1, <3>2, OneReport, Zenon
  <2>3. rt' = "gone" /\ EventsMatch'
    BY <1>3, <2>2 DEF RuntimeLost, Report, EventsMatch
  <2>4. events' \in Seq({"READY", "STOPPING", "LOSS"}) /\ Len(events') <= 2
    <3>1. CASE events' = <<"LOSS">>
      BY <3>1
    <3>2. CASE events' = <<"READY", "LOSS">>
      BY <3>2
    <3>3. CASE events' = <<"STOPPING", "LOSS">>
      BY <3>3
    <3> QED BY <2>2, <3>1, <3>2, <3>3
  <2> QED BY <1>3, <2>3, <2>4 DEF RuntimeLost, Report, TypeOK
<1>4. ASSUME NEW stageOnly \in BOOLEAN, Swap(stageOnly) PROVE SessionInv'
  <2>1. img' \in [Eyes -> Pictures]
    BY <1>4 DEF Swap, NewFrame, TypeOK, Pictures
  <2>2. half' \in Eyes /\ eye' \in {-1, 0, 1} /\ mode' \in {0, 1}
    <3>1. CASE plugin = "dual"
      <4>1. half' = 1 - half /\ eye' = half /\ mode' \in {0, 1}
        BY <1>4, <3>1 DEF Swap
      <4> QED BY <4>1 DEF TypeOK, Eyes
    <3>2. CASE plugin # "dual"
      BY <1>4, <3>2 DEF Swap, TypeOK
    <3> QED BY <3>1, <3>2
  <2>3. at' \in {"game", "stage"} /\ shown' \in [Eyes -> Pictures]
    BY <1>4 DEF Swap, NoFrame, Pictures
  <2> QED BY <1>4, <2>1, <2>2, <2>3 DEF Swap, TypeOK, EventsMatch
<1>5. CASE PumpEvent
  BY <1>5, PumpSession
<1>6. ASSUME NEW pollFails \in BOOLEAN, StageEye(pollFails) PROVE SessionInv'
  <2>1. img' \in [Eyes -> Pictures]
    BY <1>6 DEF StageEye, TypeOK, Pictures, Eyes, Eye
  <2>2. at' \in {"game", "present"} /\ dualSeen' \in BOOLEAN
    BY <1>6 DEF StageEye, AfterStage, TypeOK
  <2>3. starved' \in 0 .. 2 /\ joined' \in BOOLEAN
    BY <1>6, <2>2 DEF StageEye, TypeOK
  <2> QED BY <1>6, <2>1, <2>2, <2>3 DEF StageEye, TypeOK, EventsMatch
<1>7. ASSUME NEW pollFails \in BOOLEAN, NEW waitFails \in BOOLEAN,
             NEW shouldRender \in BOOLEAN, NEW located \in Located,
             PresentBoth(pollFails, waitFails, located, shouldRender)
      PROVE  SessionInv'
  <2>1. \A e \in Eyes : Sees(e) \in Pictures
    BY DEF Sees, TypeOK, Eyes
  <2>2. shown' \in [Eyes -> Pictures]
    BY <1>7, <2>1 DEF PresentBoth, TypeOK, NoFrame, Pictures
  <2>3. pose' \in BOOLEAN /\ recenter' \in BOOLEAN /\ (pose' => running)
    BY <1>7 DEF PresentBoth, Published, TypeOK
  <2> QED BY <1>7, <2>2, <2>3 DEF PresentBoth, TypeOK, EventsMatch
<1>8. ASSUME NEW p \in Plugins, OpenRom(p) PROVE SessionInv'
  BY <1>8 DEF OpenRom, TypeOK, EventsMatch, Eyes
<1>9. ASSUME NEW outcome \in {"up", "noBuffer", "fails"}, NEW hasView \in BOOLEAN,
             SetVideoMode(outcome, hasView)
      PROVE  SessionInv'
  <2>1. img' \in [Eyes -> Pictures] /\ view' \in BOOLEAN /\ events' = <<>>
        /\ rt' \in {"idle", "none"} /\ running' \in BOOLEAN /\ pose' \in BOOLEAN
    BY <1>9 DEF SetVideoMode, InitPersistent, CreateSessionVk, ShutdownPersistent,
                DestroyAll, NoFrame, Pictures, TypeOK
  <2>2. ~running /\ ~running' /\ ~pose'
    BY <1>9 DEF SetVideoMode, InitPersistent, CreateSessionVk, ShutdownPersistent,
                DestroyAll, TypeOK
  <2> QED BY <1>9, <2>1, <2>2 DEF SetVideoMode, TypeOK, EventsMatch
<1>10. CASE Quit
  <2>1. img' \in [Eyes -> Pictures] /\ shown' \in [Eyes -> Pictures]
    BY <1>10 DEF Quit, ShutdownPersistent, NoFrame, Pictures, TypeOK
  <2>2. active' \in BOOLEAN /\ dualSeen' \in BOOLEAN /\ running' \in BOOLEAN
        /\ view' \in BOOLEAN /\ pose' \in BOOLEAN
    BY <1>10, Zenon DEF Quit, ShutdownPersistent, DestroyAll, TypeOK
  <2>3. plugin' \in {"none"} \cup Plugins /\ last' \in {"none"} \cup Plugins
    BY <1>10 DEF Quit, TypeOK
  <2>4. CASE active
    BY <1>10, <2>1, <2>2, <2>3, <2>4
       DEF Quit, ShutdownPersistent, DestroyAll, TypeOK, EventsMatch
  <2>5. CASE ~active
    BY <1>10, <2>1, <2>2, <2>3, <2>5 DEF Quit, TypeOK, EventsMatch
  <2> QED BY <2>4, <2>5
<1>11. CASE Recenter
  BY <1>11 DEF Recenter, TypeOK, EventsMatch
<1>12. CASE UNCHANGED vars
  BY <1>12 DEF vars, TypeOK, EventsMatch
<1> QED
  BY <1>1, <1>2, <1>3, <1>4, <1>5, <1>6, <1>7, <1>8, <1>9, <1>10, <1>11, <1>12
     DEF Next, GameStep

\* "pose must not outlive the session" (vr_video_vk.cpp, vr_pose.h): whichever way and
\* between whichever two calls the session ends, and whatever plugins the process loads
\* one after the other, a valid pose comes from a session that the runtime has begun and
\* not ended, or whose end PumpEvents has still to read.  That it reads it is not promised:
\* when every poll fails, PoseEndsWithSession does not hold.
THEOREM PoseTheorem == Spec => []PoseNotOutlivesSession
<1>1. SessionInv => PoseNotOutlivesSession
  BY DEF SessionInv, EventsMatch, PoseNotOutlivesSession
<1> QED BY <1>1, InitSession, NextSession, PTL DEF Spec

\* The variables have their types; the runtime never has more than two events to report.
THEOREM TypeTheorem == Spec => []TypeOK
<1>1. SessionInv => TypeOK
  BY DEF SessionInv
<1> QED BY <1>1, InitSession, NextSession, PTL DEF Spec

-----------------------------------------------------------------------------
(* The pictures of a game frame.                                            *)

LEMMA InitFrame == Init => FrameInv
  BY DEF Init, FrameInv, SaidInv, StockInv, StarvedInv, PictureInv, ShownInv,
         EyesAgree, NoFrame, Eyes

\* The runtime and vr_video_vk_recenter touch nothing that FrameInv is about.
LEMMA OthersFrame ==
    ASSUME FrameInv,
           UNCHANGED <<plugin, last, half, active, dualSeen, eye, mode, at, running, img,
                       shown, joined, starved>>
    PROVE  FrameInv'
  BY DEF FrameInv, SaidInv, StockInv, StarvedInv, PictureInv, ShownInv, EyesAgree

\* A report of the runtime: a session that begins now has joined, and one that ends
\* shows nothing more.
LEMMA PumpFrame == SessionInv /\ FrameInv /\ PumpEvent => FrameInv'
<1> SUFFICES ASSUME SessionInv, FrameInv, PumpEvent PROVE FrameInv'
  OBVIOUS
<1>1. at # "game"
      /\ UNCHANGED <<plugin, last, half, active, dualSeen, eye, mode, at, img, shown, starved>>
  BY DEF PumpEvent, pluginVars, coreVars
<1>2. (running' /\ ~joined') => running /\ ~joined
  BY DEF PumpEvent, HandleReady, HandleStopping, HandleLoss
<1>3. joined' \in BOOLEAN /\ running' \in BOOLEAN
  BY PumpSession DEF SessionInv, TypeOK
<1>5. SaidInv' /\ StockInv' /\ StarvedInv'
  BY <1>1 DEF FrameInv, SaidInv, StockInv, StarvedInv
<1>6. PictureInv'
  BY <1>1, <1>2 DEF FrameInv, PictureInv
<1>7. ~joined' => ~joined
  BY DEF PumpEvent, HandleReady, HandleStopping, HandleLoss
<1>8. ShownInv'
  BY <1>1, <1>7 DEF FrameInv, ShownInv, EyesAgree
<1> QED BY <1>5, <1>6, <1>8 DEF FrameInv

\* VidExt_GL_SwapBuffers is called: a first picture makes the others old.
LEMMA SwapFrame ==
    ASSUME SessionInv, FrameInv, NEW stageOnly \in BOOLEAN, Swap(stageOnly)
    PROVE  FrameInv'
<1>1. plugin # "none" /\ at = "game" /\ shown' = NoFrame
      /\ UNCHANGED <<plugin, last, active, dualSeen, running, joined, starved>>
      /\ at' = (IF active THEN "stage" ELSE "game")
  BY DEF Swap, rtVars
<1>2. plugin = "dual" =>
        /\ eye' = half /\ half' = 1 - half
        /\ half = 1 => mode' = 0 /\ img' = [e \in Eyes |-> img[e]]
  BY DEF Swap, NewFrame, SessionInv, TypeOK, Eyes
<1>3. plugin = "mono" =>
        /\ UNCHANGED <<eye, mode, half>>
        /\ img[1] = "none" => img'[1] = "none"
  BY DEF Swap, NewFrame, Eyes
<1>4. plugin \in Plugins /\ half \in {0, 1} /\ img[0] \in Pictures
  BY <1>1 DEF SessionInv, TypeOK, Eyes
<1>6. SaidInv'
  BY <1>1, <1>2, <1>4 DEF SaidInv
<1>7. StockInv'
  BY <1>1, <1>3, <1>4 DEF FrameInv, StockInv, Plugins
<1>8. StarvedInv'
  <2>1. starved = 1 => active /\ plugin = "dual" /\ half = 1
    BY <1>1 DEF FrameInv, StarvedInv
  <2> QED BY <1>1, <1>2, <2>1 DEF FrameInv, StarvedInv
<1>9. PictureInv'
  BY <1>1, <1>2, <1>4 DEF SessionInv, FrameInv, PictureInv, SwapInv, Eyes
<1>10. ShownInv'
  BY <1>1 DEF ShownInv, EyesAgree
<1> QED BY <1>6, <1>7, <1>8, <1>9, <1>10 DEF FrameInv

\* StageEye stages the picture, if a session runs, and VidExt_GL_SwapBuffers returns,
\* holds or goes on to PresentBoth.
LEMMA StageFrame ==
    ASSUME SessionInv, FrameInv, NEW pollFails \in BOOLEAN, StageEye(pollFails)
    PROVE  FrameInv'
<1>1. at = "stage" /\ plugin \in Plugins /\ active /\ half \in {0, 1} /\ starved \in {0, 1}
  BY DEF StageEye, SessionInv, TypeOK, Eyes, FrameInv, SwapInv, StarvedInv
<1>2. UNCHANGED <<plugin, last, half, active, eye, mode, running, shown>>
  BY DEF StageEye, pluginVars
<1>3. /\ at' = (IF mode = 1 \/ (dualSeen /\ Eye = 0 /\ mode # 1) THEN "game" ELSE "present")
      /\ dualSeen' <=> dualSeen \/ mode = 1
  BY DEF StageEye, AfterStage, HoldPresent
<1>4. running => img' = [img EXCEPT ![Eye] = "current"]
  BY DEF StageEye
<1>5. ~joined' <=> ~joined \/ plugin = "mono" \/ half = 1
  BY DEF StageEye, FirstOfFrame
<1>6. starved' = (IF ~running THEN 0
                  ELSE IF at' = "game" /\ starved < 2 THEN starved + 1 ELSE starved)
  BY DEF StageEye
<1>7. img \in [Eyes -> Pictures] /\ Eye \in Eyes
  BY DEF SessionInv, TypeOK, Eye, Eyes
<1>8. plugin = "dual" => eye = 1 - half /\ Eye = eye /\ (eye = 1 => mode = 0)
  BY <1>1 DEF FrameInv, SaidInv, Eye
<1>9. plugin = "mono" => eye = -1 /\ Eye = 0 /\ mode = 0 /\ ~dualSeen /\ img[1] = "none"
  BY <1>1 DEF FrameInv, StockInv, Eye, Plugins
<1>11. SaidInv'
  BY <1>1, <1>2, <1>3, <1>8 DEF SaidInv
<1>12. StockInv'
  <2>1. CASE plugin = "mono"
    <3>1. img'[1] = "none"
      BY <1>7, <1>9, <2>1 DEF StageEye, Eyes
    <3> QED BY <1>2, <1>3, <1>9, <2>1, <3>1 DEF FrameInv, StockInv
  <2>2. CASE plugin = "dual"
    BY <1>2, <2>2 DEF StockInv
  <2> QED BY <1>1, <2>1, <2>2 DEF Plugins
<1>13. StarvedInv'
  <2>1. CASE at' = "present"
    <3>1. starved' \in {0, starved}
      BY <1>6, <2>1
    <3> QED BY <1>1, <1>2, <2>1, <3>1 DEF FrameInv, StarvedInv
  <2>2. CASE at' = "game"
    <3>1. plugin = "dual" /\ half = 1
      BY <1>1, <1>3, <1>8, <1>9, <2>2 DEF Plugins
    <3>2. starved = 0
      BY <1>1, <3>1 DEF FrameInv, StarvedInv
    <3> QED BY <1>1, <1>2, <1>6, <2>2, <3>1, <3>2 DEF StarvedInv
  <2> QED BY <1>3, <2>1, <2>2
<1>14. PictureInv'
  <2>1. CASE plugin = "mono"
    BY <1>2, <1>4, <1>7, <1>9, <2>1 DEF PictureInv, Eyes
  <2>2. CASE plugin = "dual" /\ half = 1
    BY <1>2, <1>4, <1>7, <1>8, <2>2 DEF PictureInv, Eyes
  <2>3. CASE plugin = "dual" /\ half = 0
    BY <1>1, <1>2, <1>4, <1>5, <1>7, <1>8, <2>3 DEF FrameInv, PictureInv, Eyes
  <2> QED BY <1>1, <2>1, <2>2, <2>3 DEF Plugins
<1>15. ShownInv'
  BY <1>1, <1>2 DEF FrameInv, ShownInv, EyesAgree, Plugins
<1> QED BY <1>11, <1>12, <1>13, <1>14, <1>15 DEF FrameInv

\* PresentBoth shows what the two eyes have.
LEMMA PresentFrame ==
    ASSUME SessionInv, FrameInv, NEW pollFails \in BOOLEAN, NEW waitFails \in BOOLEAN,
           NEW shouldRender \in BOOLEAN, NEW located \in Located,
           PresentBoth(pollFails, waitFails, located, shouldRender)
    PROVE  FrameInv'
<1>1. at = "present" /\ at' = "game" /\ starved' = 0 /\ plugin \in Plugins
  BY DEF PresentBoth, SessionInv, TypeOK, FrameInv, SwapInv
<1>2. UNCHANGED <<plugin, last, half, active, dualSeen, eye, mode, running, img, joined>>
  BY DEF PresentBoth, pluginVars, coreVars
<1>3. SaidInv' /\ StockInv' /\ StarvedInv'
  BY <1>1, <1>2 DEF FrameInv, SaidInv, StockInv, StarvedInv
<1>4. PictureInv'
  BY <1>1, <1>2 DEF FrameInv, PictureInv
<1>5. EyesAgree'
  <2>1. CASE shown' = shown
    BY <1>2, <2>1 DEF FrameInv, ShownInv, EyesAgree
  <2>2. CASE shown' = NoFrame
    BY <2>2 DEF EyesAgree
  <2>3. CASE running /\ shown' = [e \in Eyes |-> Sees(e)]
    <3> SUFFICES ASSUME ~joined, plugin = "dual" => dualSeen
                 PROVE  \A e \in Eyes : shown'[e] = "current"
      BY <1>2 DEF EyesAgree
    <3>1. CASE plugin = "mono"
      <4>1. img[0] = "current" /\ img[1] = "none"
        BY <1>1, <2>3, <3>1 DEF FrameInv, PictureInv, StockInv
      <4> QED BY <2>3, <4>1 DEF Sees, Eyes
    <3>2. CASE plugin = "dual"
      <4>1. half = 0
        BY <1>1, <3>2 DEF FrameInv, SaidInv, SessionInv, TypeOK, Eyes
      <4>2. img[0] = "current" /\ img[1] = "current"
        BY <1>1, <2>3, <3>2, <4>1 DEF FrameInv, PictureInv
      <4> QED BY <2>3, <4>2 DEF Sees, Eyes
    <3> QED BY <1>1, <3>1, <3>2 DEF Plugins
  <2> QED BY <2>1, <2>2, <2>3 DEF PresentBoth
<1>6. ShownInv'
  BY <1>1, <1>2, <1>5 DEF ShownInv, Plugins
<1> QED BY <1>3, <1>4, <1>6 DEF FrameInv

\* Every step, as long as no stock plugin comes after a dual one.
LEMMA NextFrame ==
    ASSUME <<"dual", "mono">> \notin Switches
    PROVE  SessionInv /\ FrameInv /\ [Next]_vars => FrameInv'
<1> SUFFICES ASSUME SessionInv, FrameInv, [Next]_vars PROVE FrameInv'
  OBVIOUS
<1>1. CASE RuntimeReady \/ RuntimeStops \/ RuntimeLost
  BY <1>1, OthersFrame
     DEF RuntimeReady, RuntimeStops, RuntimeLost, Report, pluginVars, coreVars
<1>2. CASE GameStep
  BY <1>2, SwapFrame, PumpFrame, StageFrame, PresentFrame DEF GameStep
<1>3. ASSUME NEW p \in Plugins, OpenRom(p) PROVE FrameInv'
  <2>1. plugin = "none" /\ <<last, p>> \in Switches /\ plugin' = p /\ half' = 0
        /\ UNCHANGED <<last, active, dualSeen, eye, mode, at, running, img, shown, joined,
                       starved>>
    BY <1>3 DEF OpenRom, coreVars
  <2>2. at = "game" /\ ~active /\ shown = NoFrame /\ starved = 0
    BY <2>1 DEF FrameInv, SwapInv, ShownInv, StarvedInv, SessionInv, TypeOK
  <2>3. SaidInv' /\ StarvedInv' /\ PictureInv' /\ ShownInv'
    BY <2>1, <2>2 DEF FrameInv, SaidInv, StarvedInv, PictureInv, ShownInv, EyesAgree,
                      Plugins
  <2>4. StockInv'
    BY <2>1 DEF FrameInv, StockInv
  <2> QED BY <2>3, <2>4 DEF FrameInv
<1>4. ASSUME NEW outcome \in {"up", "noBuffer", "fails"}, NEW hasView \in BOOLEAN,
             SetVideoMode(outcome, hasView)
      PROVE  FrameInv'
  <2>1. plugin # "none" /\ at = "game" /\ ~active /\ img' = NoFrame
        /\ UNCHANGED <<plugin, last, half, dualSeen, eye, mode, at, shown, joined, starved>>
    BY <1>4 DEF SetVideoMode, InitPersistent, ShutdownPersistent, pluginVars
  <2>2. ~running /\ starved = 0
    BY <2>1 DEF FrameInv, SwapInv, StarvedInv, SessionInv, TypeOK
  <2>3. ~running'
    BY <1>4, <2>2 DEF SetVideoMode, ShutdownPersistent, DestroyAll
  <2>4. SaidInv' /\ StarvedInv' /\ PictureInv' /\ ShownInv'
    BY <2>1, <2>2, <2>3 DEF FrameInv, SaidInv, StarvedInv, PictureInv, ShownInv,
                            EyesAgree
  <2>5. StockInv'
    BY <2>1 DEF FrameInv, StockInv, NoFrame, Eyes
  <2> QED BY <2>4, <2>5 DEF FrameInv
<1>5. CASE Quit
  <2>1. plugin # "none" /\ at = "game" /\ plugin' = "none" /\ last' = plugin /\ ~active'
        /\ shown' = NoFrame /\ starved' = 0 /\ UNCHANGED <<half, eye, mode, at, joined>>
    BY <1>5 DEF Quit
  <2>2. ~running'
    BY <1>5 DEF Quit, ShutdownPersistent, DestroyAll, SessionInv, SwapInv
  <2>3. SaidInv' /\ StarvedInv' /\ PictureInv' /\ ShownInv'
    BY <2>1, <2>2 DEF SaidInv, StarvedInv, PictureInv, ShownInv, EyesAgree
  <2>4. StockInv'
    <3>1. SUFFICES ASSUME plugin = "mono"
                   PROVE  eye' = -1 /\ mode' = 0 /\ ~dualSeen' /\ img'[1] = "none"
      BY <2>1 DEF StockInv, SessionInv, TypeOK, Plugins
    <3>2. eye = -1 /\ mode = 0 /\ ~dualSeen /\ img[1] = "none"
      BY <3>1 DEF FrameInv, StockInv
    <3> QED BY <1>5, <2>1, <3>2 DEF Quit, ShutdownPersistent, NoFrame, Eyes
  <2> QED BY <2>3, <2>4 DEF FrameInv
<1>6. CASE Recenter
  BY <1>6, OthersFrame DEF Recenter, pluginVars, coreVars
<1>7. CASE UNCHANGED vars
  BY <1>7, OthersFrame DEF vars
<1> QED BY <1>1, <1>2, <1>3, <1>4, <1>5, <1>6, <1>7 DEF Next

\* The gate of VidExt_GL_SwapBuffers does not starve the headset: of two swaps in a row
\* during which the session runs, one gets as far as xrWaitFrame, in every process that loads
\* no stock plugin after a dual one.
THEOREM FramesFlowTheorem ==
    ASSUME <<"dual", "mono">> \notin Switches
    PROVE  Spec => []FramesFlow
<1>1. FrameInv => FramesFlow
  BY DEF FrameInv, StarvedInv, FramesFlow
<1> QED BY <1>1, InitSession, NextSession, InitFrame, NextFrame, PTL DEF Spec

\* The headset never gets a mismatched pair of pictures, in every process that loads no
\* stock plugin after a dual one: once a dual plugin has staged, and always with a stock
\* one, both eyes of an XR frame see the game frame in hand, unless the session began in
\* the middle of it.
THEOREM EyesAgreeTheorem ==
    ASSUME <<"dual", "mono">> \notin Switches
    PROVE  Spec => []EyesAgree
<1>1. FrameInv => EyesAgree
  BY DEF FrameInv, ShownInv
<1> QED BY <1>1, InitSession, NextSession, InitFrame, NextFrame, PTL DEF Spec

=============================================================================
