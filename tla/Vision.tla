------------------------------- MODULE Vision -------------------------------
(***************************************************************************)
(* The camera and the detector in one tab of the board: a Drone's camera   *)
(* pane (SimulatedFeed), the Detect wall and the Vision check.  One page   *)
(* is open at a time; what a surface keeps in React state (view) begins    *)
(* when it mounts and ends when it unmounts, while a question to the       *)
(* browser for the camera, an inference, the loaded detector and its last  *)
(* error outlive it.                                                       *)
(***************************************************************************)
EXTENDS Naturals, Functions

CONSTANTS
  Enough,     \* ENOUGH_FRAMES
  MaxAwaited  \* bound: questions for the camera and inferences not answered yet

ASSUME EnoughAssumption == Enough \in Nat \ {0}

Surface == {"pane", "wall", "check"}

\* What boardDetector() comes to.  Its stand-in is not the object the feeds start from.
Detector == {"http", "yolo", "demo"}
Shown == Detector \cup {"initial"}

\* A getUserMedia not answered yet; here while the mount that asked is still there.
Ask == [by : Surface, here : BOOLEAN]

\* An inference not finished yet; live until the effect that started it is cleaned up.
Run == [by : Surface, with : Shown, source : BOOLEAN, live : BOOLEAN]

VARIABLES
  page,       \* the page that is open
  filming,    \* camera.streaming of the Drone, a simulated one
  secure,     \* window.isSecureContext; without it there is no getUserMedia
  cached,     \* the promise of boardDetector()
  lastError,  \* whether lastError of yolo-onnx-detector holds anything
  asks,       \* Ask -> how many
  runs,       \* Run -> how many
  held,       \* the mounted surface holds a stream it can stop
  stray,      \* surfaces that left a stream running with nobody to stop it
  view,       \* the React state of the mounted surface
  selfTest    \* what is said of it; "left" while it runs for a check that has gone

vars == <<page, filming, secure, cached, lastError, asks, runs, held, stray, view, selfTest>>

Camera == {"idle", "requesting", "live", "denied", "unavailable"}

View == [detector : Shown \cup {"null"}, camera : Camera,
         pixels : BOOLEAN,                         \* the <video> has a frame
         armed : BOOLEAN,                          \* the timer of the next frame
         boxes : {"none", "invented", "seen"},     \* what is drawn, or counted
         frames : 0..Enough, recognised : BOOLEAN] \* framesRun, detectionsSeen > 0

TypeOK ==
  /\ page \in Surface \cup {"away"}
  /\ filming \in BOOLEAN /\ secure \in BOOLEAN /\ lastError \in BOOLEAN /\ held \in BOOLEAN
  /\ cached \in Detector \cup {"unasked", "loading"}
  /\ asks \in [Ask -> Nat] /\ runs \in [Run -> Nat]
  /\ stray \subseteq Surface
  /\ view \in View
  /\ selfTest \in {"none", "running", "left", "passed", "failed"}

\* The bound.
RoomToWait == FoldFunction(+, 0, asks) + FoldFunction(+, 0, runs) < MaxAwaited

-----------------------------------------------------------------------------
(* Mounting and unmounting                                                  *)

\* SimulatedFeed is there while the Drone films, the other two with their page.
Mounted(p, f) == p \in {"wall", "check"} \/ (p = "pane" /\ f)

\* A feed has a picture under one condition: canRunWallDetection, simulated and streaming.
Films(p, f) == p \in {"pane", "wall"} /\ f

\* The feeds start from demoDetector, the check from none; the pane's loop runs at once.
Fresh(p) == [detector |-> IF p = "check" THEN "null" ELSE "initial", camera |-> "idle",
             pixels |-> FALSE, armed |-> p = "pane", boxes |-> "none",
             frames |-> 0, recognised |-> FALSE]

\* Mutant: the detection loops are not cleaned up.
RunsLeftLive == runs

\* cancelled = true in the cleanup of every effect: nobody is there for what was asked.
AsksLeft == [k \in Ask |-> IF k.here THEN 0 ELSE asks[k] + asks[[k EXCEPT !.here = TRUE]]]
RunsLeft == [k \in Run |-> IF k.live THEN 0 ELSE runs[k] + runs[[k EXCEPT !.live = TRUE]]]

AskOf(s) == [by |-> s, here |-> TRUE]

\* A feed asks for the camera as it begins, the check when Start is pressed.
AsksNow(p, f) ==
  IF Films(p, f) /\ secure THEN [AsksLeft EXCEPT ![AskOf(p)] = 1] ELSE AsksLeft

\* The cleanup stops the tracks it holds.
Begins(p, f, v) ==
  /\ runs' = RunsLeft
  /\ asks' = AsksNow(p, f)
  /\ held' = FALSE
  /\ view' = v
  /\ cached' = IF cached = "unasked" /\ Mounted(p, f) THEN "loading" ELSE cached

\* A link of the board.
Go(p) ==
  /\ p # page
  /\ RoomToWait
  /\ page' = p
  /\ Begins(p, filming, Fresh(IF Mounted(p, filming) THEN p ELSE "away"))
  /\ selfTest' = IF selfTest \in {"running", "left"} THEN "left" ELSE "none"
  /\ UNCHANGED <<filming, secure, lastError, stray>>

\* Start camera and Stop camera, on the pane or a strip: Telemetry follows.  The pane's
\* feed comes or goes; the wall stays, with its detector.
Film ==
  /\ RoomToWait
  /\ filming' = ~filming
  /\ CASE page = "pane" -> Begins("pane", ~filming, Fresh(IF filming THEN "away" ELSE "pane"))
       [] page = "wall" ->
            Begins("wall", ~filming, [Fresh("wall") EXCEPT !.detector = view.detector])
       [] OTHER -> UNCHANGED <<runs, asks, held, view, cached>>
  /\ UNCHANGED <<page, secure, lastError, stray, selfTest>>

-----------------------------------------------------------------------------
(* The detector                                                             *)

\* The AI service answers /health, or the weights load, or neither: the load that
\* failed is on record.
DetectorSettles(d) ==
  /\ cached = "loading"
  /\ cached' = d
  /\ lastError' = (lastError \/ d = "demo")
  /\ UNCHANGED <<page, filming, secure, asks, runs, held, stray, view, selfTest>>

\* setDetector: the loop of the old detector is cleaned up, that of the new one starts.
DetectorArrives ==
  /\ Mounted(page, filming)
  /\ cached \in Detector \ {view.detector}
  /\ view' = [view EXCEPT !.detector = cached,
                !.armed = page = "pane" \/ (page = "check" /\ view.camera = "live")]
  /\ runs' = RunsLeft
  /\ UNCHANGED <<page, filming, secure, cached, lastError, asks, held, stray, selfTest>>

-----------------------------------------------------------------------------
(* The camera                                                               *)

\* The check offers Start whenever it is not live, while it is asking too.
PressStart ==
  /\ page = "check" /\ view.camera # "live"
  /\ RoomToWait
  /\ IF secure
       THEN /\ view' = [view EXCEPT !.camera = "requesting"]
            /\ asks' = [asks EXCEPT ![AskOf("check")] = @ + 1]
       ELSE /\ view' = [view EXCEPT !.camera = "unavailable"]
            /\ UNCHANGED asks
  /\ UNCHANGED <<page, filming, secure, cached, lastError, runs, held, stray, selfTest>>

\* stopCamera: the boxes of the last frame and the counts stay.
PressStop ==
  /\ page = "check" /\ view.camera = "live"
  /\ view' = [view EXCEPT !.camera = "idle", !.pixels = FALSE, !.armed = FALSE]
  /\ held' = FALSE
  /\ runs' = RunsLeft
  /\ UNCHANGED <<page, filming, secure, cached, lastError, asks, stray, selfTest>>

\* Mutant: the feed forgets to look at cancelled.
GrantedTooLateKept(s) == stray \cup {s}

\* A feed that has gone stops the tracks it is given; the check keeps them in a ref.
GrantedTooLate(s) == IF s = "check" THEN stray \cup {s} ELSE stray

\* A second stream takes the ref of the first.
GrantedAgain(s) == IF held THEN stray \cup {s} ELSE stray

Granted(k) ==
  /\ asks[k] > 0
  /\ asks' = [asks EXCEPT ![k] = @ - 1]
  /\ IF k.here
       THEN /\ stray' = GrantedAgain(k.by)
            /\ held' = TRUE
            /\ view' = [view EXCEPT !.camera = "live",
                          !.armed = @ \/ (page = "check" /\ view.camera # "live"
                                            /\ view.detector # "null")]
       ELSE /\ stray' = GrantedTooLate(k.by)
            /\ UNCHANGED <<held, view>>
  /\ UNCHANGED <<page, filming, secure, cached, lastError, runs, selfTest>>

\* The browser refuses, or there is no camera.  The check stops its loop with the state.
Refused(k, why) ==
  /\ asks[k] > 0
  /\ asks' = [asks EXCEPT ![k] = @ - 1]
  /\ IF k.here /\ page = "check"
       THEN /\ view' = [view EXCEPT !.camera = why, !.armed = FALSE]
            /\ runs' = RunsLeft
       ELSE UNCHANGED <<view, runs>>
  /\ UNCHANGED <<page, filming, secure, cached, lastError, held, stray, selfTest>>

\* The first frame is decoded.  The wall starts its loop again.
PixelsArrive ==
  /\ held /\ ~view.pixels
  /\ view' = [view EXCEPT !.pixels = TRUE]
  /\ runs' = IF page = "wall" THEN RunsLeft ELSE runs
  /\ UNCHANGED <<page, filming, secure, cached, lastError, asks, held, stray, selfTest>>

-----------------------------------------------------------------------------
(* Inference                                                                *)

RunOf(s, d, src) == [by |-> s, with |-> d, source |-> src, live |-> TRUE]

Started(k) == [runs EXCEPT ![k] = @ + 1]

\* The pane looks at whatever there is, the check waits for pixels.
FrameStarts ==
  /\ page \in {"pane", "check"} /\ view.armed
  /\ page = "check" => view.pixels
  /\ RoomToWait
  /\ runs' = Started(RunOf(page, view.detector, view.pixels))
  /\ view' = [view EXCEPT !.armed = FALSE]
  /\ UNCHANGED <<page, filming, secure, cached, lastError, asks, held, stray, selfTest>>

\* The wall's interval fires whether or not the last inference has finished.
WallTick ==
  /\ page = "wall" /\ view.pixels
  /\ RoomToWait
  /\ runs' = Started(RunOf("wall", view.detector, TRUE))
  /\ UNCHANGED <<page, filming, secure, cached, lastError, asks, held, stray, view, selfTest>>

\* What an inference may come to.  The stand-in invents boxes whatever it is shown.
OfStandIn == {"invented"}

\* A frame is posted to the service, which may also not answer; without pixels nothing is.
OfService(source) == IF source THEN {"seen", "none", "failed"} ELSE {"none"}

\* Boxes the model is sure enough of, or none, or a session that throws.
OfModel(source) == IF source THEN {"seen", "none", "failed"} ELSE {"none"}

ResultsOf(k) ==
  IF k.with \in {"demo", "initial"} THEN OfStandIn
  ELSE IF k.with = "http" THEN OfService(k.source) ELSE OfModel(k.source)

\* The in-browser detector keeps its error and answers with no boxes; the service throws.
Answer(k, r) == IF r = "failed" /\ k.with = "yolo" THEN "none" ELSE r

ErrorAfter(k, r) ==
  IF k.with = "yolo" /\ k.source THEN r = "failed" ELSE lastError

\* Mutant: the next frame is scheduled only after one that found something.
CheckAfterFinding(a) ==
  [view EXCEPT !.armed = a # "none", !.boxes = a,
     !.frames = IF @ < Enough THEN @ + 1 ELSE @, !.recognised = @ \/ a # "none"]

\* A frame of the check is counted unless it threw; the boxes before it then stay.
CheckAfter(a) ==
  IF a = "failed" THEN [view EXCEPT !.armed = TRUE]
  ELSE [view EXCEPT !.armed = TRUE, !.boxes = a,
          !.frames = IF @ < Enough THEN @ + 1 ELSE @,
          !.recognised = @ \/ a # "none"]

FeedAfter(s, a) ==
  [view EXCEPT !.armed = s = "pane", !.boxes = IF a = "failed" THEN "none" ELSE a]

\* Mutant: finally schedules the next frame without looking at cancelled.
ViewAfterAlways(k, a) ==
  IF ~k.live THEN [view EXCEPT !.armed = page = "pane"]
  ELSE IF k.by = "check" THEN CheckAfter(a) ELSE FeedAfter(k.by, a)

\* What a landed inference does to the surface: nothing once it was cleaned up.
ViewAfter(k, a) ==
  IF ~k.live THEN view ELSE IF k.by = "check" THEN CheckAfter(a) ELSE FeedAfter(k.by, a)

FrameLands(k, r) ==
  /\ runs[k] > 0
  /\ r \in ResultsOf(k)
  /\ runs' = [runs EXCEPT ![k] = @ - 1]
  /\ lastError' = ErrorAfter(k, r)
  /\ view' = ViewAfter(k, Answer(k, r))
  /\ UNCHANGED <<page, filming, secure, cached, asks, held, stray, selfTest>>

\* Run a self-test: one frame the page draws, on the detector that is loaded.  The bound
\* is one at a time, though a check opened again would offer another.
SelfTest ==
  /\ page = "check" /\ selfTest \notin {"running", "left"}
  /\ selfTest' = "running"
  /\ UNCHANGED <<page, filming, secure, cached, lastError, asks, runs, held, stray, view>>

SelfTestEnds(r) ==
  /\ selfTest \in {"running", "left"} /\ cached \in Detector
  /\ LET k == RunOf("check", cached, TRUE)
     IN  /\ r \in ResultsOf(k)
         /\ lastError' = ErrorAfter(k, r)
         /\ selfTest' = IF selfTest = "left" THEN "none"
                         ELSE IF r = "failed" \/ lastError' \/ cached = "demo" THEN "failed"
                         ELSE "passed"
  /\ UNCHANGED <<page, filming, secure, cached, asks, runs, held, stray, view>>

-----------------------------------------------------------------------------
Init ==
  /\ page = "away" /\ filming = FALSE /\ secure \in BOOLEAN
  /\ cached = "unasked" /\ lastError = FALSE
  /\ asks = [k \in Ask |-> 0] /\ runs = [k \in Run |-> 0]
  /\ held = FALSE /\ stray = {}
  /\ view = Fresh("away")
  /\ selfTest = "none"

Next ==
  \/ \E p \in Surface \cup {"away"} : Go(p)
  \/ Film
  \/ \E d \in Detector : DetectorSettles(d)
  \/ DetectorArrives
  \/ PressStart
  \/ PressStop
  \/ \E k \in Ask : Granted(k) \/ \E why \in {"denied", "unavailable"} : Refused(k, why)
  \/ PixelsArrive
  \/ FrameStarts
  \/ WallTick
  \/ \E k \in Run, r \in {"seen", "none", "invented", "failed"} : FrameLands(k, r)
  \/ SelfTest
  \/ \E r \in {"seen", "none", "invented", "failed"} : SelfTestEnds(r)

\* Timers fire, inferences finish and a detector loads or does not.
Fairness ==
  /\ WF_vars(FrameStarts)
  /\ WF_vars(PixelsArrive)
  /\ WF_vars(\E k \in Run, r \in {"seen", "none", "invented", "failed"} : FrameLands(k, r))

Spec == Init /\ [][Next]_vars
FairSpec == Spec /\ Fairness

-----------------------------------------------------------------------------
(* What the Vision check says                                               *)

\* verdictFor
Verdict ==
  IF view.detector = "null" THEN "checking"
  ELSE IF view.detector = "demo" \/ ~secure \/ view.camera \in {"denied", "unavailable"}
    THEN "fail"
  ELSE IF view.camera = "idle" THEN "not-started"
  ELSE IF view.camera = "requesting" \/ view.frames = 0 THEN "checking"
  ELSE IF view.recognised THEN "pass"
  ELSE IF view.frames < Enough THEN "checking"
  ELSE "inconclusive"

-----------------------------------------------------------------------------
(* Properties                                                               *)

\* A feed whose page was left, or whose Drone stopped filming, before the browser gave it
\* the camera leaves no track running; nor does one that had it.
FeedsPutTheLightOut ==
  /\ stray \subseteq {"check"}
  /\ held => page = "check" \/ Films(page, filming)

\* The loops of the pane and of the check never pile up: one inference of the mounted
\* surface at a time, and none with the next one's timer running, though the detector
\* under them is replaced and the camera stops and starts.
OneFrameAtATime ==
  \A k, l \in {r \in Run : r.live /\ r.by # "wall" /\ runs[r] > 0} :
    k = l /\ runs[k] = 1 /\ ~view.armed

\* A frame of the check's own camera, one it was still looking for, has something in it
\* for the detector the check names.
Finds ==
  /\ page = "check" /\ view.camera = "live" /\ view'.boxes # "none"
  /\ \E k \in Run : /\ runs'[k] < runs[k]
                    /\ k.by = "check" /\ k.live /\ k.source /\ k.with = view.detector

CameraComesOn ==
  \E k \in Ask : k.by = "check" /\ k.here /\ asks'[k] < asks[k] /\ view'.camera = "live"

\* "Working" is earned.  What is counted as recognised was found while this check has
\* been open, its camera on, by the detector it still names: never by an inference of a
\* camera stopped meanwhile, of another page or of an earlier visit.  So "Working" comes up
\* as a frame lands, and never of the stand-in; or as the camera comes on again at a check
\* that had earned it.  Stopping leaves the counts (stopCamera), so no frame of the new
\* camera need have been looked at by then.
PassIsEarned ==
  [][/\ view'.recognised =>
          \/ Finds
          \/ view.recognised /\ page' = page /\ view'.detector = view.detector
     /\ Verdict # "pass" /\ Verdict' = "pass" =>
          /\ page' = "check" /\ view'.detector \in {"http", "yolo"}
          /\ Finds \/ (view.recognised /\ CameraComesOn)]_vars

\* With the in-browser model and a camera that stays on, the check comes to an answer.
CheckAnswers ==
  <>[](page = "check" /\ view.camera = "live" /\ view.detector = "yolo")
    => <>[](Verdict \in {"pass", "fail", "inconclusive"})

=============================================================================
