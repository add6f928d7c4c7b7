--------------------------- MODULE Vision_proofs ---------------------------
(***************************************************************************)
(* Proofs about Vision.  A feed's question to the browser outlives the     *)
(* feed, and so does an inference: what makes both harmless is that what   *)
(* is still marked as wanted was asked by the surface that is open, under  *)
(* the detector it shows and, at the check, the camera that is on.         *)
(***************************************************************************)
EXTENDS Vision, TLAPS

\* What was asked and is still wanted, was asked by what is open; a feed asks once.
Wanted ==
  \A k \in Ask : k.here /\ asks[k] > 0 =>
    /\ k.by = page
    /\ k.by # "check" => Films(page, filming) /\ asks[k] = 1 /\ ~held

\* An inference still wanted is of the surface, the detector and the camera in use.
Current ==
  /\ \A k \in Run : k.live /\ runs[k] > 0 =>
       /\ k.by = page
       /\ k.with = view.detector
       /\ k.by = "check" => k.source /\ view.camera = "live"
  /\ page = "check" /\ view.armed => view.detector # "null" /\ view.camera = "live"
  /\ page = "wall" => ~view.armed
  /\ view.armed => view.detector # "null"
  /\ ~Mounted(page, filming) => ~held /\ ~view.pixels
  /\ view.detector = "null" => page = "check"

IInv == TypeOK /\ Wanted /\ FeedsPutTheLightOut /\ Current /\ OneFrameAtATime

-----------------------------------------------------------------------------
\* The bags of what is left after a cleanup are bags, and nothing in them is wanted.
LEMMA CleanedUp ==
  ASSUME TypeOK
  PROVE  /\ AsksLeft \in [Ask -> Nat] /\ RunsLeft \in [Run -> Nat]
         /\ \A k \in Ask : k.here => AsksLeft[k] = 0
         /\ \A k \in Run : k.live => RunsLeft[k] = 0
<1>1. \A k \in Ask : [k EXCEPT !.here = TRUE] \in Ask
  BY DEF Ask
<1>2. \A k \in Run : [k EXCEPT !.live = TRUE] \in Run
  BY DEF Run
<1> QED BY <1>1, <1>2 DEF TypeOK, AsksLeft, RunsLeft

\* Leaving a page, or a Drone that starts or stops filming, begins a surface in IInv.
LEMMA BeginsKeeps ==
  ASSUME TypeOK, FeedsPutTheLightOut,
         NEW p, NEW f \in BOOLEAN, NEW v \in View,
         page' = p, filming' = f, p \in Surface \cup {"away"},
         UNCHANGED <<secure, lastError, stray>>,
         selfTest' \in {"none", "running", "left", "passed", "failed"},
         Begins(p, f, v),
         ~v.pixels, v.frames = 0,
         p # "pane" => ~v.armed,
         p # "check" => v.detector # "null"
  PROVE  IInv'
<1>0. /\ AsksLeft \in [Ask -> Nat] /\ RunsLeft \in [Run -> Nat]
      /\ \A k \in Ask : k.here => AsksLeft[k] = 0
      /\ \A k \in Run : k.live => RunsLeft[k] = 0
  BY CleanedUp
<1>1. p \in Surface => AskOf(p) \in Ask
  BY DEF AskOf, Ask
<1>2. asks' \in [Ask -> Nat]
  BY <1>0, <1>1 DEF Begins, AsksNow, Films, Surface
<1>3. TypeOK'
  BY <1>0, <1>2 DEF TypeOK, Begins
<1>4. Wanted'
  <2> SUFFICES ASSUME NEW k \in Ask, k.here, asks'[k] > 0
               PROVE  k.by = p /\ (k.by # "check" => Films(p, f) /\ asks'[k] = 1 /\ ~held')
    BY DEF Wanted
  <2>1. Films(p, f) /\ secure /\ k = AskOf(p)
    BY <1>0 DEF Begins, AsksNow
  <2> QED BY <1>0, <1>1, <2>1 DEF Begins, AsksNow, AskOf, Films, Surface
<1>5. FeedsPutTheLightOut' /\ Current' /\ OneFrameAtATime'
  BY <1>0 DEF Begins, FeedsPutTheLightOut, Current, OneFrameAtATime
<1> QED BY <1>3, <1>4, <1>5 DEF IInv

LEMMA FreshIsView ==
  ASSUME NEW p \in Surface \cup {"away"}
  PROVE  Fresh(p) \in View /\ ~Fresh(p).pixels /\ Fresh(p).frames = 0
         /\ ~Fresh(p).recognised /\ (p = "check" => Fresh(p).detector = "null")
         /\ Fresh(p).detector \notin Detector
         /\ (p # "pane" => ~Fresh(p).armed) /\ (p # "check" => Fresh(p).detector # "null")
<1>1. 0 \in 0..Enough
  BY EnoughAssumption
<1>2. CASE p = "check"
  BY <1>1, <1>2 DEF Fresh, View, Camera, Detector, Shown
<1>3. CASE p # "check"
  BY <1>1, <1>3 DEF Fresh, View, Camera, Detector, Shown
<1> QED BY <1>2, <1>3

-----------------------------------------------------------------------------
(* IInv is inductive: one lemma for each group of steps.                    *)

LEMMA InitHolds == Init => IInv
<1> SUFFICES ASSUME Init PROVE IInv
  OBVIOUS
<1>1. view \in View /\ ~view.pixels /\ ~view.armed /\ view.detector # "null"
  <2>1. "away" \in Surface \cup {"away"} /\ view = Fresh("away")
    BY DEF Init
  <2> QED BY <2>1, FreshIsView
<1>2. asks \in [Ask -> Nat] /\ runs \in [Run -> Nat]
      /\ (\A k \in Ask : asks[k] = 0) /\ (\A k \in Run : runs[k] = 0)
  BY DEF Init
<1>3. TypeOK
  BY <1>1, <1>2 DEF Init, TypeOK
<1>4. ~Mounted("away", FALSE) /\ ~held /\ stray = {} /\ page = "away"
  BY DEF Init, Mounted
<1>5. Wanted /\ FeedsPutTheLightOut /\ OneFrameAtATime
  BY <1>1, <1>2, <1>4 DEF Wanted, FeedsPutTheLightOut, OneFrameAtATime
<1>6. Current
  BY <1>1, <1>2, <1>4 DEF Current
<1> QED BY <1>3, <1>5, <1>6 DEF IInv

LEMMA PagesKeep ==
  ASSUME IInv, (\E p \in Surface \cup {"away"} : Go(p)) \/ Film
  PROVE  IInv'
<1>1. ASSUME NEW p \in Surface \cup {"away"}, Go(p) PROVE IInv'
  <2> DEFINE q == IF Mounted(p, filming) THEN p ELSE "away"
  <2>1. q \in Surface \cup {"away"}
    OBVIOUS
  <2>2. /\ Fresh(q) \in View /\ ~Fresh(q).pixels /\ Fresh(q).frames = 0
        /\ (q # "pane" => ~Fresh(q).armed) /\ (q # "check" => Fresh(q).detector # "null")
    BY <2>1, FreshIsView
  <2>3. Begins(p, filming, Fresh(q))
    BY <1>1 DEF Go
  <2>4. selfTest' \in {"none", "running", "left", "passed", "failed"}
    BY <1>1 DEF Go
  <2>5. /\ page' = p /\ filming' = filming /\ filming \in BOOLEAN
        /\ UNCHANGED <<secure, lastError, stray>>
    BY <1>1 DEF Go, IInv, TypeOK
  <2> HIDE DEF q
  <2>6. (p # "pane" => q # "pane") /\ (p # "check" => q # "check")
    BY DEF q
  <2> QED BY <2>2, <2>3, <2>4, <2>5, <2>6, BeginsKeeps DEF IInv
<1>2. ASSUME Film PROVE IInv'
  <2>1. /\ page' = page /\ page \in Surface \cup {"away"} /\ filming' = ~filming
        /\ filming' \in BOOLEAN /\ UNCHANGED <<secure, lastError, stray, selfTest>>
        /\ selfTest' \in {"none", "running", "left", "passed", "failed"}
    BY <1>2 DEF Film, IInv, TypeOK
  <2>2. CASE page = "pane"
    <3> DEFINE q == IF filming THEN "away" ELSE "pane"
    <3>1. q \in Surface \cup {"away"} /\ q # "check"
      BY DEF Surface
    <3>2. Fresh(q) \in View /\ ~Fresh(q).pixels /\ Fresh(q).frames = 0
          /\ Fresh(q).detector # "null"
      BY <3>1, FreshIsView
    <3>3. Begins("pane", ~filming, Fresh(q))
      BY <1>2, <2>2 DEF Film
    <3> HIDE DEF q
    <3> QED BY <2>1, <2>2, <3>2, <3>3, BeginsKeeps DEF IInv
  <2>3. CASE page = "wall"
    <3> DEFINE v == [Fresh("wall") EXCEPT !.detector = view.detector]
    <3>1. view.detector # "null" /\ view.detector \in Shown \cup {"null"}
      BY <2>3 DEF IInv, Current, TypeOK, View
    <3>2. Fresh("wall") \in View /\ ~Fresh("wall").pixels /\ Fresh("wall").frames = 0
          /\ ~Fresh("wall").armed
      BY FreshIsView DEF Surface
    <3>3. v \in View /\ ~v.pixels /\ v.frames = 0 /\ ~v.armed /\ v.detector # "null"
      BY <3>1, <3>2 DEF View
    <3>4. Begins("wall", ~filming, v)
      BY <1>2, <2>3 DEF Film
    <3> HIDE DEF v
    <3> QED BY <2>1, <2>3, <3>3, <3>4, BeginsKeeps DEF IInv
  <2>4. CASE page \notin {"pane", "wall"}
    <3>1. UNCHANGED <<page, runs, asks, held, view, cached, secure, lastError, stray, selfTest>>
      BY <1>2, <2>4 DEF Film
    <3> QED BY <2>1, <2>4, <3>1 DEF IInv, TypeOK, Wanted, FeedsPutTheLightOut, Current,
                                    OneFrameAtATime, Films, Mounted
  <2> QED BY <2>2, <2>3, <2>4
<1> QED BY <1>1, <1>2

LEMMA DetectorKeeps ==
  ASSUME IInv, (\E d \in Detector : DetectorSettles(d)) \/ DetectorArrives
  PROVE  IInv'
<1>1. ASSUME NEW d \in Detector, DetectorSettles(d) PROVE IInv'
  <2>1. TypeOK'
    BY <1>1 DEF DetectorSettles, IInv, TypeOK
  <2> QED BY <1>1, <2>1 DEF DetectorSettles, IInv, Wanted, FeedsPutTheLightOut, Current,
                              OneFrameAtATime
<1>2. ASSUME DetectorArrives PROVE IInv'
  <2>1. /\ RunsLeft \in [Run -> Nat]
        /\ \A k \in Run : k.live => RunsLeft[k] = 0
    BY CleanedUp DEF IInv
  <2>2. cached \in Detector /\ cached # "null"
    BY <1>2 DEF DetectorArrives, Detector
  <2>3. view' \in View /\ view'.detector = cached /\ view'.camera = view.camera
        /\ view'.pixels = view.pixels
        /\ view'.armed = (page = "pane" \/ (page = "check" /\ view.camera = "live"))
    BY <1>2, <2>2 DEF DetectorArrives, IInv, TypeOK, View, Shown
  <2>4. TypeOK'
    BY <1>2, <2>1, <2>3 DEF DetectorArrives, IInv, TypeOK
  <2>5. \A k \in Run : ~(k.live /\ runs'[k] > 0)
    BY <1>2, <2>1 DEF DetectorArrives
  <2>6. OneFrameAtATime'
    BY <2>5 DEF OneFrameAtATime
  <2>7. UNCHANGED <<page, filming, held>> /\ Mounted(page, filming)
    BY <1>2 DEF DetectorArrives
  <2>8. Current'
    BY <2>2, <2>3, <2>5, <2>7 DEF IInv, Current, Mounted
  <2> QED BY <1>2, <2>4, <2>6, <2>8 DEF DetectorArrives, IInv, Wanted, FeedsPutTheLightOut
<1> QED BY <1>1, <1>2

LEMMA CameraKeeps ==
  ASSUME IInv,
         \/ PressStart \/ PressStop \/ PixelsArrive
         \/ \E k \in Ask : Granted(k) \/ \E why \in {"denied", "unavailable"} : Refused(k, why)
  PROVE  IInv'
<1>0. /\ RunsLeft \in [Run -> Nat]
      /\ \A k \in Run : k.live => RunsLeft[k] = 0
  BY CleanedUp DEF IInv
<1>1. ASSUME PressStart PROVE IInv'
  <2>1. AskOf("check") \in Ask
    BY DEF AskOf, Ask, Surface
  <2>2. /\ view' \in View /\ view'.camera # "live" /\ view'.detector = view.detector
        /\ view'.armed = view.armed /\ view'.pixels = view.pixels
    BY <1>1 DEF PressStart, IInv, TypeOK, View, Camera
  <2>3. asks' \in [Ask -> Nat]
    BY <1>1, <2>1 DEF PressStart, IInv, TypeOK
  <2>4. TypeOK'
    BY <1>1, <2>2, <2>3 DEF PressStart, IInv, TypeOK
  <2>5. Wanted'
    BY <1>1, <2>1 DEF PressStart, IInv, Wanted, TypeOK, AskOf
  <2>6. FeedsPutTheLightOut' /\ Current' /\ OneFrameAtATime'
    BY <1>1, <2>2 DEF PressStart, IInv, FeedsPutTheLightOut, Current, OneFrameAtATime
  <2> QED BY <2>4, <2>5, <2>6 DEF IInv
<1>2. ASSUME PressStop PROVE IInv'
  <2>1. /\ view' \in View /\ view'.detector = view.detector /\ ~view'.armed
        /\ ~view'.pixels
    BY <1>2 DEF PressStop, IInv, TypeOK, View, Camera
  <2>2. TypeOK'
    BY <1>0, <1>2, <2>1 DEF PressStop, IInv, TypeOK
  <2> QED BY <1>0, <1>2, <2>1, <2>2 DEF PressStop, IInv, Wanted, FeedsPutTheLightOut,
                     Current, OneFrameAtATime
<1>3. ASSUME PixelsArrive PROVE IInv'
  <2>1. /\ view' \in View /\ view'.detector = view.detector /\ view'.armed = view.armed
        /\ view'.camera = view.camera
    BY <1>3 DEF PixelsArrive, IInv, TypeOK, View
  <2>2. runs' = RunsLeft \/ runs' = runs
    BY <1>3 DEF PixelsArrive
  <2>3. TypeOK'
    BY <1>0, <1>3, <2>1, <2>2 DEF PixelsArrive, IInv, TypeOK
  <2>4. Current' /\ OneFrameAtATime'
    BY <1>0, <1>3, <2>1, <2>2 DEF PixelsArrive, IInv, Current, OneFrameAtATime
  <2> QED BY <1>3, <2>3, <2>4 DEF PixelsArrive, IInv, Wanted, FeedsPutTheLightOut
<1>4. ASSUME NEW k \in Ask, Granted(k) PROVE IInv'
  <2>1. asks' \in [Ask -> Nat] /\ asks'[k] = asks[k] - 1
        /\ \A l \in Ask : l # k => asks'[l] = asks[l]
    BY <1>4 DEF Granted, IInv, TypeOK
  <2>2. CASE k.here
    <3>1. k.by = page /\ (k.by # "check" => Films(page, filming) /\ asks[k] = 1 /\ ~held)
      BY <1>4, <2>2 DEF Granted, IInv, Wanted
    <3>2. stray' = GrantedAgain(page) /\ held'
      BY <1>4, <2>2, <3>1 DEF Granted
    <3>3. stray' \subseteq {"check"} /\ stray' \subseteq Surface
      BY <3>1, <3>2 DEF GrantedAgain, IInv, FeedsPutTheLightOut, Surface
    <3>4. /\ view' \in View /\ view'.camera = "live" /\ view'.detector = view.detector
          /\ view'.pixels = view.pixels
          /\ view'.armed = (view.armed \/ (page = "check" /\ view.camera # "live"
                                             /\ view.detector # "null"))
      BY <1>4, <2>2 DEF Granted, IInv, TypeOK, View, Camera
    <3>5. TypeOK'
      BY <1>4, <2>1, <2>2, <3>2, <3>3, <3>4 DEF Granted, IInv, TypeOK
    <3>6. Wanted'
      <4>1. k.by # "check" => \A l \in Ask : l.here /\ asks'[l] > 0 => l = k
        BY <2>2, <3>1, <2>1 DEF IInv, Wanted, Ask
      <4> QED BY <1>4, <2>1, <3>1, <4>1 DEF Granted, IInv, Wanted, TypeOK
    <3>7. FeedsPutTheLightOut'
      BY <1>4, <3>1, <3>3 DEF Granted, FeedsPutTheLightOut
    <3>8. Mounted(page, filming)
      BY <3>1 DEF Mounted, Films, Ask, Surface
    <3>9. Current' /\ OneFrameAtATime'
      BY <1>4, <3>4, <3>8 DEF Granted, IInv, Current, OneFrameAtATime
    <3> QED BY <3>5, <3>6, <3>7, <3>9 DEF IInv
  <2>3. CASE ~k.here
    <3>1. UNCHANGED <<held, view>> /\ stray' = GrantedTooLate(k.by)
      BY <1>4, <2>3 DEF Granted
    <3>2. stray' \subseteq {"check"} /\ stray' \subseteq Surface
      BY <3>1 DEF GrantedTooLate, IInv, FeedsPutTheLightOut, Surface
    <3>3. TypeOK'
      BY <1>4, <2>1, <3>1, <3>2 DEF Granted, IInv, TypeOK
    <3> QED BY <1>4, <2>1, <2>3, <3>1, <3>2, <3>3 DEF Granted, IInv, Wanted,
                       FeedsPutTheLightOut, Current, OneFrameAtATime
  <2> QED BY <2>2, <2>3
<1>5. ASSUME NEW k \in Ask, NEW why \in {"denied", "unavailable"}, Refused(k, why)
      PROVE  IInv'
  <2>1. asks' \in [Ask -> Nat] /\ asks'[k] = asks[k] - 1
        /\ \A l \in Ask : l # k => asks'[l] = asks[l]
    BY <1>5 DEF Refused, IInv, TypeOK
  <2>2. Wanted'
    <3>1. \A l \in Ask : asks'[l] > 0 => asks[l] > 0 /\ (asks[l] = 1 => l # k)
      BY <2>1 DEF IInv, TypeOK
    <3> QED BY <1>5, <2>1, <3>1 DEF Refused, IInv, Wanted
  <2>3. CASE k.here /\ page = "check"
    <3>1. /\ view' \in View /\ view'.detector = view.detector /\ ~view'.armed
          /\ runs' = RunsLeft
      BY <1>5, <2>3 DEF Refused, IInv, TypeOK, View, Camera
    <3>2. TypeOK'
      BY <1>0, <1>5, <2>1, <3>1 DEF Refused, IInv, TypeOK
    <3> QED BY <1>0, <1>5, <2>2, <2>3, <3>1, <3>2 DEF Refused, IInv, FeedsPutTheLightOut,
                       Current, OneFrameAtATime, Mounted
  <2>4. CASE ~(k.here /\ page = "check")
    <3>1. UNCHANGED <<view, runs>>
      BY <1>5, <2>4 DEF Refused
    <3> QED BY <1>5, <2>1, <2>2, <3>1 DEF Refused, IInv, TypeOK, FeedsPutTheLightOut,
                       Current, OneFrameAtATime
  <2> QED BY <2>3, <2>4
<1> QED BY <1>1, <1>2, <1>3, <1>4, <1>5

LEMMA FrameStartKeeps ==
  ASSUME IInv, FrameStarts \/ WallTick
  PROVE  IInv'
<1> DEFINE source == IF page = "wall" THEN TRUE ELSE view.pixels
           k == RunOf(page, view.detector, source)
<1>1. page \in Surface /\ view.detector \in Shown /\ source \in BOOLEAN
  BY DEF FrameStarts, WallTick, IInv, TypeOK, Current, View, Surface, Mounted
<1>2. k \in Run /\ k.by = page /\ k.with = view.detector /\ k.source = source /\ k.live
  BY <1>1 DEF RunOf, Run
<1>3. runs' = [runs EXCEPT ![k] = @ + 1]
  BY DEF FrameStarts, WallTick, Started
<1>4. /\ view' \in View /\ view'.detector = view.detector /\ view'.camera = view.camera
      /\ view'.pixels = view.pixels /\ ~view'.armed
  BY DEF FrameStarts, WallTick, IInv, TypeOK, View, Current
<1>5. UNCHANGED <<page, filming, secure, cached, lastError, asks, held, stray, selfTest>>
  BY DEF FrameStarts, WallTick
<1>6. page = "check" => source /\ view.camera = "live"
  BY DEF FrameStarts, WallTick, IInv, Current
<1>7. page # "wall" => view.armed
  BY DEF FrameStarts, WallTick
<1> HIDE DEF k, source
<1>8. /\ runs' \in [Run -> Nat] /\ runs'[k] = runs[k] + 1
      /\ \A l \in Run : l # k => runs'[l] = runs[l]
  BY <1>2, <1>3 DEF IInv, TypeOK
<1>9. TypeOK'
  BY <1>4, <1>5, <1>8 DEF IInv, TypeOK
<1>10. Current'
  BY <1>2, <1>4, <1>5, <1>6, <1>8 DEF IInv, Current, Mounted
<1>11. OneFrameAtATime'
  <2>1. ASSUME NEW l \in Run, l.live, l.by # "wall", runs[l] > 0
        PROVE  FALSE
    BY <1>7, <2>1 DEF IInv, OneFrameAtATime, Current
  <2>2. \A l \in Run : l.live /\ l.by # "wall" /\ runs'[l] > 0 => l = k /\ runs[k] = 0
    BY <2>1, <1>2, <1>8 DEF IInv, TypeOK
  <2> QED BY <2>2, <1>4, <1>8 DEF OneFrameAtATime
<1> QED BY <1>5, <1>9, <1>10, <1>11 DEF IInv, Wanted, FeedsPutTheLightOut

LEMMA FrameLandKeeps ==
  ASSUME IInv, NEW k \in Run, NEW r \in {"seen", "none", "invented", "failed"},
         FrameLands(k, r)
  PROVE  IInv'
<1> DEFINE a == Answer(k, r)
<1>1. a \in {"seen", "none", "invented", "failed"}
  BY DEF Answer
<1>2. /\ runs' \in [Run -> Nat] /\ runs[k] > 0 /\ runs'[k] = runs[k] - 1
      /\ \A l \in Run : l # k => runs'[l] = runs[l]
  BY DEF FrameLands, IInv, TypeOK
<1>3. UNCHANGED <<page, filming, secure, cached, asks, held, stray, selfTest>>
      /\ view' = ViewAfter(k, a)
  BY DEF FrameLands
<1>4. lastError' \in BOOLEAN
  BY DEF FrameLands, ErrorAfter, IInv, TypeOK
<1> HIDE DEF a
<1>5. CASE ~k.live
  <2>1. view' = view
    BY <1>3, <1>5 DEF ViewAfter
  <2>2. TypeOK'
    BY <1>2, <1>3, <1>4, <2>1 DEF IInv, TypeOK
  <2>3. \A l \in Run : l.live => runs'[l] = runs[l]
    BY <1>2, <1>5
  <2>4. Current' /\ OneFrameAtATime'
    BY <1>3, <2>1, <2>3 DEF IInv, Current, OneFrameAtATime, Mounted
  <2> QED BY <1>3, <2>2, <2>4 DEF IInv, Wanted, FeedsPutTheLightOut
<1>6. CASE k.live
  <2>1. /\ k.by = page /\ k.with = view.detector /\ view.detector # "null"
        /\ k.by = "check" => k.source /\ view.camera = "live"
    BY <1>2, <1>6 DEF IInv, Current, Run, Detector, Shown
  <2>2. /\ view' \in View /\ view'.detector = view.detector /\ view'.camera = view.camera
        /\ view'.pixels = view.pixels /\ (page = "wall" => ~view'.armed)
    <3>1. CASE k.by = "check"
      <4>1. view' = CheckAfter(a) /\ page = "check"
        BY <1>3, <1>6, <2>1, <3>1 DEF ViewAfter
      <4>2. \A n \in 0..Enough : n < Enough => n + 1 \in 0..Enough
        BY EnoughAssumption
      <4> QED BY <1>1, <4>1, <4>2 DEF CheckAfter, IInv, TypeOK, View
    <3>2. CASE k.by # "check"
      <4>1. view' = FeedAfter(page, a)
        BY <1>3, <1>6, <2>1, <3>2 DEF ViewAfter
      <4> QED BY <1>1, <4>1 DEF FeedAfter, IInv, TypeOK, View
    <3> QED BY <3>1, <3>2
  <2>3. TypeOK'
    BY <1>2, <1>3, <1>4, <2>2 DEF IInv, TypeOK
  <2>4. Current'
    BY <1>2, <1>3, <2>1, <2>2 DEF IInv, Current, Mounted, TypeOK
  <2>5. OneFrameAtATime'
    <3>1. ASSUME NEW l \in Run, l.live, l.by # "wall", runs'[l] > 0 PROVE FALSE
      <4>1. runs[l] > 0
        BY <3>1, <1>2 DEF IInv, TypeOK
      <4>2. l.by = k.by
        BY <3>1, <4>1, <2>1 DEF IInv, Current
      <4>3. l = k /\ runs[k] = 1
        BY <1>2, <1>6, <3>1, <4>1, <4>2 DEF IInv, OneFrameAtATime
      <4> QED BY <3>1, <4>3, <1>2
    <3> QED BY <3>1 DEF OneFrameAtATime
  <2> QED BY <1>3, <2>3, <2>4, <2>5 DEF IInv, Wanted, FeedsPutTheLightOut
<1> QED BY <1>5, <1>6

LEMMA SelfTestKeeps ==
  ASSUME IInv,
         SelfTest \/ \E r \in {"seen", "none", "invented", "failed"} : SelfTestEnds(r)
  PROVE  IInv'
<1>1. UNCHANGED <<page, filming, secure, cached, asks, runs, held, stray, view>>
  BY DEF SelfTest, SelfTestEnds
<1>2. /\ selfTest' \in {"none", "running", "left", "passed", "failed"}
      /\ lastError' \in BOOLEAN
  BY DEF SelfTest, SelfTestEnds, ErrorAfter, IInv, TypeOK
<1> QED BY <1>1, <1>2 DEF IInv, TypeOK, Wanted, FeedsPutTheLightOut, Current,
                          OneFrameAtATime

LEMMA NextHolds == IInv /\ [Next]_vars => IInv'
<1> SUFFICES ASSUME IInv, [Next]_vars PROVE IInv'
  OBVIOUS
<1>1. CASE UNCHANGED vars
  BY <1>1 DEF vars, IInv, TypeOK, Wanted, FeedsPutTheLightOut, Current, OneFrameAtATime
<1>2. CASE (\E p \in Surface \cup {"away"} : Go(p)) \/ Film
  BY <1>2, PagesKeep
<1>3. CASE (\E d \in Detector : DetectorSettles(d)) \/ DetectorArrives
  BY <1>3, DetectorKeeps
<1>4. CASE \/ PressStart \/ PressStop \/ PixelsArrive
           \/ \E k \in Ask : \/ Granted(k)
                             \/ \E why \in {"denied", "unavailable"} : Refused(k, why)
  BY <1>4, CameraKeeps
<1>5. CASE FrameStarts \/ WallTick
  BY <1>5, FrameStartKeeps
<1>6. CASE \E k \in Run, r \in {"seen", "none", "invented", "failed"} : FrameLands(k, r)
  BY <1>6, FrameLandKeeps
<1>7. CASE SelfTest \/ \E r \in {"seen", "none", "invented", "failed"} : SelfTestEnds(r)
  BY <1>7, SelfTestKeeps
<1> QED BY <1>1, <1>2, <1>3, <1>4, <1>5, <1>6, <1>7 DEF Next

LEMMA AlwaysIInv == Spec => []IInv
BY InitHolds, NextHolds, PTL DEF Spec

-----------------------------------------------------------------------------
\* A feed that has gone, or whose Drone stopped filming, leaves no camera light on.
THEOREM FeedsLeaveNoLight == Spec => []FeedsPutTheLightOut
<1>1. IInv => FeedsPutTheLightOut
  BY DEF IInv
<1> QED BY <1>1, AlwaysIInv, PTL

\* The loops of the pane and the check never have two inferences of their own on the way.
THEOREM LoopsNeverPileUp == Spec => []OneFrameAtATime
<1>1. IInv => OneFrameAtATime
  BY DEF IInv
<1> QED BY <1>1, AlwaysIInv, PTL

-----------------------------------------------------------------------------
(* What the check counts, and what it says of it.                           *)

\* What counts as recognised was counted at the check that is open, in a frame and under
\* the detector it names, which is the one that was loaded.
Counted ==
  /\ view.recognised => page = "check" /\ view.detector # "null" /\ view.frames > 0
  /\ page = "check" => view.detector = "null" \/ (view.detector = cached /\ cached \in Detector)

CountIsEarned ==
  view'.recognised => Finds \/ (view.recognised /\ page' = page /\ view'.detector = view.detector)

WordIsEarned ==
  Verdict # "pass" /\ Verdict' = "pass" =>
    /\ page' = "check" /\ view'.detector \in {"http", "yolo"}
    /\ Finds \/ (view.recognised /\ CameraComesOn)

Earned == Counted' /\ CountIsEarned /\ WordIsEarned

\* A step that leaves alone what the verdict is made of.
LEMMA NothingSaid ==
  ASSUME Counted, UNCHANGED <<page, secure>>, cached' = cached \/ cached \notin Detector,
         view'.detector = view.detector, view'.camera = view.camera,
         view'.frames = view.frames, view'.recognised = view.recognised
  PROVE  Earned
BY DEF Earned, Counted, CountIsEarned, WordIsEarned, Verdict, Detector

\* A step that leaves nothing recognised, or a camera that is not live.
LEMMA NotPassing ==
  ASSUME Counted',
         \/ ~view'.recognised
         \/ /\ UNCHANGED page /\ view'.camera # "live"
            /\ view'.recognised = view.recognised /\ view'.detector = view.detector
            /\ view'.camera \in Camera
  PROVE  Earned
BY DEF Earned, CountIsEarned, WordIsEarned, Verdict, Camera

LEMMA PagesEarn ==
  ASSUME IInv, Counted, (\E p \in Surface \cup {"away"} : Go(p)) \/ Film
  PROVE  Earned
<1>1. ASSUME NEW p, NEW q \in Surface \cup {"away"}, NEW f, page' = p, Begins(p, f, Fresh(q)),
             p = "check" => q = "check"
      PROVE  Earned
  <2>1. view' = Fresh(q) /\ ~Fresh(q).recognised /\ (q = "check" => Fresh(q).detector = "null")
    BY <1>1 DEF Begins, Fresh
  <2>2. Counted'
    BY <1>1, <2>1 DEF Counted
  <2> QED BY <2>1, <2>2, NotPassing
<1>2. ASSUME NEW p \in Surface \cup {"away"}, Go(p) PROVE Earned
  <2> DEFINE q == IF Mounted(p, filming) THEN p ELSE "away"
  <2>1. page' = p /\ Begins(p, filming, Fresh(q)) /\ q \in Surface \cup {"away"}
    BY <1>2 DEF Go
  <2>2. p = "check" => q = "check"
    BY DEF Mounted
  <2> HIDE DEF q
  <2> QED BY <1>1, <2>1, <2>2
<1>3. ASSUME Film PROVE Earned
  <2>1. page' = page /\ secure' = secure
    BY <1>3 DEF Film
  <2>2. CASE page = "pane"
    <3> DEFINE q == IF filming THEN "away" ELSE "pane"
    <3>1. Begins("pane", ~filming, Fresh(q)) /\ q \in Surface \cup {"away"}
      BY <1>3, <2>2 DEF Film, Surface
    <3> HIDE DEF q
    <3> QED BY <1>1, <2>1, <2>2, <3>1
  <2>3. CASE page = "wall"
    <3>1. view' = [Fresh("wall") EXCEPT !.detector = view.detector]
      BY <1>3, <2>3 DEF Film, Begins
    <3>2. ~view'.recognised
      BY <3>1 DEF Fresh
    <3> QED BY <2>1, <2>3, <3>2, NotPassing DEF Counted
  <2>4. CASE page \notin {"pane", "wall"}
    <3>1. view' = view /\ cached' = cached
      BY <1>3, <2>4 DEF Film
    <3> QED BY <2>1, <3>1, NothingSaid
  <2> QED BY <2>2, <2>3, <2>4
<1> QED BY <1>2, <1>3

LEMMA DetectorEarns ==
  ASSUME IInv, Counted, (\E d \in Detector : DetectorSettles(d)) \/ DetectorArrives
  PROVE  Earned
<1>1. ASSUME NEW d \in Detector, DetectorSettles(d) PROVE Earned
  BY <1>1, NothingSaid DEF DetectorSettles, Detector
<1>2. ASSUME DetectorArrives PROVE Earned
  <2>1. /\ cached \in Detector /\ cached # view.detector
        /\ page' = page /\ cached' = cached
        /\ view' = [view EXCEPT !.detector = cached,
                      !.armed = page = "pane" \/ (page = "check" /\ view.camera = "live")]
    BY <1>2 DEF DetectorArrives
  <2>2. view'.detector = cached /\ view'.recognised = view.recognised
    BY <2>1 DEF IInv, TypeOK, View
  <2>3. ~view.recognised
    BY <2>1 DEF Counted
  <2>4. Counted'
    BY <2>1, <2>2, <2>3 DEF Counted
  <2> QED BY <2>2, <2>3, <2>4, NotPassing
<1> QED BY <1>1, <1>2

LEMMA CameraEarns ==
  ASSUME IInv, Counted,
         \/ PressStart \/ PressStop \/ PixelsArrive
         \/ \E k \in Ask : Granted(k) \/ \E why \in {"denied", "unavailable"} : Refused(k, why)
  PROVE  Earned
<1>1. ASSUME UNCHANGED <<page, cached>>, view'.detector = view.detector,
             view'.frames = view.frames, view'.recognised = view.recognised
      PROVE  Counted' /\ CountIsEarned
  BY <1>1 DEF Counted, CountIsEarned
<1>2. CASE PressStart
  <2>1. /\ UNCHANGED <<page, cached>> /\ view'.detector = view.detector
        /\ view'.frames = view.frames /\ view'.recognised = view.recognised
        /\ view'.camera \in {"requesting", "unavailable"}
    BY <1>2 DEF PressStart, IInv, TypeOK, View
  <2> QED BY <1>1, <2>1, NotPassing DEF Camera
<1>3. CASE PressStop
  <2>1. /\ UNCHANGED <<page, cached>> /\ view'.detector = view.detector
        /\ view'.frames = view.frames /\ view'.recognised = view.recognised
        /\ view'.camera = "idle"
    BY <1>3 DEF PressStop, IInv, TypeOK, View
  <2> QED BY <1>1, <2>1, NotPassing DEF Camera
<1>4. CASE PixelsArrive
  <2>1. /\ UNCHANGED <<page, secure, cached>> /\ view'.detector = view.detector
        /\ view'.frames = view.frames /\ view'.recognised = view.recognised
        /\ view'.camera = view.camera
    BY <1>4 DEF PixelsArrive, IInv, TypeOK, View
  <2> QED BY <2>1, NothingSaid
<1>5. ASSUME NEW k \in Ask, Granted(k) PROVE Earned
  <2>1. UNCHANGED <<page, secure, cached>> /\ asks'[k] < asks[k]
    BY <1>5 DEF Granted, IInv, TypeOK
  <2>2. CASE ~k.here
    BY <1>5, <2>1, <2>2, NothingSaid DEF Granted
  <2>3. CASE k.here
    <3>1. /\ view'.detector = view.detector /\ view'.camera = "live"
          /\ view'.frames = view.frames /\ view'.recognised = view.recognised
      BY <1>5, <2>3 DEF Granted, IInv, TypeOK, View
    <3>2. ASSUME Verdict' = "pass"
          PROVE  /\ view.recognised /\ page = "check"
                 /\ view.detector \in {"http", "yolo"} /\ CameraComesOn
      <4>1. view.recognised /\ view'.detector # "demo"
        BY <3>1, <3>2 DEF Verdict
      <4>2. page = "check" /\ view.detector \in {"http", "yolo"}
        BY <3>1, <4>1 DEF Counted, Detector
      <4>3. k.by = "check"
        BY <1>5, <2>3, <4>2 DEF Granted, IInv, Wanted
      <4> QED BY <2>1, <2>3, <3>1, <4>1, <4>2, <4>3 DEF CameraComesOn
    <3>3. WordIsEarned
      BY <2>1, <3>1, <3>2 DEF WordIsEarned
    <3> QED BY <1>1, <2>1, <3>1, <3>3 DEF Earned
  <2> QED BY <2>2, <2>3
<1>6. ASSUME NEW k \in Ask, NEW why \in {"denied", "unavailable"}, Refused(k, why)
      PROVE  Earned
  <2>1. UNCHANGED <<page, secure, cached>>
    BY <1>6 DEF Refused
  <2>2. CASE k.here /\ page = "check"
    <3>1. /\ view'.detector = view.detector /\ view'.camera = why
          /\ view'.frames = view.frames /\ view'.recognised = view.recognised
      BY <1>6, <2>2 DEF Refused, IInv, TypeOK, View
    <3> QED BY <1>1, <2>1, <3>1, NotPassing DEF Camera
  <2>3. CASE ~(k.here /\ page = "check")
    BY <1>6, <2>1, <2>3, NothingSaid DEF Refused
  <2> QED BY <2>2, <2>3
<1> QED BY <1>2, <1>3, <1>4, <1>5, <1>6

\* A frame that was stopped changes nothing; one of a feed is not counted; one of the
\* check is of its camera and its detector, and says more only if something is in it.
LEMMA FrameEarns ==
  ASSUME IInv, Counted, NEW k \in Run, NEW r \in {"seen", "none", "invented", "failed"},
         FrameLands(k, r)
  PROVE  Earned
<1> DEFINE a == Answer(k, r)
<1>1. UNCHANGED <<page, secure, cached>> /\ view' = ViewAfter(k, a) /\ runs[k] > 0
  BY DEF FrameLands
<1>2. runs'[k] < runs[k]
  BY DEF FrameLands, IInv, TypeOK
<1> HIDE DEF a
<1>3. CASE ~k.live
  BY <1>1, <1>3, NothingSaid DEF ViewAfter
<1>4. CASE k.live /\ k.by # "check"
  <2>1. view' = FeedAfter(k.by, a)
    BY <1>1, <1>4 DEF ViewAfter
  <2>2. /\ view'.detector = view.detector /\ view'.camera = view.camera
        /\ view'.frames = view.frames /\ view'.recognised = view.recognised
    BY <2>1 DEF FeedAfter, IInv, TypeOK, View
  <2> QED BY <1>1, <2>2, NothingSaid
<1>5. CASE k.live /\ k.by = "check"
  <2>1. /\ page = "check" /\ k.with = view.detector /\ k.source /\ view.camera = "live"
        /\ view.detector # "null"
    BY <1>1, <1>5 DEF IInv, Current, Run, Shown, Detector
  <2>2. view' = CheckAfter(a)
    BY <1>1, <1>5 DEF ViewAfter
  <2>3. /\ view'.detector = view.detector /\ view'.camera = view.camera
        /\ view'.recognised => view.recognised \/ (a # "none" /\ view'.boxes = a)
        /\ view.recognised => view'.recognised
        /\ view'.frames >= view.frames
        /\ view'.recognised /\ ~view.recognised => view'.frames > 0
    BY <2>2, EnoughAssumption DEF CheckAfter, IInv, TypeOK, View
  <2>4. view'.recognised /\ ~view.recognised => Finds
    BY <1>2, <1>5, <2>1, <2>3 DEF Finds
  <2>5. view.frames \in Nat /\ view'.frames \in Nat
    BY <2>2, EnoughAssumption DEF CheckAfter, IInv, TypeOK, View
  <2>6. Counted'
    BY <1>1, <2>1, <2>3, <2>5 DEF Counted
  <2>7. CountIsEarned
    BY <1>1, <2>3, <2>4 DEF CountIsEarned
  <2>8. WordIsEarned
    <3>1. SUFFICES ASSUME Verdict # "pass", Verdict' = "pass"
                   PROVE  /\ page' = "check" /\ view'.detector \in {"http", "yolo"} /\ Finds
      BY DEF WordIsEarned
    <3>2. view'.recognised /\ view.detector # "demo" /\ secure
      BY <1>1, <2>3, <3>1 DEF Verdict
    <3>3. view.detector \in {"http", "yolo"}
      BY <2>1, <3>2 DEF Counted, Detector
    <3>4. ~view.recognised
      BY <2>1, <2>5, <3>1, <3>2, <3>3 DEF Verdict, Counted
    <3> QED BY <1>1, <2>1, <2>3, <2>4, <3>2, <3>3, <3>4
  <2> QED BY <2>6, <2>7, <2>8 DEF Earned
<1> QED BY <1>3, <1>4, <1>5

LEMMA NextEarns == IInv /\ Counted /\ [Next]_vars => Earned
<1> SUFFICES ASSUME IInv, Counted, [Next]_vars PROVE Earned
  OBVIOUS
<1>1. CASE UNCHANGED vars
  BY <1>1, NothingSaid DEF vars
<1>2. CASE (\E p \in Surface \cup {"away"} : Go(p)) \/ Film
  BY <1>2, PagesEarn
<1>3. CASE (\E d \in Detector : DetectorSettles(d)) \/ DetectorArrives
  BY <1>3, DetectorEarns
<1>4. CASE \/ PressStart \/ PressStop \/ PixelsArrive
           \/ \E k \in Ask : \/ Granted(k)
                             \/ \E why \in {"denied", "unavailable"} : Refused(k, why)
  BY <1>4, CameraEarns
<1>5. CASE FrameStarts \/ WallTick
  <2>1. /\ UNCHANGED <<page, secure, cached>> /\ view'.detector = view.detector
        /\ view'.frames = view.frames /\ view'.recognised = view.recognised
        /\ view'.camera = view.camera
    BY <1>5 DEF FrameStarts, WallTick, IInv, TypeOK, View
  <2> QED BY <2>1, NothingSaid
<1>6. CASE \E k \in Run, r \in {"seen", "none", "invented", "failed"} : FrameLands(k, r)
  BY <1>6, FrameEarns
<1>7. CASE SelfTest \/ \E r \in {"seen", "none", "invented", "failed"} : SelfTestEnds(r)
  BY <1>7, NothingSaid DEF SelfTest, SelfTestEnds
<1> QED BY <1>1, <1>2, <1>3, <1>4, <1>5, <1>6, <1>7 DEF Next

LEMMA AlwaysCounted == Spec => []Counted
<1>1. Init => Counted
  BY DEF Init, Fresh, Counted
<1>2. IInv /\ Counted /\ [Next]_vars => Counted'
  BY NextEarns DEF Earned
<1> QED BY <1>1, <1>2, AlwaysIInv, PTL DEF Spec

\* What the check counts as recognised was found by its camera and its detector of now
\* while it was open, and "Working" comes up as that happens, or as the camera comes on
\* again at a check that had earned it (verdictFor, stopCamera).
THEOREM PassIsAlwaysEarned == Spec => PassIsEarned
<1> DEFINE Step ==
      /\ view'.recognised =>
           \/ Finds
           \/ view.recognised /\ page' = page /\ view'.detector = view.detector
      /\ Verdict # "pass" /\ Verdict' = "pass" =>
           /\ page' = "check" /\ view'.detector \in {"http", "yolo"}
           /\ Finds \/ (view.recognised /\ CameraComesOn)
<1>1. IInv /\ Counted /\ [Next]_vars => [Step]_vars
  BY NextEarns DEF Earned, CountIsEarned, WordIsEarned
<1> QED BY <1>1, AlwaysIInv, AlwaysCounted, PTL DEF PassIsEarned, Spec
=============================================================================
