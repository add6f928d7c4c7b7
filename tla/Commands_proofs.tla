--------------------------- MODULE Commands_proofs ---------------------------
(***************************************************************************)
(* Theorems about Commands, for any number of Drones, any room, routes,    *)
(* lessons and bounds: what no Command, key or interval does to a Drone,   *)
(* and that no Alert stays taken once it clears.                           *)
(***************************************************************************)
EXTENDS Commands, TLAPS

\* A Drone that is cut or down is not on its way up.
Settling(c) == c.cut \/ ~c.airborne => c.target <= c.height

CutDown(c) == c.cut => ~c.airborne

\* A recalled Drone is at its home, being landed by the station's key, or holds
\* the height it was recalled at.
Homeward(c) ==
    c.returning => ~c.cut /\ (c.place = c.home \/ c.autoLanding \/ c.target >= c.height)

\* What is kept of a craft, whatever becomes of it but by hand.
Keeps(c, n) ==
    /\ n \in Craft
    /\ Settling(c) => Settling(n)
    /\ CutDown(c) => CutDown(n)
    /\ Homeward(c) => Homeward(n)

\* What is asked of a craft moves nothing yet, unless it puts it back on the bench.
Asked(c, n) == Keeps(c, n) /\ (n.returning => n.height = c.height)

-----------------------------------------------------------------------------
(* What is asked of one craft. *)

LEMMA CraftNumbers ==
  ASSUME NEW c \in Craft
  PROVE  /\ c.height \in Nat /\ c.target \in Nat /\ c.height <= Top /\ c.target <= Top
         /\ c.height \in Height /\ c.target \in Height /\ 0 \in Height
         /\ c.place \in Place /\ c.home \in Place
         /\ c.cut \in BOOLEAN /\ c.airborne \in BOOLEAN /\ c.autoLanding \in BOOLEAN
         /\ c.returning \in BOOLEAN /\ c.linkUp \in BOOLEAN
         /\ c.next \in Nat /\ c.charge \in Charge
BY FleetAssumption DEF Craft, Height

LEMMA NoRouteKeeps ==
  ASSUME NEW c \in Craft
  PROVE  /\ NoRoute(c) \in Craft
         /\ NoRoute(c).cut = c.cut /\ NoRoute(c).airborne = c.airborne
         /\ NoRoute(c).returning = c.returning /\ NoRoute(c).autoLanding = c.autoLanding
         /\ NoRoute(c).place = c.place /\ NoRoute(c).home = c.home
         /\ NoRoute(c).height = c.height /\ NoRoute(c).target = c.target
BY DEF NoRoute, Craft

LEMMA LandKeeps == ASSUME NEW c \in Craft  PROVE Asked(c, land(c))
<1>1. land(c) \in Craft
  BY CraftNumbers, NoRouteKeeps DEF land, Craft
<1>2. /\ land(c).cut = c.cut /\ land(c).airborne = FALSE /\ land(c).returning = FALSE
      /\ land(c).target = 0 /\ land(c).height = c.height
  BY NoRouteKeeps DEF land, Craft
<1> QED BY <1>1, <1>2, CraftNumbers DEF Asked, Keeps, Settling, CutDown, Homeward

LEMMA HoldKeeps == ASSUME NEW c \in Craft  PROVE Asked(c, hold(c))
<1>1. CASE c.airborne
  <2>1. hold(c) \in Craft
    BY CraftNumbers DEF hold, Craft
  <2>2. /\ hold(c).cut = c.cut /\ hold(c).airborne = c.airborne /\ hold(c).place = c.place
        /\ hold(c).returning = c.returning /\ hold(c).home = c.home
        /\ hold(c).target = c.height /\ hold(c).height = c.height
    BY <1>1 DEF hold, Craft
  <2> QED BY <2>1, <2>2, CraftNumbers DEF Asked, Keeps, Settling, CutDown, Homeward
<1>2. CASE ~c.airborne
  BY <1>2 DEF hold, Asked, Keeps
<1> QED BY <1>1, <1>2

LEMMA AutoLandKeeps ==
  ASSUME NEW c \in Craft, NEW able \in BOOLEAN  PROVE Asked(c, beginAutoLanding(c, able))
<1> DEFINE n == [c EXCEPT !.autoLanding = TRUE, !.target = 0]
<1>1. n \in Craft
  BY CraftNumbers DEF Craft
<1>2. /\ n.cut = c.cut /\ n.airborne = c.airborne /\ n.returning = c.returning
      /\ n.autoLanding = TRUE /\ n.target = 0 /\ n.height = c.height
  BY DEF Craft
<1> HIDE DEF n
<1>3. Asked(c, n) /\ Asked(c, c)
  BY <1>1, <1>2, CraftNumbers DEF Asked, Keeps, Settling, CutDown, Homeward
<1> QED BY <1>3 DEF beginAutoLanding, n

LEMMA StopKeeps == ASSUME NEW c \in Craft  PROVE Asked(c, triggerEmergencyStop(c))
<1> DEFINE m == NoRoute(c)
           n == [m EXCEPT !.cut = TRUE, !.airborne = FALSE, !.autoLanding = FALSE,
                          !.returning = FALSE, !.target = 0]
<1>1. m \in Craft /\ m.height = c.height /\ 0 \in Height
  BY CraftNumbers, NoRouteKeeps
<1>2. n = triggerEmergencyStop(c)
  BY DEF triggerEmergencyStop
<1> HIDE DEF m
<1>3. n \in Craft
  BY <1>1 DEF Craft
<1>4. n.airborne = FALSE /\ n.returning = FALSE /\ n.target = 0 /\ n.height = c.height
  BY <1>1 DEF Craft
<1> HIDE DEF n
<1> QED BY <1>2, <1>3, <1>4, CraftNumbers DEF Asked, Keeps, Settling, CutDown, Homeward

LEMMA ReturnKeeps ==
  ASSUME NEW c \in Craft  PROVE Asked(c, returnHome(c)) /\ Asked(c, flyHome(c))
<1> DEFINE n == [c EXCEPT !.returning = TRUE, !.autoLanding = FALSE, !.target = c.height]
<1>1. n \in Craft
  BY CraftNumbers DEF Craft
<1>2. /\ n.cut = c.cut /\ n.airborne = c.airborne /\ n.target = c.height /\ n.height = c.height
  BY DEF Craft
<1> HIDE DEF n
<1>3. c.airborne /\ ~c.cut => Asked(c, n)
  BY <1>1, <1>2, CraftNumbers DEF Asked, Keeps, Settling, CutDown, Homeward
<1>4. Asked(n, NoRoute(n)) /\ NoRoute(n).height = n.height
  BY <1>1, NoRouteKeeps DEF Asked, Keeps, Settling, CutDown, Homeward
<1>5. Asked(c, c)
  BY DEF Asked, Keeps
<1>6. returnHome(c) = IF c.airborne /\ ~c.cut THEN n ELSE c
  BY DEF returnHome, n
<1> QED BY <1>2, <1>3, <1>4, <1>5, <1>6 DEF flyHome, Asked, Keeps

LEMMA TakeOffKeeps ==
  ASSUME NEW c \in Craft, NEW hover \in 1..Top  PROVE Asked(c, takeOff(c, hover))
<1> DEFINE ready == [NoRoute(c) EXCEPT !.charging = FALSE, !.returning = FALSE]
           risen == [ready EXCEPT !.home = c.place, !.airborne = TRUE, !.target = hover]
<1>1. /\ ready \in Craft /\ ready.cut = c.cut /\ ready.airborne = c.airborne
      /\ ready.returning = FALSE /\ ready.target = c.target /\ ready.height = c.height
  BY NoRouteKeeps DEF Craft
<1> HIDE DEF ready
<1>2. hover \in Height
  BY FleetAssumption DEF Height
<1>3. /\ risen \in Craft /\ risen.cut = ready.cut /\ risen.airborne = TRUE
      /\ risen.returning = FALSE
  BY <1>1, <1>2, CraftNumbers DEF Craft
<1> HIDE DEF risen
<1>4. ~c.cut => Asked(c, ready) /\ Asked(c, risen)
  BY <1>1, <1>3 DEF Asked, Keeps, Settling, CutDown, Homeward
<1>5. Asked(c, c)
  BY DEF Asked, Keeps
<1> QED BY <1>4, <1>5 DEF takeOff, ready, risen

LEMMA RouteKeeps ==
  ASSUME NEW c \in Craft, NEW hover \in 1..Top, NEW r \in Routes
  PROVE  Asked(c, flyRoute(c, hover, r))
<1> DEFINE t == takeOff(c, hover)
           n == [t EXCEPT !.route = r, !.next = 1]
<1>1. Asked(c, t) /\ Asked(c, c)
  BY TakeOffKeeps DEF Asked, Keeps
<1> HIDE DEF t
<1>2. n \in Craft
  BY <1>1 DEF Asked, Keeps, Craft
<1>3. /\ n.cut = t.cut /\ n.airborne = t.airborne /\ n.returning = t.returning
      /\ n.autoLanding = t.autoLanding /\ n.place = t.place /\ n.home = t.home
      /\ n.height = t.height /\ n.target = t.target
  BY <1>1 DEF Asked, Keeps, Craft
<1> HIDE DEF n
<1>4. Asked(t, n)
  BY <1>2, <1>3 DEF Asked, Keeps, Settling, CutDown, Homeward
<1>5. flyRoute(c, hover, r) = IF c.cut THEN c ELSE n
  BY DEF flyRoute, t, n
<1> QED BY <1>1, <1>3, <1>4, <1>5 DEF Asked, Keeps

\* Keys that touch nothing a flight is decided on, and a battery made flat.
LEMMA KeysKeep ==
  ASSUME NEW c \in Craft, NEW b \in BOOLEAN
  PROVE  /\ Asked(c, [c EXCEPT !.fault = b]) /\ Asked(c, [c EXCEPT !.linkUp = b])
         /\ Asked(c, [c EXCEPT !.charging = b]) /\ Asked(c, plugIn(c))
         /\ Asked(c, [c EXCEPT !.charge = Flat + 1])
<1>1. Flat + 1 \in Charge
  BY FleetAssumption DEF Charge
<1>2. Asked(c, [c EXCEPT !.fault = b])
  BY DEF Asked, Keeps, Craft, Settling, CutDown, Homeward
<1>3. Asked(c, [c EXCEPT !.linkUp = b])
  BY DEF Asked, Keeps, Craft, Settling, CutDown, Homeward
<1>4. Asked(c, [c EXCEPT !.charging = b]) /\ Asked(c, [c EXCEPT !.charging = TRUE])
  BY DEF Asked, Keeps, Craft, Settling, CutDown, Homeward
<1>5. Asked(c, [c EXCEPT !.charge = Flat + 1])
  BY <1>1 DEF Asked, Keeps, Craft, Settling, CutDown, Homeward
<1>6. Asked(c, c)
  BY DEF Asked, Keeps
<1> QED BY <1>2, <1>3, <1>4, <1>5, <1>6 DEF plugIn

\* A stop released: what was cut is down, and what was settling settles.
LEMMA ReleaseKeeps == ASSUME NEW c \in Craft  PROVE Asked(c, [c EXCEPT !.cut = FALSE])
BY DEF Asked, Keeps, Craft, Settling, CutDown, Homeward

LEMMA ResetKeeps == ASSUME NEW c \in Craft  PROVE Asked(c, resetClassroom(c))
<1> DEFINE m == NoRoute(c)
           n == [m EXCEPT !.charge = Full, !.airborne = FALSE, !.fault = FALSE,
                          !.linkUp = TRUE, !.charging = FALSE, !.place = c.home,
                          !.height = 0, !.target = 0, !.cut = FALSE,
                          !.autoLanding = FALSE, !.returning = FALSE]
<1>1. m \in Craft /\ 0 \in Height /\ c.home \in Place /\ Full \in Charge
  BY CraftNumbers, NoRouteKeeps, FleetAssumption DEF Charge
<1>2. n = resetClassroom(c)
  BY DEF resetClassroom
<1> HIDE DEF m
<1>3. n \in Craft
  BY <1>1 DEF Craft
<1>4. n.cut = FALSE /\ n.returning = FALSE /\ n.target = 0 /\ n.height = 0
  BY <1>1 DEF Craft
<1> HIDE DEF n
<1> QED BY <1>2, <1>3, <1>4 DEF Asked, Keeps, Settling, CutDown, Homeward

LEMMA AltitudeKeeps ==
  ASSUME NEW c \in Craft, NEW h \in Height
  PROVE  setAltitude(c, h) \in Craft /\ Settling(setAltitude(c, h))
<1> DEFINE off == h > 0
           at == [c EXCEPT !.height = h, !.target = h, !.airborne = off]
<1>0. off \in BOOLEAN
  OBVIOUS
<1> HIDE DEF off
<1>1. at \in Craft /\ at.height = h /\ at.target = h
  BY <1>0 DEF Craft
<1> HIDE DEF at
<1>2. [at EXCEPT !.charging = FALSE] \in Craft
      /\ [at EXCEPT !.charging = FALSE].height = h /\ [at EXCEPT !.charging = FALSE].target = h
  BY <1>1 DEF Craft
<1>3. [at EXCEPT !.autoLanding = FALSE, !.returning = FALSE] \in Craft
      /\ [at EXCEPT !.autoLanding = FALSE, !.returning = FALSE].height = h
      /\ [at EXCEPT !.autoLanding = FALSE, !.returning = FALSE].target = h
  BY <1>1 DEF Craft
<1>4. h \in Nat
  BY DEF Height
<1> QED BY <1>2, <1>3, <1>4 DEF setAltitude, at, off, Settling

-----------------------------------------------------------------------------
(* One interval of one craft. *)

\* What a flight is decided on is the same.
SameFlight(c, n) ==
    /\ n \in Craft
    /\ n.cut = c.cut /\ n.airborne = c.airborne /\ n.returning = c.returning
    /\ n.autoLanding = c.autoLanding /\ n.place = c.place /\ n.home = c.home
    /\ n.height = c.height /\ n.target = c.target

LEMMA WanderKeeps ==
  ASSUME NEW c \in Craft, NEW roll \in Int
  PROVE  SameFlight(c, wander(c, roll))
<1> DEFINE link == roll <= PlugRoll
           lost == roll > LinkRoll
           fault == c.fault \/ (roll = FaultRoll /\ c.airborne)
           plugged == c.charging \/ (~c.airborne /\ c.charge < Low /\ roll <= PlugRoll)
<1>1. link \in BOOLEAN /\ lost \in BOOLEAN /\ fault \in BOOLEAN /\ plugged \in BOOLEAN
  BY DEF Craft
<1>2. wander(c, roll) = IF ~c.linkUp THEN [c EXCEPT !.linkUp = link]
                        ELSE [c EXCEPT !.linkUp = lost, !.fault = fault, !.charging = plugged]
  BY DEF wander
<1> HIDE DEF link, lost, fault, plugged
<1>3. SameFlight(c, [c EXCEPT !.linkUp = link])
  BY <1>1 DEF SameFlight, Craft
<1>4. SameFlight(c, [c EXCEPT !.linkUp = lost, !.fault = fault, !.charging = plugged])
  BY <1>1 DEF SameFlight, Craft
<1> QED BY <1>2, <1>3, <1>4

LEMMA SameFlightKeeps ==
  ASSUME NEW c \in Craft, NEW n, SameFlight(c, n)
  PROVE  Keeps(c, n)
BY DEF SameFlight, Keeps, Settling, CutDown, Homeward

\* A flat battery lands a craft, and that ends its recall.
LEMMA ChargedKeeps ==
  ASSUME NEW c \in Craft, NEW moves \in BOOLEAN
  PROVE  LET n == charged(c, moves)
         IN  \/ SameFlight(c, n)
             \/ /\ Keeps(c, n) /\ n.height = c.height /\ n.target = 0 /\ ~n.returning
<1> DEFINE more == IF moves /\ c.charge < Full THEN c.charge + 1 ELSE c.charge
           less == IF moves /\ c.charge > 0 THEN c.charge - 1 ELSE c.charge
           charging == more < Full
           onCharge == [c EXCEPT !.charge = more, !.charging = charging]
           drained == [c EXCEPT !.charge = less]
<1>1. more \in Charge /\ less \in Charge /\ charging \in BOOLEAN
  BY CraftNumbers, FleetAssumption DEF Charge
<1>2. charged(c, moves) =
        IF c.charging /\ ~c.airborne THEN onCharge
        ELSE IF c.airborne /\ less <= Flat THEN land(drained) ELSE drained
  BY DEF charged
<1> HIDE DEF more, less, charging
<1>3. SameFlight(c, onCharge) /\ SameFlight(c, drained)
  BY <1>1 DEF SameFlight, Craft
<1> HIDE DEF onCharge, drained
<1>4. /\ Keeps(drained, land(drained)) /\ drained \in Craft
      /\ land(drained).height = drained.height /\ land(drained).target = 0
      /\ land(drained).returning = FALSE
  <2>1. drained \in Craft
    BY <1>3 DEF SameFlight
  <2>2. Keeps(drained, land(drained))
    BY <2>1, LandKeeps DEF Asked
  <2>3. /\ land(drained).height = drained.height /\ land(drained).target = 0
        /\ land(drained).returning = FALSE
    BY <2>1, NoRouteKeeps DEF land, Craft
  <2> QED BY <2>1, <2>2, <2>3
<1>5. Keeps(c, drained) /\ drained.height = c.height
  BY <1>3, SameFlightKeeps DEF SameFlight
<1>6. Keeps(c, land(drained))
  BY <1>4, <1>5 DEF Keeps
<1> QED BY <1>2, <1>3, <1>4, <1>5, <1>6

\* A craft climbs no higher than it aims or is, and a recalled one holds its height
\* until it is home.
Calm(c, n) ==
    /\ Keeps(c, n)
    /\ n.height <= c.height \/ n.height <= c.target
    /\ n.target <= c.target
    /\ n.returning => c.returning
    /\ Homeward(c) /\ c.returning /\ n.returning /\ n.height < c.height
          => c.place = c.home \/ c.autoLanding

LEMMA ClimbedIsCalm ==
  ASSUME NEW c \in Craft
  PROVE  /\ Calm(c, Climbed(c))
         /\ Climbed(c).place = c.place /\ Climbed(c).home = c.home
<1> DEFINE target == IF c.cut \/ c.autoLanding THEN 0 ELSE c.target
           rate == IF c.cut THEN 5 ELSE 1
           height == IF target > c.height
                     THEN IF c.height + rate < target THEN c.height + rate ELSE target
                     ELSE IF c.height - rate > target THEN c.height - rate ELSE target
           settled == height = 0 /\ target = 0
           arrived == c.returning /\ height = 0
           landing == c.autoLanding /\ ~settled
           returning == c.returning /\ ~arrived
           airborne == c.airborne /\ ~arrived
           n == [c EXCEPT !.target = target, !.height = height, !.autoLanding = landing,
                          !.returning = returning, !.airborne = airborne]
<1>1. /\ c.height \in Nat /\ c.target \in Nat /\ c.height <= Top /\ c.target <= Top
      /\ Top \in Nat
      /\ c.cut \in BOOLEAN /\ c.airborne \in BOOLEAN /\ c.autoLanding \in BOOLEAN
      /\ c.returning \in BOOLEAN
  BY CraftNumbers, FleetAssumption
<1>2. Climbed(c) = n
  BY DEF Climbed
<1>3. /\ target \in Nat /\ target <= c.target
      /\ c.cut \/ c.autoLanding => target = 0
      /\ ~c.cut /\ ~c.autoLanding => target = c.target
  BY <1>1
<1>4. rate \in {1, 5}
  OBVIOUS
<1> HIDE DEF target, rate
<1>5. /\ height \in Nat /\ height <= Top
      /\ height <= c.height \/ height <= target
      /\ target >= c.height => height >= c.height /\ height <= target
      /\ target <= c.height => height >= target
      /\ height = 0 => target = 0
  BY <1>1, <1>3, <1>4
<1>6. /\ target \in Height /\ height \in Height
      /\ landing \in BOOLEAN /\ returning \in BOOLEAN /\ airborne \in BOOLEAN
  BY <1>1, <1>3, <1>5 DEF Height
<1>7. /\ returning => c.returning /\ (c.autoLanding => landing)
      /\ ~airborne => ~c.airborne \/ height = 0
      /\ airborne => c.airborne
  BY <1>5
<1> HIDE DEF height, landing, returning, airborne
<1>8. /\ n \in Craft /\ n.target = target /\ n.height = height /\ n.autoLanding = landing
      /\ n.returning = returning /\ n.airborne = airborne /\ n.cut = c.cut
      /\ n.place = c.place /\ n.home = c.home
  BY <1>6 DEF Craft
<1> HIDE DEF n
<1>9. Settling(c) => Settling(n)
  BY <1>1, <1>3, <1>5, <1>7, <1>8 DEF Settling
<1>10. CutDown(c) => CutDown(n)
  BY <1>7, <1>8 DEF CutDown
<1>11. Homeward(c) => Homeward(n)
  BY <1>1, <1>3, <1>5, <1>7, <1>8 DEF Homeward
<1>12. Homeward(c) /\ c.returning /\ n.returning /\ n.height < c.height
          => c.place = c.home \/ c.autoLanding
  BY <1>1, <1>3, <1>5, <1>8 DEF Homeward
<1> QED BY <1>1, <1>2, <1>3, <1>5, <1>7, <1>8, <1>9, <1>10, <1>11, <1>12 DEF Calm, Keeps

LEMMA ClampIsPlace ==
  ASSUME NEW p \in Int
  PROVE  Clamp(p) \in Place /\ (p \in Place => Clamp(p) = p)
BY FleetAssumption DEF Clamp, Place

LEMMA FlyIsCalm ==
  ASSUME NEW before \in Craft, NEW drift \in Int
  PROVE  Calm(before, fly(before, drift))
<1> DEFINE c == Climbed(before)
           home == Clamp(c.place + Toward(c.place, c.home))
           point == Clamp(c.place + Toward(c.place, c.route[c.next]))
           adrift == Clamp(c.place + drift)
           target == IF c.place = c.home THEN 0 ELSE c.target
           homing == [c EXCEPT !.place = home, !.target = target]
           onward == [c EXCEPT !.next = c.next + 1]
           routed == [c EXCEPT !.place = point]
           drifted == [c EXCEPT !.place = adrift]
           grounded == [c EXCEPT !.place = c.home]
<1>1. /\ Calm(before, c) /\ c \in Craft
      /\ c.place = before.place /\ c.home = before.home
  BY ClimbedIsCalm DEF Calm, Keeps
<1>2. CASE c.airborne /\ c.returning
  <2>1. fly(before, drift) = homing
    BY <1>2 DEF fly
  <2>2. /\ c.place \in Int /\ c.place \in Place /\ c.home \in Place
        /\ Toward(c.place, c.home) \in Int
        /\ c.place = c.home => Toward(c.place, c.home) = 0
    BY <1>1, CraftNumbers, FleetAssumption DEF Place, Toward
  <2>3. home \in Place /\ (c.place = c.home => home = c.home)
    BY <2>2, ClampIsPlace
  <2>4. target \in Height /\ target <= c.target /\ (c.place # c.home => target = c.target)
        /\ target \in Nat /\ c.target \in Nat /\ c.height \in Nat /\ c.airborne = TRUE
    BY <1>1, <1>2, CraftNumbers
  <2> HIDE DEF c, home, target
  <2>5. /\ homing \in Craft /\ homing.place = home /\ homing.target = target
        /\ homing.cut = c.cut /\ homing.airborne = c.airborne /\ homing.height = c.height
        /\ homing.autoLanding = c.autoLanding /\ homing.home = c.home
        /\ homing.returning = c.returning
    BY <1>1, <2>3, <2>4 DEF Craft
  <2> HIDE DEF homing
  <2>6. Keeps(c, homing)
    BY <2>3, <2>4, <2>5 DEF Keeps, Settling, CutDown, Homeward
  <2>7. homing.target <= before.target
    BY <1>1, <2>4, <2>5, CraftNumbers DEF Calm
  <2> QED BY <1>1, <2>1, <2>5, <2>6, <2>7 DEF Calm, Keeps
<1>3. CASE ~(c.airborne /\ c.returning)
  <2>1. \/ fly(before, drift) = c
        \/ c.airborne /\ ~c.returning /\ fly(before, drift) \in {onward, routed, drifted}
        \/ ~c.airborne /\ fly(before, drift) = grounded
    BY <1>1, <1>3, CraftNumbers DEF fly
  <2>2. c.next + 1 \in Nat /\ point \in Place /\ adrift \in Place /\ c.home \in Place
    <3>1. /\ c.place \in Int /\ Toward(c.place, c.route[c.next]) \in Int
          /\ c.next \in Nat /\ c.home \in Place
      BY <1>1, CraftNumbers, FleetAssumption DEF Place, Toward
    <3> QED BY <3>1, ClampIsPlace
  <2> DEFINE Same(n) ==
        /\ n \in Craft /\ n.target = c.target /\ n.cut = c.cut
        /\ n.airborne = c.airborne /\ n.height = c.height
        /\ n.autoLanding = c.autoLanding /\ n.home = c.home /\ n.returning = c.returning
  <2> HIDE DEF c, point, adrift
  <2>3. Same(onward) /\ Same(routed) /\ Same(drifted)
    BY <1>1, <2>2 DEF Craft
  <2>4. Same(grounded) /\ grounded.place = c.home
    BY <1>1, <2>2 DEF Craft
  <2> HIDE DEF onward, routed, drifted, grounded
  <2>5. ASSUME NEW n, Same(n), ~c.returning \/ n.place = c.home
        PROVE  Calm(before, n)
    <3>1. Keeps(c, n)
      BY <2>5 DEF Keeps, Settling, CutDown, Homeward
    <3> QED BY <1>1, <2>5, <3>1 DEF Calm, Keeps
  <2>6. Calm(before, onward) \/ c.returning
    BY <2>3, <2>5
  <2>7. Calm(before, routed) \/ c.returning
    BY <2>3, <2>5
  <2>8. Calm(before, drifted) \/ c.returning
    BY <2>3, <2>5
  <2>9. Calm(before, grounded)
    BY <2>4, <2>5
  <2> QED BY <1>1, <2>1, <2>6, <2>7, <2>8, <2>9
<1> QED BY <1>2, <1>3

LEMMA IntervalIsCalm ==
  ASSUME NEW c \in Craft, NEW roll \in Int, NEW moves \in BOOLEAN, NEW drift \in Int,
         NEW draw, draw.roll = roll, draw.moves = moves, draw.drift = drift
  PROVE  Calm(c, Interval(c, draw))
<1> DEFINE w == IF "spontaneous" \in panel THEN wander(c, roll) ELSE c
           full == charged(w, moves)
           n == fly(full, drift)
<1>1. SameFlight(c, w) /\ w \in Craft
  BY WanderKeeps DEF SameFlight
<1>2. Interval(c, draw) = IF w.linkUp THEN n ELSE w
  BY DEF Interval
<1> HIDE DEF w
<1>3. \/ SameFlight(w, full)
      \/ /\ Keeps(w, full) /\ full.height = w.height /\ full.target = 0 /\ ~full.returning
  BY <1>1, ChargedKeeps
<1> HIDE DEF full
<1>4. Keeps(c, full) /\ full \in Craft
  BY <1>1, <1>3, SameFlightKeeps DEF Keeps, SameFlight
<1>5. Calm(full, n)
  BY <1>4, FlyIsCalm
<1> HIDE DEF n
<1>6. /\ c.height \in Nat /\ c.target \in Nat /\ full.height \in Nat /\ full.target \in Nat
      /\ n.height \in Nat /\ n.target \in Nat
  BY <1>4, <1>5, CraftNumbers DEF Calm, Keeps
<1>7. full.height = c.height /\ full.target <= c.target
  BY <1>1, <1>3, <1>6 DEF SameFlight
<1>8. Keeps(c, n)
  BY <1>4, <1>5 DEF Calm, Keeps
<1>9. /\ n.height <= c.height \/ n.height <= c.target
      /\ n.target <= c.target
      /\ n.returning => c.returning
  BY <1>1, <1>3, <1>5, <1>6, <1>7 DEF Calm, SameFlight
<1>10. Homeward(c) /\ c.returning /\ n.returning /\ n.height < c.height
          => c.place = c.home \/ c.autoLanding
  <2>1. CASE SameFlight(w, full)
    BY <1>1, <1>5, <2>1 DEF Calm, SameFlight, Homeward
  <2>2. CASE ~full.returning
    BY <1>5, <2>2 DEF Calm
  <2> QED BY <1>3, <2>1, <2>2
<1>11. Calm(c, w)
  BY <1>1, <1>6, SameFlightKeeps DEF Calm, SameFlight
<1> QED BY <1>2, <1>8, <1>9, <1>10, <1>11 DEF Calm

-----------------------------------------------------------------------------
(* Every step. *)

\* What a Command of a strip leaves of a craft: where it was, aiming no higher.
LEMMA CommandLowers ==
  ASSUME NEW d \in Drones, craft \in [Drones -> Craft], Settling(craft[d]),
         NEW kind \in BoardKind
  PROVE  LET n == Commanded(d, kind)
         IN  /\ Asked(craft[d], n)
             /\ n.height = craft[d].height /\ n.target <= craft[d].height
<1> DEFINE c == craft[d]
<1>1. c \in Craft /\ c.height \in Nat /\ c.target \in Nat
  BY CraftNumbers
<1>2. kind \in {"land", "hold", "emergency-stop", "return-home"}
  BY DEF BoardKind, CommandKind
<1>3. Commanded(d, kind) \in {land(c), hold(c), triggerEmergencyStop(c), returnHome(c)}
  BY <1>2 DEF Commanded
<1>4. Settling(c)
  OBVIOUS
<1> HIDE DEF c
<1>5. land(c).height = c.height /\ land(c).target = 0
  BY <1>1, NoRouteKeeps DEF land, Craft
<1>6. triggerEmergencyStop(c).height = c.height /\ triggerEmergencyStop(c).target = 0
  BY <1>1, NoRouteKeeps DEF triggerEmergencyStop, Craft
<1>7. hold(c).height = c.height /\ hold(c).target <= c.height
  <2>1. c.airborne => hold(c).height = c.height /\ hold(c).target = c.height
    BY <1>1 DEF hold, Craft
  <2>2. ~c.airborne => hold(c) = c
    BY DEF hold
  <2> QED BY <1>1, <1>4, <2>1, <2>2 DEF Settling
<1>8. returnHome(c).height = c.height /\ returnHome(c).target <= c.height
  <2>1. c.airborne /\ ~c.cut => returnHome(c).height = c.height /\ returnHome(c).target = c.height
    BY <1>1 DEF returnHome, Craft
  <2>2. ~(c.airborne /\ ~c.cut) => returnHome(c) = c
    BY DEF returnHome
  <2>3. c.cut \in BOOLEAN /\ c.airborne \in BOOLEAN
    BY <1>1, CraftNumbers
  <2> QED BY <1>1, <1>4, <2>1, <2>2, <2>3 DEF Settling
<1>9. Asked(c, land(c)) /\ Asked(c, hold(c)) /\ Asked(c, triggerEmergencyStop(c))
      /\ Asked(c, returnHome(c))
  BY <1>1, LandKeeps, HoldKeeps, StopKeeps, ReturnKeeps
<1> QED BY <1>1, <1>3, <1>5, <1>6, <1>7, <1>8, <1>9 DEF c

Flying ==
    /\ craft \in [Drones -> Craft]
    /\ \A d \in Drones : Settling(craft[d])
    /\ "altitude" \notin panel => \A d \in Drones : CutDown(craft[d])
    /\ panel \cap ByHand = {} => \A d \in Drones : Homeward(craft[d])

\* No Drone is, or aims, higher than it may be since its last Command.
Lidded ==
    /\ lid \in [Drones -> Height]
    /\ \A d \in Drones : craft[d].height <= lid[d] /\ craft[d].target <= lid[d]

\* What is on its way to the station is a Command of a strip.
Order == [drone : Drones, kind : BoardKind, id : Nat]
Orders == up \in Seq(Order) /\ presses \in Nat

Watched ==
    /\ taken \in [Drones -> [AlertKind -> Severity \cup {"none"}]]
    /\ TakenIsStillRaised

IInv == Flying /\ Lidded /\ Orders /\ Watched

\* A craft still recalled after this step is at the height it was.
HeightHeld == \A d \in Drones : craft'[d].returning => craft'[d].height = craft[d].height

LEMMA AskedOfOne ==
  ASSUME Flying, NEW d \in Drones, NEW n, Asked(craft[d], n), Becomes(d, n)
  PROVE  Flying' /\ HeightHeld /\ panel' = panel
<1>1. /\ craft' = [craft EXCEPT ![d] = n] /\ panel' = panel
      /\ n \in Craft /\ craft \in [Drones -> Craft]
  BY DEF Becomes, Asked, Keeps, Flying
<1>2. \A e \in Drones : craft'[e] = IF e = d THEN n ELSE craft[e]
  BY <1>1
<1> QED BY <1>1, <1>2 DEF Flying, HeightHeld, Asked, Keeps

\* The keys of the demonstration: only the two by hand may break a promise.
LEMMA DemonstrateKeeps ==
  ASSUME Flying, Demonstrate
  PROVE  Flying' /\ panel' = panel /\ (panel \cap ByHand = {} => HeightHeld)
<1>0. \A d \in Drones : craft[d] \in Craft
  BY DEF Flying
<1>1. CASE ResetClassroom
  <2>1. /\ craft' = [d \in Drones |-> resetClassroom(craft[d])] /\ panel' = panel
    BY <1>1 DEF ResetClassroom
  <2>2. \A d \in Drones : Asked(craft[d], craft'[d])
    BY <1>0, <2>1, ResetKeeps
  <2> QED BY <2>1, <2>2 DEF Flying, HeightHeld, Asked, Keeps
<1>2. ASSUME NEW d \in Drones,
             \/ TakeOff(d) \/ FlyRoute(d) \/ FlyHome(d) \/ BeginAutoLanding(d) \/ ReleaseStop(d)
             \/ InjectFault(d) \/ ClearFault(d) \/ LoseLink(d) \/ RestoreLink(d)
             \/ SetBattery(d) \/ PlugIn(d) \/ Unplug(d)
      PROVE  Flying' /\ HeightHeld /\ panel' = panel
  <2>1. ASSUME TakeOff(d) \/ FlyRoute(d)  PROVE Flying' /\ HeightHeld /\ panel' = panel
    BY <1>0, <2>1, TakeOffKeeps, RouteKeeps, AskedOfOne DEF TakeOff, FlyRoute
  <2>2. ASSUME FlyHome(d) \/ BeginAutoLanding(d) \/ ReleaseStop(d)
        PROVE  Flying' /\ HeightHeld /\ panel' = panel
    <3>1. (d \in CanAutoLand) \in BOOLEAN
      OBVIOUS
    <3>2. Asked(craft[d], beginAutoLanding(craft[d], d \in CanAutoLand))
      BY <1>0, <3>1, AutoLandKeeps
    <3> QED BY <1>0, <2>2, <3>2, ReturnKeeps, ReleaseKeeps, AskedOfOne
            DEF FlyHome, BeginAutoLanding, ReleaseStop
  <2>3. ASSUME InjectFault(d) \/ ClearFault(d) \/ LoseLink(d) \/ RestoreLink(d)
        PROVE  Flying' /\ HeightHeld /\ panel' = panel
    BY <1>0, <2>3, KeysKeep, AskedOfOne DEF InjectFault, ClearFault, LoseLink, RestoreLink
  <2>4. ASSUME SetBattery(d) \/ PlugIn(d) \/ Unplug(d)
        PROVE  Flying' /\ HeightHeld /\ panel' = panel
    BY <1>0, <2>4, KeysKeep, AskedOfOne DEF SetBattery, PlugIn, Unplug
  <2> QED BY <1>2, <2>1, <2>2, <2>3, <2>4
<1>3. ASSUME NEW d \in Drones, SetPosition(d)
      PROVE  Flying' /\ panel' = panel /\ panel \cap ByHand # {}
  <2>1. PICK p \in Place : craft' = [craft EXCEPT ![d] = [craft[d] EXCEPT !.place = p]]
    BY <1>3 DEF SetPosition, Becomes
  <2>2. panel' = panel /\ "carry" \in panel /\ panel \cap ByHand # {}
    BY <1>3 DEF SetPosition, Becomes, Offered, ByHand
  <2> DEFINE n == [craft[d] EXCEPT !.place = p]
  <2>3. /\ n \in Craft /\ n.cut = craft[d].cut /\ n.airborne = craft[d].airborne
        /\ n.target = craft[d].target /\ n.height = craft[d].height
    BY <1>0 DEF Craft
  <2> HIDE DEF n
  <2>4. craft' \in [Drones -> Craft] /\ \A e \in Drones : craft'[e] = IF e = d THEN n ELSE craft[e]
    BY <2>1, <2>3 DEF n, Flying
  <2> QED BY <2>2, <2>3, <2>4 DEF Flying, Settling, CutDown
<1>4. ASSUME NEW d \in Drones, SetAltitude(d)
      PROVE  Flying' /\ panel' = panel /\ panel \cap ByHand # {}
  <2>1. PICK h \in Height : craft' = [craft EXCEPT ![d] = setAltitude(craft[d], h)]
    BY <1>4 DEF SetAltitude, Becomes
  <2>2. panel' = panel /\ "altitude" \in panel /\ panel \cap ByHand # {}
    BY <1>4 DEF SetAltitude, Becomes, Offered, ByHand
  <2> DEFINE n == setAltitude(craft[d], h)
  <2>3. n \in Craft /\ Settling(n)
    BY <1>0, AltitudeKeeps
  <2> HIDE DEF n
  <2>4. craft' \in [Drones -> Craft] /\ \A e \in Drones : craft'[e] = IF e = d THEN n ELSE craft[e]
    BY <2>1, <2>3 DEF n, Flying
  <2> QED BY <2>2, <2>3, <2>4 DEF Flying
<1> QED BY <1>1, <1>2, <1>3, <1>4 DEF Demonstrate

\* An interval: every craft calm.
LEMMA TickKeeps ==
  ASSUME Flying, Tick
  PROVE  Flying' /\ panel' = panel /\ \A d \in Drones : Calm(craft[d], craft'[d])
<1>1. PICK draw \in [Drones -> Draws] :
        craft' = [d \in Drones |-> Interval(craft[d], draw[d])] /\ panel' = panel
  BY DEF Tick
<1>2. ASSUME NEW d \in Drones
      PROVE  draw[d].roll \in Int /\ draw[d].moves \in BOOLEAN /\ draw[d].drift \in Int
  <2> DEFINE rolls == IF "spontaneous" \in panel THEN LinkRoll..QuietRoll ELSE {QuietRoll}
             moving == IF "drain" \in panel THEN BOOLEAN ELSE {FALSE}
             drifts == IF "drift" \in panel THEN {-1, 0, 1} ELSE {0}
  <2>1. rolls \subseteq Int
    BY DEF LinkRoll, QuietRoll
  <2>2. moving \subseteq BOOLEAN
    OBVIOUS
  <2>3. drifts \subseteq Int
    OBVIOUS
  <2>4. Draws = [roll : rolls, moves : moving, drift : drifts]
    BY DEF Draws
  <2> HIDE DEF rolls, moving, drifts
  <2>5. draw[d] \in [roll : rolls, moves : moving, drift : drifts]
    BY <1>1, <2>4
  <2> QED BY <2>1, <2>2, <2>3, <2>5
<1>3. \A d \in Drones : Calm(craft[d], craft'[d])
  BY <1>1, <1>2, IntervalIsCalm DEF Flying
<1> QED BY <1>1, <1>3 DEF Flying, Calm, Keeps

LEMMA Queued ==
  ASSUME NEW S, NEW q \in Seq(S)
  PROVE  /\ q # <<>> => Head(q) \in S /\ Tail(q) \in Seq(S)
         /\ \A x \in S : Append(q, x) \in Seq(S)
         /\ <<>> \in Seq(S)
OBVIOUS

LEMMA Carried ==
  ASSUME Orders, up # <<>>
  PROVE  Head(up).drone \in Drones /\ Head(up).kind \in BoardKind
<1>1. Head(up) \in Order
  BY Queued DEF Orders
<1> QED BY <1>1 DEF Order

LEMMA InitHolds == Init => IInv
<1> SUFFICES ASSUME Init PROVE IInv
  OBVIOUS
<1>1. ASSUME NEW d \in Drones
      PROVE  /\ Built(d) \in Craft /\ Built(d).cut = FALSE /\ Built(d).returning = FALSE
             /\ Built(d).target = 0 /\ Built(d).height = 0 /\ Built(d).airborne = FALSE
  <2>1. Bench[d] \in Place /\ 0 \in Height /\ Full \in Charge
    BY FleetAssumption DEF Place, Height, Charge
  <2> QED BY <2>1 DEF Built, Craft
<1>2. \A d \in Drones : craft[d] = Built(d)
  BY DEF Init, FleetInit
<1>3. craft \in [Drones -> Craft]
  BY <1>1 DEF Init, FleetInit
<1>4. Flying
  <2>1. ASSUME NEW d \in Drones
        PROVE  Settling(Built(d)) /\ CutDown(Built(d)) /\ Homeward(Built(d))
    <3>1. Built(d).cut = FALSE /\ Built(d).returning = FALSE
          /\ Built(d).target = 0 /\ Built(d).height = 0
      BY <1>1
    <3> QED BY <3>1 DEF Settling, CutDown, Homeward
  <2> QED BY <1>2, <1>3, <2>1 DEF Flying
<1>5. Lidded
  <2>1. lid = [d \in Drones |-> Top] /\ Top \in Height /\ 0 <= Top
    BY FleetAssumption DEF Init, Height
  <2> QED BY <1>1, <1>2, <2>1 DEF Lidded
<1>6. Orders
  BY DEF Init, Orders
<1>7. Watched
  BY DEF Init, Watched, TakenIsStillRaised
<1> QED BY <1>4, <1>5, <1>6, <1>7 DEF IInv

\* The Fleet's half: only a tick, a carried Command and a key move a craft or a lid.
LEMMA FleetStep ==
  ASSUME IInv, [Next]_vars
  PROVE  Flying' /\ Lidded' /\ panel' = panel
<1>1. Flying /\ Lidded /\ Orders
  BY DEF IInv
<1>2. ASSUME NEW d \in Drones
      PROVE  /\ craft[d] \in Craft /\ craft[d].height \in Nat /\ craft[d].target \in Nat
             /\ lid[d] \in Nat
  BY <1>1, CraftNumbers, FleetAssumption DEF Flying, Lidded, Height
<1>3. CASE Report
  <2>1. Flying' /\ panel' = panel /\ lid' = lid /\ \A d \in Drones : Calm(craft[d], craft'[d])
    BY <1>1, <1>3, TickKeeps DEF Report
  <2>2. ASSUME NEW d \in Drones
        PROVE  craft'[d].height <= lid[d] /\ craft'[d].target <= lid[d]
    <3>1. /\ craft'[d].height \in Nat /\ craft'[d].target \in Nat
          /\ craft'[d].height <= craft[d].height \/ craft'[d].height <= craft[d].target
          /\ craft'[d].target <= craft[d].target
      BY <2>1, CraftNumbers DEF Calm, Keeps
    <3>2. craft[d].height <= lid[d] /\ craft[d].target <= lid[d]
      BY <1>1 DEF Lidded
    <3> QED BY <1>2, <3>1, <3>2
  <2> QED BY <1>1, <2>1, <2>2 DEF Lidded
<1>4. CASE Carry
  <2>1. CASE ~isCommandable
    BY <1>1, <1>4, <2>1 DEF Carry, fleetVars, Flying, Lidded
  <2>2. CASE isCommandable
    <3> DEFINE d == Head(up).drone
               n == Commanded(d, Head(up).kind)
    <3>1. d \in Drones /\ Head(up).kind \in BoardKind
      BY <1>1, <1>4, Carried DEF Carry
    <3>2. Becomes(d, n) /\ lid' = [lid EXCEPT ![d] = craft[d].height]
      BY <1>4, <2>2 DEF Carry
    <3>3. /\ Asked(craft[d], n)
          /\ n.height = craft[d].height /\ n.target <= craft[d].height
      BY <1>1, <3>1, CommandLowers DEF Flying
    <3> HIDE DEF d, n
    <3>4. Flying' /\ panel' = panel
      BY <1>1, <3>1, <3>2, <3>3, AskedOfOne
    <3>5. /\ craft[d].height \in Height
          /\ \A e \in Drones : craft'[e] = IF e = d THEN n ELSE craft[e]
      BY <1>1, <3>1, <3>2, CraftNumbers DEF Flying, Becomes
    <3>6. Lidded'
      BY <1>1, <1>2, <3>1, <3>2, <3>3, <3>5 DEF Lidded
    <3> QED BY <3>4, <3>6
  <2> QED BY <2>1, <2>2
<1>5. CASE Scenario
  <2>1. Flying' /\ panel' = panel
    BY <1>1, <1>5, DemonstrateKeeps DEF Scenario
  <2>2. lid' = [d \in Drones |-> IF craft'[d].target > craft[d].target
                                   \/ craft'[d].height > craft[d].height THEN Top ELSE lid[d]]
    BY <1>5 DEF Scenario
  <2>3. ASSUME NEW d \in Drones
        PROVE  /\ lid'[d] \in Height
               /\ craft'[d].height <= lid'[d] /\ craft'[d].target <= lid'[d]
    <3>1. /\ craft'[d].height \in Nat /\ craft'[d].target \in Nat
          /\ craft'[d].height <= Top /\ craft'[d].target <= Top
      BY <2>1, CraftNumbers DEF Flying
    <3>2. /\ craft[d].height <= lid[d] /\ craft[d].target <= lid[d]
          /\ lid[d] \in Height /\ Top \in Height
      BY <1>1, FleetAssumption DEF Lidded, Height
    <3> QED BY <1>2, <2>2, <3>1, <3>2
  <2> QED BY <2>1, <2>2, <2>3 DEF Lidded
<1>6. CASE ~Report /\ ~Carry /\ ~Scenario
  <2>1. UNCHANGED <<craft, panel, lid>>
    BY <1>6 DEF Next, Connect, Break, HearState, HearOutcome, Second, Take, Reopen, Press,
                vars, fleetVars
  <2> QED BY <1>1, <2>1 DEF Flying, Lidded
<1> QED BY <1>3, <1>4, <1>5, <1>6

\* The board's half: what it sends, and what it remembers as taken.
LEMMA BoardStep ==
  ASSUME IInv, [Next]_vars
  PROVE  Orders' /\ Watched'
<1>1. Orders /\ Watched
  BY DEF IInv
<1>2. Orders'
  <2>1. CASE Carry
    <3>1. up # <<>> /\ up' = Tail(up) /\ presses' = presses
      BY <2>1 DEF Carry
    <3> QED BY <1>1, <3>1, Queued DEF Orders
  <2>2. ASSUME NEW d \in Drones, NEW kind \in BoardKind, Press(d, kind)  PROVE Orders'
    <3> DEFINE order == [drone |-> d, kind |-> kind, id |-> presses']
    <3>1. presses' \in Nat /\ up' \in {Append(up, order), up}
      BY <1>1, <2>2 DEF Press, Orders
    <3>2. order \in Order
      BY <3>1 DEF Order
    <3> HIDE DEF order
    <3> QED BY <1>1, <3>1, <3>2, Queued DEF Orders
  <2>3. CASE Connect \/ Break
    <3>1. up' = <<>> /\ presses' = presses
      BY <2>3 DEF Connect, Break
    <3> QED BY <1>1, <3>1, Queued DEF Orders
  <2>4. CASE Report \/ Scenario \/ HearState \/ HearOutcome \/ Second \/ Take \/ Reopen
    BY <1>1, <2>4 DEF Report, Scenario, HearState, HearOutcome, Second, Take, Reopen, wire, Orders
  <2>5. CASE UNCHANGED vars
    BY <1>1, <2>5 DEF vars, wire, Orders
  <2> QED BY <2>1, <2>2, <2>3, <2>4, <2>5 DEF Next
<1>3. ASSUME NEW seen, taken' = [d \in Drones |-> Remembered(taken[d], seen[d])],
             board' = seen, DOMAIN seen = Drones
      PROVE  Watched'
  <2>1. ASSUME NEW d \in Drones, NEW kind \in AlertKind
        PROVE  /\ taken'[d][kind] \in Severity \cup {"none"}
               /\ taken'[d][kind] # "none" => Raised(seen[d], kind)
    BY <1>1, <1>3 DEF Remembered, Watched
  <2>2. taken' \in [Drones -> [AlertKind -> Severity \cup {"none"}]]
    <3>1. \A d \in Drones : taken'[d] = Remembered(taken[d], seen[d])
      BY <1>3
    <3>2. \A d \in Drones : taken'[d] \in [AlertKind -> Severity \cup {"none"}]
      BY <2>1, <3>1 DEF Remembered
    <3> QED BY <1>3, <3>2
  <2>3. \A d \in Drones : board' # Unknown
    BY <1>3 DEF Unknown
  <2> QED BY <1>3, <2>1, <2>2, <2>3 DEF Watched, TakenIsStillRaised
<1>4. ASSUME HearState  PROVE Watched'
  <2>1. DOMAIN board' = Drones
    BY <1>4 DEF HearState
  <2>2. taken' = [d \in Drones |-> Remembered(taken[d], board'[d])]
    BY <1>4, Zenon DEF HearState, Effects
  <2> QED BY <1>3, <2>1, <2>2
<1>5. ASSUME Second  PROVE Watched'
  <2>1. DOMAIN board' = Drones
    BY <1>5 DEF Second
  <2>2. taken' = [d \in Drones |-> Remembered(taken[d], board'[d])]
    BY <1>5, Zenon DEF Second, Effects
  <2> QED BY <1>3, <2>1, <2>2
<1>6. ASSUME Take  PROVE Watched'
  <2>1. PICK e \in alertQueue :
          taken' = [taken EXCEPT ![e[1]][e[2]] = severityOf(board[e[1]], e[2])]
    BY <1>6 DEF Take
  <2>2. board' = board /\ board # Unknown /\ e[1] \in Drones /\ e[2] \in AlertKind
        /\ Raised(board[e[1]], e[2])
    BY <1>6, <2>1 DEF Take, alertQueue
  <2> DEFINE a == e[1]
             k == e[2]
             s == severityOf(board[a], k)
  <2>3. s \in Severity
    BY DEF severityOf, Severity
  <2>6. taken' = [taken EXCEPT ![a][k] = s] /\ a \in Drones /\ k \in AlertKind
        /\ Raised(board[a], k)
    BY <2>1, <2>2
  <2> HIDE DEF a, k, s
  <2>4. taken' \in [Drones -> [AlertKind -> Severity \cup {"none"}]]
    BY <1>1, <2>3, <2>6 DEF Watched
  <2>5. \A d \in Drones, kind \in AlertKind :
           taken'[d][kind] # "none" => taken[d][kind] # "none" \/ (d = a /\ kind = k)
    BY <1>1, <2>6 DEF Watched
  <2> QED BY <1>1, <2>2, <2>4, <2>5, <2>6 DEF Watched, TakenIsStillRaised
<1>7. ASSUME ~HearState /\ ~Second /\ ~Take  PROVE Watched'
  <2>1. UNCHANGED <<taken, board>>
    <3>1. CASE Report \/ Carry \/ Scenario \/ Connect \/ Break
      BY <3>1 DEF Report, Carry, Scenario, Connect, Break, tracked
    <3>2. CASE HearOutcome \/ Reopen
      BY <3>2 DEF HearOutcome, Reopen
    <3>3. ASSUME NEW d \in Drones, NEW kind \in BoardKind, Press(d, kind)
          PROVE  UNCHANGED <<taken, board>>
      BY <3>3 DEF Press
    <3>4. CASE UNCHANGED vars
      BY <3>4 DEF vars, tracked
    <3> QED BY <1>7, <3>1, <3>2, <3>3, <3>4 DEF Next
  <2> QED BY <1>1, <2>1 DEF Watched, TakenIsStillRaised
<1> QED BY <1>2, <1>4, <1>5, <1>6, <1>7

-----------------------------------------------------------------------------
(* The theorems. *)

\* What every Command, key, interval and message keeps of the Fleet and the board.
THEOREM FlightInductive == Spec => []IInv
<1>1. IInv /\ [Next]_vars => IInv'
  BY FleetStep, BoardStep DEF IInv
<1> QED BY <1>1, InitHolds, PTL DEF Spec

\* No Command of a strip takes a Drone higher than it was when the Fleet carried it.
THEOREM NoCommandTakesUp == Spec => []NeverHigherAfterCommand
<1>1. IInv => NeverHigherAfterCommand
  BY DEF IInv, Lidded, NeverHigherAfterCommand
<1> QED BY <1>1, FlightInductive, PTL

\* A Drone cut is never flown before it is released, but by the altitude slider.
THEOREM CutIsDown == Spec => []CutStaysDown
<1>1. IInv => CutStaysDown
  BY DEF IInv, Flying, CutDown, CutStaysDown
<1> QED BY <1>1, FlightInductive, PTL

\* An Alert on record as taken is raised on the board that shows it.
THEOREM NothingStaysTaken == Spec => []TakenIsStillRaised
<1>1. IInv => TakenIsStillRaised
  BY DEF IInv, Watched
<1> QED BY <1>1, FlightInductive, PTL

\* A recalled Drone that loses height is at its home or being landed by the
\* station's key, unless a hand moved it.
THEOREM RecallCrossesTheRoom == Spec => RecalledDescendsAtHome
<1> DEFINE Descends ==
        panel \cap ByHand = {} =>
          \A d \in Drones :
            craft[d].returning /\ craft[d]'.returning /\ craft[d]'.height < craft[d].height
              => craft[d].place = craft[d].home \/ craft[d].autoLanding
<1>1. IInv /\ [Next]_vars => [Descends]_vars
  <2> SUFFICES ASSUME IInv, [Next]_vars, panel \cap ByHand = {}, NEW d \in Drones,
                      craft[d].returning, craft[d]'.returning,
                      craft[d]'.height < craft[d].height
               PROVE  craft[d].place = craft[d].home \/ craft[d].autoLanding
    OBVIOUS
  <2>1. Flying /\ Orders /\ Homeward(craft[d]) /\ craft[d].height \in Nat
    BY CraftNumbers DEF IInv, Flying
  <2>2. CASE Report
    BY <2>1, <2>2, TickKeeps DEF Report, Calm
  <2>3. CASE Carry
    <3>1. CASE ~isCommandable
      BY <2>1, <2>3, <3>1 DEF Carry, fleetVars
    <3>2. CASE isCommandable
      <4>1. Head(up).drone \in Drones /\ Head(up).kind \in BoardKind
        BY <2>1, <2>3, Carried DEF Carry
      <4>2. Becomes(Head(up).drone, Commanded(Head(up).drone, Head(up).kind))
        BY <2>3, <3>2 DEF Carry
      <4>3. Asked(craft[Head(up).drone], Commanded(Head(up).drone, Head(up).kind))
        BY <2>1, <4>1, CommandLowers DEF Flying
      <4>4. HeightHeld
        BY <2>1, <4>1, <4>2, <4>3, AskedOfOne
      <4> QED BY <2>1, <4>4 DEF HeightHeld
    <3> QED BY <3>1, <3>2
  <2>4. CASE Scenario
    <3>1. HeightHeld
      BY <2>1, <2>4, DemonstrateKeeps DEF Scenario
    <3> QED BY <2>1, <3>1 DEF HeightHeld
  <2>5. CASE ~Report /\ ~Carry /\ ~Scenario
    <3>1. craft' = craft
      BY <2>5 DEF Next, Connect, Break, HearState, HearOutcome, Second, Take, Reopen, Press,
                  vars, fleetVars
    <3> QED BY <2>1, <3>1
  <2> QED BY <2>2, <2>3, <2>4, <2>5
<1> QED BY <1>1, FlightInductive, PTL DEF Spec, RecalledDescendsAtHome
=============================================================================
