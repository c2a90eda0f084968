----------------------------- MODULE CurveEditor -----------------------------
(***************************************************************************)
(* The points of a fan curve: how a stored curve is made regular and read  *)
(* between its points (victus-core fan.rs), and how the editor changes it  *)
(* (victus-hub curve.rs and paint.rs).  The editor addresses points by     *)
(* their index, which another window, the other curve or the Delete key    *)
(* may have given to another point.                                        *)
(***************************************************************************)
EXTENDS Integers, SequencesExt, FiniteSetsExt

CONSTANTS
  Low, High,   (* TEMP_MIN_C, and the curve's temp_max                       *)
  Full,        (* 100 %                                                      *)
  FileTemps,   (* temperatures a stored curve may have                       *)
  FileSpeeds,  (* speeds a stored curve may have                             *)
  MaxPoints    (* bound: points of a curve                                   *)

ASSUME EditorAssumption ==
  /\ Low \in Int /\ High \in Int /\ Low < High /\ Full \in Nat
  /\ FileTemps \subseteq Int /\ FileSpeeds \subseteq Int /\ MaxPoints \in Nat

VARIABLES
  points,         (* of the curve on show                                    *)
  drag,           (* the index being dragged, 0 for none                     *)
  selectedPoint,  (* selected_point of the session, 0 for none               *)
  tidy            (* every curve stored is one the program stores itself     *)

editorVars == <<points, drag, selectedPoint, tidy>>

Clamp(low, v, high) == IF v < low THEN low ELSE IF v > high THEN high ELSE v

(* sort_by_key: by temperature, and equal ones stay in their order.        *)
Sorted(raw) ==
  CHOOSE order \in [DOMAIN raw -> DOMAIN raw] :
    \A i, j \in DOMAIN raw : i < j =>
      \/ raw[order[i]].temp < raw[order[j]].temp
      \/ raw[order[i]].temp = raw[order[j]].temp /\ order[i] < order[j]

(* normalize_fan_points: sorted, the ends moved to the ends of the axis,   *)
(* and every speed raised to the largest before it.                        *)
Normalize(raw) ==
  IF Len(raw) < 2 THEN <<[temp |-> Low, speed |-> 0], [temp |-> High, speed |-> Full]>>
  ELSE
  LET order == Sorted(raw)
      Speed(i) == Clamp(0, raw[order[i]].speed, Full)
  IN  [i \in DOMAIN raw |->
        [temp |-> IF i = Len(raw) THEN High
                  ELSE IF i = 1 THEN Low ELSE raw[order[i]].temp,
         speed |-> Max({Speed(j) : j \in 1..i})]]

(* interpolate_fan; the rounding of the floating-point product is taken to *)
(* be exact.                                                               *)
Interpolate(curve, temp) ==
  LET above == {i \in 2..Len(curve) : temp <= curve[i].temp}
      next == curve[Min(above)]
      previous == curve[Min(above) - 1]
  IN  IF temp <= curve[1].temp THEN curve[1].speed
      ELSE IF above = {} THEN curve[Len(curve)].speed
      ELSE previous.speed + ((temp - previous.temp) * (next.speed - previous.speed))
                              \div (next.temp - previous.temp)

(* points_from_value: what a file or a request has, made regular.          *)
FilePoints == [temp : FileTemps, speed : FileSpeeds]
Files == UNION {[1..n -> FilePoints] : n \in 1..3}
Stored == {Normalize(raw) : raw \in Files}

(* The curves the program stores itself: points on the axis, no two at the *)
(* same temperature.                                                       *)
OnAxis(raw) ==
  /\ \A i \in DOMAIN raw : raw[i].temp \in Low..High
  /\ \A i, j \in DOMAIN raw : i # j => raw[i].temp # raw[j].temp
StoredTidy == {Normalize(raw) : raw \in {file \in Files : OnAxis(file)}}

-----------------------------------------------------------------------------
(* insert_point: between two points, and on the line between them.         *)
Insertable(temp) ==
  /\ Len(points) < MaxPoints
  /\ \A i \in DOMAIN points : points[i].temp # temp
  /\ temp > points[1].temp
  /\ \E i \in DOMAIN points : points[i].temp > temp

InsertPoint(temp) ==
  LET index == Min({i \in DOMAIN points : points[i].temp > temp})
  IN  /\ points' = InsertAt(points, index,
                            [temp |-> temp, speed |-> Interpolate(points, temp)])
      /\ drag' = index

(* Faulty: an end of the curve takes any speed.                            *)
MovePointFreely(i, temp, speed) ==
  LET last == Len(points)
  IN  points' =
        IF i \notin DOMAIN points THEN points
        ELSE IF i \in {1, last} THEN [points EXCEPT ![i].speed = speed]
        ELSE [points EXCEPT
               ![i].temp = Clamp(points[i - 1].temp + 1, temp, points[i + 1].temp - 1),
               ![i].speed = Clamp(points[i - 1].speed, speed, points[i + 1].speed)]

(* move_point: the ends keep their temperature, the others stay between    *)
(* their neighbours, where there is room.                                  *)
MovePoint(i, temp, speed) ==
  LET last == Len(points)
      left == points[i - 1].temp + 1
      right == points[i + 1].temp - 1
  IN  points' =
        IF i \notin DOMAIN points THEN points
        ELSE IF i = 1
        THEN [points EXCEPT ![1].speed = Min({speed, points[2].speed})]
        ELSE IF i = last
        THEN [points EXCEPT ![last].speed = Max({speed, points[last - 1].speed})]
        ELSE [points EXCEPT
               ![i].temp = IF left <= right THEN Clamp(left, temp, right) ELSE @,
               ![i].speed = Clamp(points[i - 1].speed, speed, points[i + 1].speed)]

(* begin_fan_drag: the nearest point, a new one, or none.                  *)
BeginFanDrag ==
  /\ drag = 0
  /\ \/ drag' \in DOMAIN points /\ UNCHANGED points
     \/ \E temp \in Low..High :
          IF Insertable(temp) THEN InsertPoint(temp) ELSE drag' = 0 /\ UNCHANGED points
  /\ selectedPoint' = drag' /\ UNCHANGED tidy

UpdateFanDrag ==
  /\ drag # 0
  /\ \E temp \in Low..High, speed \in 0..Full : MovePoint(drag, temp, speed)
  /\ UNCHANGED <<drag, selectedPoint, tidy>>

EndFanDrag ==
  /\ drag # 0
  /\ points' = Normalize(points) /\ drag' = 0
  /\ UNCHANGED <<selectedPoint, tidy>>

(* delete_fan_point, of the point under the pointer.                       *)
DeleteFanPoint ==
  /\ \E i \in 2..Len(points) - 1 : points' = Normalize(RemoveAt(points, i))
  /\ drag' = 0 /\ selectedPoint' = 0 /\ UNCHANGED tidy

(* delete_selected_point: a drag goes on, with the point that has the      *)
(* index now.                                                              *)
DeleteSelectedPoint ==
  /\ selectedPoint \in 2..Len(points) - 1
  /\ points' = Normalize(RemoveAt(points, selectedPoint))
  /\ selectedPoint' = 0 /\ UNCHANGED <<drag, tidy>>

(* Another curve comes on show: with the daemon's state, which keeps the   *)
(* selection; because the user asked for the other one, whose selection    *)
(* comes back; or with a profile switched offline, where a drag goes on    *)
(* with the point that has the index in the new curve.                     *)
AnotherCurve ==
  /\ points' \in IF tidy THEN StoredTidy ELSE Stored
  /\ \/ drag' = 0 /\ selectedPoint' \in 0..MaxPoints
     \/ UNCHANGED <<drag, selectedPoint>>
  /\ UNCHANGED tidy

EditorInit ==
  /\ tidy \in BOOLEAN
  /\ points \in IF tidy THEN StoredTidy ELSE Stored
  /\ drag = 0 /\ selectedPoint = 0

EditorNext ==
  \/ BeginFanDrag \/ UpdateFanDrag \/ EndFanDrag
  \/ DeleteFanPoint \/ DeleteSelectedPoint \/ AnotherCurve

EditorSpec == EditorInit /\ [][EditorNext]_editorVars

-----------------------------------------------------------------------------
(* However points are stored, inserted, dragged and deleted, with whatever *)
(* index: a warmer sensor never asks for less (the assumption of           *)
(* FanCurve), and speeds never fall from point to point, or move_point's   *)
(* clamp would panic. A curve the program stores covers the axis to the    *)
(* last degree, and is the one the daemon makes of it when it is pushed,   *)
(* in the middle of a drag too (fan.rs normalize_fan_points,               *)
(* interpolate_fan, paint.rs insert_point, move_point).                    *)
CurveSound ==
  /\ Len(points) >= 2
  /\ \A i \in 1..Len(points) - 1 : points[i].speed <= points[i + 1].speed
  /\ \A s \in Low - 1..High : Interpolate(points, s) <= Interpolate(points, s + 1)
  /\ tidy => /\ Normalize(points) = points
             /\ Interpolate(points, High) = Last(points).speed
=============================================================================
