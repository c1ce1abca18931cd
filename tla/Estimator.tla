------------------------------- MODULE Estimator -------------------------------
(***************************************************************************)
(* The arithmetic of the state estimators of samples/rose_flight_          *)
(* controller: attitude_mahony.hpp, the per-axis Kalman filter of          *)
(* estimator_ekf.hpp with its use in estimator_ekf.cpp, and                *)
(* estimator_complementary.cpp.  One axis is followed through one step of  *)
(* its estimator: predict, correct with the optical flow (x, y) or with    *)
(* the ToF height (z), fuse the walls, report the state the control will   *)
(* find.                                                                   *)
(*                                                                         *)
(* The arithmetic is exact.  A quaternion <<w, x, y, z>> of integers       *)
(* stands for itself over its length, so its rotation matrix and its up    *)
(* vector are over Norm(q); a filter is over its denominator den.  The     *)
(* control period is DT, even, so that half its square is an integer.      *)
(***************************************************************************)
EXTENDS Integers, Sequences

CONSTANTS DT,
          Gravity,
          Component,     \* the values of a component of a quaternion, a rate or a force
          Variances,     \* of the initial covariance and of the noises
          Readings       \* positions, velocities and accelerations

VARIABLES
    filter, axis,          \* "ekf" or "complementary"; "x" (and y) or "z"
    q, gyro, accel,        \* attitude, body rates, specific force
    kf, before,            \* the axis' filter; what it was before the last step
    aw, vpc, meas, lead    \* the world acceleration; the last measurement; what is reported

axisVars == <<filter, axis, q, gyro, accel, kf, before, aw, vpc, meas, lead>>

-----------------------------------------------------------------------------
(* MahonyAttitude *)

Norm(r) == r[1]*r[1] + r[2]*r[2] + r[3]*r[3] + r[4]*r[4]
Dot(a, b) == a[1]*b[1] + a[2]*b[2] + a[3]*b[3]
Cross(a, b) == <<a[2]*b[3] - a[3]*b[2], a[3]*b[1] - a[1]*b[3], a[1]*b[2] - a[2]*b[1]>>

\* The body-to-world rotation matrix
Rot(r) ==
    LET w == r[1]  x == r[2]  y == r[3]  z == r[4]  n == Norm(r) IN
    << <<n - 2*(y*y + z*z), 2*(x*y - w*z), 2*(x*z + w*y)>>,
       <<2*(x*y + w*z), n - 2*(x*x + z*z), 2*(y*z - w*x)>>,
       <<2*(x*z - w*y), 2*(y*z + w*x), n - 2*(x*x + y*y)>> >>

\* The world's up in the body's frame, as update has it
Up(r) == <<2*(r[2]*r[4] - r[1]*r[3]), 2*(r[3]*r[4] + r[1]*r[2]), Norm(r) - 2*(r[2]*r[2] + r[3]*r[3])>>

\* Mutant of Trim: the third component has the other sign.
TrimSign(r, f) ==
    LET v == Up(r) IN <<f[2]*v[3] - f[3]*v[2], f[3]*v[1] - f[1]*v[3], f[2]*v[1] - f[1]*v[2]>>

\* The correction that the accelerometer adds to the body rates, up to its gain
Trim(r, f) ==
    LET v == Up(r) IN <<f[2]*v[3] - f[3]*v[2], f[3]*v[1] - f[1]*v[3], f[1]*v[2] - f[2]*v[1]>>

\* Twice the derivative of the quaternion under the body rates w, in update and in get_state
Rate(r, w) == << -(r[2]*w[1] + r[3]*w[2] + r[4]*w[3]),
                 r[1]*w[1] + r[3]*w[3] - r[4]*w[2],
                 r[1]*w[2] - r[2]*w[3] + r[4]*w[1],
                 r[1]*w[3] + r[2]*w[2] - r[3]*w[1] >>

\* The acceleration in the world's frame, over Norm(r)
WorldAccel(r, f) ==
    LET R == Rot(r) IN <<Dot(R[1], f), Dot(R[2], f), Dot(R[3], f) - Gravity * Norm(r)>>

-----------------------------------------------------------------------------
(* Kf3 *)

H2 == (DT * DT) \div 2

Filter(p0, v0, ba0, P0) == [den |-> 1, p |-> p0, v |-> v0, ba |-> ba0, P |-> P0]

Sym(p00, p01, p02, p11, p12, p22) == << <<p00, p01, p02>>, <<p01, p11, p12>>, <<p02, p12, p22>> >>

\* Mutant of Predict: the bias is left out of the covariance between position and velocity.
PredictShort(s, a, sigma_a2, sigma_ba2) ==
    LET P == s.P
        a00 == P[1][1] + DT * P[1][2] - H2 * P[1][3]
        a01 == P[1][2] + DT * P[2][2] - H2 * P[2][3]
        a02 == P[1][3] + DT * P[2][3] - H2 * P[3][3]
        a11 == P[2][2] - DT * P[2][3]
        a12 == P[2][3] - DT * P[3][3]
    IN [s EXCEPT !.p = @ + s.v * DT + H2 * (a * s.den - s.ba),
                 !.v = @ + (a * s.den - s.ba) * DT,
                 !.P = Sym(a00 + a01 * DT - a02 * H2 + s.den * sigma_a2 * H2 * H2,
                           a01 + s.den * sigma_a2 * H2 * DT,
                           a02,
                           a11 - a12 * DT + s.den * sigma_a2 * DT * DT,
                           a12,
                           P[3][3] + s.den * sigma_ba2 * DT * DT)]

\* Kf3::predict with the measured acceleration a
Predict(s, a, sigma_a2, sigma_ba2) ==
    LET P == s.P
        a00 == P[1][1] + DT * P[1][2] - H2 * P[1][3]
        a01 == P[1][2] + DT * P[2][2] - H2 * P[2][3]
        a02 == P[1][3] + DT * P[2][3] - H2 * P[3][3]
        a11 == P[2][2] - DT * P[2][3]
        a12 == P[2][3] - DT * P[3][3]
    IN [s EXCEPT !.p = @ + s.v * DT + H2 * (a * s.den - s.ba),
                 !.v = @ + (a * s.den - s.ba) * DT,
                 !.P = Sym(a00 + a01 * DT - a02 * H2 + s.den * sigma_a2 * H2 * H2,
                           a01 - a02 * DT + s.den * sigma_a2 * H2 * DT,
                           a02,
                           a11 - a12 * DT + s.den * sigma_a2 * DT * DT,
                           a12,
                           P[3][3] + s.den * sigma_ba2 * DT * DT)]

\* Is the measurement too far from x, when its variance is S?  Both are over den.
Gated(s, m, x, S, gate) == LET resid == m * s.den - x IN gate > 0 /\ resid * resid > gate * S * s.den

\* update_pos (i = 1) and update_vel (i = 2) with a measurement of variance r
Correct(s, i, m, r) ==
    LET S == s.P[i][i] + r * s.den
        x == IF i = 1 THEN s.p ELSE s.v
        resid == m * s.den - x
    IN [den |-> s.den * S,
        p |-> s.p * S + s.P[i][1] * resid, v |-> s.v * S + s.P[i][2] * resid, ba |-> s.ba * S + s.P[i][3] * resid,
        P |-> [j \in 1 .. 3 |-> [k \in 1 .. 3 |-> s.P[j][k] * S - s.P[i][j] * s.P[i][k]]]]

-----------------------------------------------------------------------------
(* One step of an estimator *)

NoMeas == [row |-> 0, at |-> 0]
SIGMA_A2 == 1
SIGMA_BA2 == 1
FLOW_GATE == 9
TOF_GATE == 25

\* init, after earlier steps: any covariance that is a square
Squares == {<<a, b, c>> : a \in Variances, b \in Variances, c \in {0, 1}}
Covariance(l) == Sym(l[1]*l[1], l[1]*l[3], 0, l[3]*l[3] + l[2]*l[2], 0, l[2]*l[2])

Init ==
    /\ \/ vpc = "attitude" /\ filter = "ekf" /\ axis = "x" /\ q \in [1 .. 4 -> Component] /\ Norm(q) > 0
          /\ gyro \in [1 .. 3 -> Component] /\ accel \in [1 .. 3 -> Component]
          /\ kf = Filter(0, 0, 0, Covariance(<<1, 1, 0>>))
       \/ vpc = "predict" /\ filter \in {"ekf", "complementary"} /\ axis \in {"x", "z"}
          /\ q = <<1, 0, 0, 0>> /\ gyro = <<0, 0, 0>> /\ accel = <<0, 0, 0>>
          /\ \E p0, v0, b0 \in Readings, l \in Squares : kf = Filter(p0, v0, b0, Covariance(l))
    /\ before = kf /\ aw = 0 /\ meas = NoMeas /\ lead = <<0, 0>>

\* The attitude is turned by one step of the body rates; its length is normalised.
Turn ==
    /\ vpc = "attitude" /\ vpc' = "end"
    /\ q' = [i \in 1 .. 4 |-> 2 * q[i] + DT * Rate(q, gyro)[i]]
    /\ UNCHANGED <<filter, axis, gyro, accel, kf, before, aw, meas, lead>>

\* The complementary filter has no covariance and no bias.
PredictStep ==
    /\ vpc = "predict" /\ vpc' = "correct"
    /\ \E a \in Readings :
          /\ aw' = a
          /\ kf' = IF filter = "ekf" THEN Predict(kf, a, SIGMA_A2, SIGMA_BA2)
                   ELSE [kf EXCEPT !.v = @ + a * DT, !.ba = 0]
    /\ before' = kf /\ meas' = NoMeas
    /\ UNCHANGED <<filter, axis, q, gyro, accel, lead>>

\* A flow dropout, or no fresh ToF sample
NoSample ==
    /\ vpc = "correct" /\ vpc' = "walls"
    /\ kf' = IF filter = "ekf" THEN kf ELSE [kf EXCEPT !.p = @ + kf.v * DT]
    /\ before' = kf /\ meas' = NoMeas
    /\ UNCHANGED <<filter, axis, q, gyro, accel, aw, lead>>

\* Optical flow gives the velocity of x and y, the ToF sensor the position of z.
EkfCorrect ==
    /\ vpc = "correct" /\ filter = "ekf" /\ vpc' = "walls"
    /\ \E m \in Readings, r \in Variances \ {0} :
          LET i == IF axis = "x" THEN 2 ELSE 1
              x == IF i = 1 THEN kf.p ELSE kf.v
              gate == IF axis = "x" THEN FLOW_GATE ELSE TOF_GATE
          IN IF Gated(kf, m, x, kf.P[i][i] + r * kf.den, gate)
             THEN kf' = kf /\ meas' = NoMeas
             ELSE kf' = Correct(kf, i, m, r) /\ meas' = [row |-> i, at |-> m]
    /\ before' = kf
    /\ UNCHANGED <<filter, axis, q, gyro, accel, aw, lead>>

\* z_gain = 0.5 and vz_gain = 0.3
BlendZ(s, m) ==
    LET rz == m * s.den - s.p IN [s EXCEPT !.den = 10 * @, !.p = 10 * @ + 5 * rz, !.v = 10 * @ + 3 * rz]

\* flow_gain = 1: the flow replaces the velocity before the position is moved; the ToF
\* height corrects the position after that.
ComplementaryCorrect ==
    /\ vpc = "correct" /\ filter = "complementary" /\ vpc' = "walls"
    /\ \E m \in Readings :
          /\ meas' = [row |-> IF axis = "x" THEN 2 ELSE 1, at |-> m]
          /\ IF axis = "x"
             THEN before' = kf /\ kf' = [kf EXCEPT !.v = m * kf.den, !.p = @ + m * kf.den * DT]
             ELSE before' = [kf EXCEPT !.p = @ + kf.v * DT] /\ kf' = BlendZ(before', m)
    /\ UNCHANGED <<filter, axis, q, gyro, accel, aw, lead>>

\* fuse_walls: the middle between two walls that are both in range is a position of x or y.
FuseWalls ==
    /\ vpc = "walls" /\ vpc' = "report"
    /\ \/ /\ filter = "ekf" /\ axis = "x"
          /\ \E m \in Readings, r \in Variances \ {0} :
                kf' = Correct(kf, 1, m, r) /\ meas' = [row |-> 1, at |-> m]
       \/ kf' = kf /\ meas' = NoMeas
    /\ before' = kf
    /\ UNCHANGED <<filter, axis, q, gyro, accel, aw, lead>>

\* get_state: position and velocity one control period ahead
Lead(s, a) ==
    IF filter = "ekf" THEN << s.p + s.v * DT + H2 * (a * s.den - s.ba), s.v + (a * s.den - s.ba) * DT >>
    ELSE << s.p + s.v * DT, s.v + a * s.den * DT >>

Report ==
    /\ vpc = "report" /\ vpc' = "end"
    /\ lead' = Lead(kf, aw) /\ before' = kf /\ meas' = NoMeas
    /\ UNCHANGED <<filter, axis, q, gyro, accel, kf, aw>>

Next == Turn \/ PredictStep \/ NoSample \/ EkfCorrect \/ ComplementaryCorrect \/ FuseWalls \/ Report

\* For a check of this module alone.
Spec == Init /\ [][Next]_axisVars

-----------------------------------------------------------------------------
\* The matrix is a rotation, with the up vector of the trim as its third row, and a
\* vehicle at rest, whose accelerometer feels gravity along up, does not accelerate.
RotationProper ==
    LET n == Norm(q)  R == Rot(q)  rest == WorldAccel(q, [i \in 1 .. 3 |-> Gravity * Up(q)[i]]) IN
    /\ \A i, j \in 1 .. 3 : Dot(R[i], R[j]) = IF i = j THEN n * n ELSE 0
    /\ Cross(R[1], R[2]) = [i \in 1 .. 3 |-> n * R[3][i]]
    /\ R[3] = Up(q)
    /\ \A i \in 1 .. 2 : rest[i] = 0
    /\ rest[3] = Gravity * n * (n - 1)

\* The accelerometer corrects the tilt and never the heading, which it cannot see: its
\* correction has no part along up, and there is none when what it feels is along up.
\* A step of the quaternion is orthogonal to it, so its length grows only to second order.
TrimKeepsHeading ==
    /\ Dot(Trim(q, accel), Rot(q)[3]) = 0
    /\ Trim(q, Rot(q)[3]) = <<0, 0, 0>>
    /\ LET d == Rate(q, gyro) IN q[1]*d[1] + q[2]*d[2] + q[3]*d[3] + q[4]*d[4] = 0

\* The reference for predict: F P F^T + Q
F == << <<1, DT, -H2>>, <<0, 1, -DT>>, <<0, 0, 1>> >>
Q == << <<H2 * H2 * SIGMA_A2, H2 * DT * SIGMA_A2, 0>>,
        <<H2 * DT * SIGMA_A2, DT * DT * SIGMA_A2, 0>>,
        <<0, 0, DT * DT * SIGMA_BA2>> >>
FPFtQ(P, den) ==
    [i \in 1 .. 3 |-> [j \in 1 .. 3 |->
        den * Q[i][j] + Dot(F[i], [k \in 1 .. 3 |-> Dot(P[k], F[j])])]]

Quadratic(P, x) == Dot(x, [i \in 1 .. 3 |-> Dot(P[i], x)])

\* The covariance stays one: it is carried on as the model of the motion says, every
\* combination of the states keeps a variance that is not negative, and a measurement
\* makes none of the three less certain.
CovarianceSound ==
    filter = "ekf" =>
        /\ vpc = "correct" => kf.P = FPFtQ(before.P, before.den)
        /\ \A x \in [1 .. 3 -> -1 .. 1] : Quadratic(kf.P, x) >= 0
        /\ meas.row # 0 => \A i \in 1 .. 3 : kf.P[i][i] <= before.P[i][i] * (kf.den \div before.den)

\* A measurement that is let in draws what it measures towards itself and never past
\* itself, in both filters.
DrawnToMeasurement ==
    meas.row # 0 =>
        LET x(s)  == IF meas.row = 1 THEN s.p ELSE s.v
            was   == (meas.at * before.den - x(before)) * (kf.den \div before.den)
            is    == meas.at * kf.den - x(kf)
        IN (was >= 0 /\ 0 <= is /\ is <= was) \/ (was <= 0 /\ was <= is /\ is <= 0)

\* What the Kalman filter reports is what its own prediction would be one period later
\* under the same acceleration: the bias it has found is not put back in.
LeadIsPrediction ==
    filter = "ekf" /\ vpc = "end" /\ before = kf /\ lead # <<0, 0>> =>
        LET next == Predict(kf, aw, SIGMA_A2, SIGMA_BA2) IN lead = <<next.p, next.v>>
=============================================================================
