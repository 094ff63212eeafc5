----------------------------- MODULE AttitudeMath -----------------------------
(***************************************************************************)
(* The attitude arithmetic: quaternions, 3 x 3 and flat matrices           *)
(* (math_utils.c), the prediction of the error-state filter (taskADCS.c)   *)
(* and the rotations of the magnetic field (igrf13.c), on inputs for which *)
(* every result is an integer: turns that map the cube to itself.  A       *)
(* quaternion of length 1 is kept as the shortest integer vector of its    *)
(* direction, so quat_normalize divides by a common factor; variances are  *)
(* multiples of a unit.  Rounding is left out.                             *)
(***************************************************************************)
EXTENDS Integers, FiniteSets, FiniteSetsExt

CONSTANTS Axes,        \* axes of the turns, 0 .. 2 -> Int
          MaxTurns     \* bound on the turns in a row

ASSUME AttitudeMathAssumption == Axes \subseteq [0 .. 2 -> Int] /\ MaxTurns \in Nat

VARIABLES
    q,        \* attitude, q[3] is the scalar
    v,        \* the vector Fixed in the frame of the body, turn by turn
    R,        \* product of the matrices of the turns
    P,        \* covariance of the filter, a flat 6 x 6 array
    ref,      \* the same by the textbook, indexed <<row, column>>
    turns,    \* turns so far
    nan,      \* a turn of zero was divided by its length
    eci       \* a magnetic field turned to the inertial frame: [ned, place, out]

mathVars == <<q, v, R, P, ref, turns, nan, eci>>

--------------------------------------------------------------------------------
(* Quaternions and vectors *)

(* Seeded fault: two of the products have the wrong order. *)
quat_mult_swapped(l, r) ==
    [i \in 0 .. 3 |->
        CASE i = 0 -> l[3]*r[0] + l[2]*r[1] - l[1]*r[2] + l[0]*r[3]
          [] i = 1 -> l[2]*r[0] + l[3]*r[1] - l[0]*r[2] + l[1]*r[3]
          [] i = 2 -> l[0]*r[1] - l[1]*r[0] + l[3]*r[2] + l[2]*r[3]
          [] OTHER -> l[3]*r[3] - l[0]*r[0] - l[1]*r[1] - l[2]*r[2]]

quat_mult(l, r) ==
    [i \in 0 .. 3 |->
        CASE i = 0 -> l[3]*r[0] - l[2]*r[1] + l[1]*r[2] + l[0]*r[3]
          [] i = 1 -> l[2]*r[0] + l[3]*r[1] - l[0]*r[2] + l[1]*r[3]
          [] i = 2 -> l[0]*r[1] - l[1]*r[0] + l[3]*r[2] + l[2]*r[3]
          [] OTHER -> l[3]*r[3] - l[0]*r[0] - l[1]*r[1] - l[2]*r[2]]

Square(f) == MapThenSumSet(LAMBDA i : f[i] * f[i], DOMAIN f)

(* A quaternion of zeros stays as it is. *)
quat_normalize(a) ==
    LET common == {d \in 1 .. 8 : \A i \in 0 .. 3 : a[i] % d = 0}
    IN IF Square(a) = 0 THEN a ELSE [i \in 0 .. 3 |-> a[i] \div Max(common)]

quat_conjugate(a) == [i \in 0 .. 3 |-> IF i = 3 THEN a[3] ELSE -a[i]]
quat_inverse(a) == quat_conjugate(quat_normalize(a))

(* conj(q) v q; the length of q is 1. *)
quat_frame_conv(a, u) ==
    LET res == quat_mult(quat_mult(quat_conjugate(a), [i \in 0 .. 3 |-> IF i = 3 THEN 0 ELSE u[i]]), a)
    IN [i \in 0 .. 2 |-> res[i] \div Square(a)]

quat_to_dcm(a) ==
    LET s == Square(a)
        Off(i, j, k, sign) == 2 * (a[i] * a[j] + sign * a[k] * a[3])
    IN [x \in 0 .. 8 |->
        (CASE x = 0 -> a[0]*a[0] - a[1]*a[1] - a[2]*a[2] + a[3]*a[3]
           [] x = 1 -> Off(0, 1, 2, 1)
           [] x = 2 -> Off(0, 2, 1, -1)
           [] x = 3 -> Off(0, 1, 2, -1)
           [] x = 4 -> a[1]*a[1] - a[0]*a[0] - a[2]*a[2] + a[3]*a[3]
           [] x = 5 -> Off(1, 2, 0, 1)
           [] x = 6 -> Off(0, 2, 1, 1)
           [] x = 7 -> Off(1, 2, 0, -1)
           [] OTHER -> a[2]*a[2] - a[0]*a[0] - a[1]*a[1] + a[3]*a[3]) \div s]

(* The largest component, the first of equals, comes from the diagonal and *)
(* the others from sums and differences across it.  All are multiplied by  *)
(* four times the largest here.                                            *)
quat_from_dcm(m) ==
    LET diag == [i \in 0 .. 3 |->
                    CASE i = 0 -> 1 + m[0] - m[4] - m[8]
                      [] i = 1 -> 1 - m[0] + m[4] - m[8]
                      [] i = 2 -> 1 - m[0] - m[4] + m[8]
                      [] OTHER -> 1 + m[0] + m[4] + m[8]]
        max == Min({i \in 0 .. 3 : \A j \in 0 .. 3 : diag[i] >= diag[j]})
        Sums(i, j) == CASE {i, j} = {0, 1} -> m[1] + m[3]
                        [] {i, j} = {0, 2} -> m[2] + m[6]
                        [] {i, j} = {1, 2} -> m[5] + m[7]
                        [] {i, j} = {0, 3} -> m[5] - m[7]
                        [] {i, j} = {1, 3} -> m[6] - m[2]
                        [] OTHER -> m[1] - m[3]
    IN quat_normalize([i \in 0 .. 3 |-> IF i = max THEN diag[i] ELSE Sums(i, max)])

vec_inner_product(a, b) == MapThenSumSet(LAMBDA i : a[i] * b[i], 0 .. 2)
vec_outer_product(a, b) ==
    [i \in 0 .. 2 |-> LET j == (i + 1) % 3  k == (i + 2) % 3 IN a[j] * b[k] - a[k] * b[j]]
vec_sum(a, b) == [i \in 0 .. 2 |-> a[i] + b[i]]
vec_cons_mult(c, a) == [i \in 0 .. 2 |-> c * a[i]]

(* axis_rotation_to_quat with half the angle given by cosine and sine, up  *)
(* to a common factor.                                                     *)
axis_rotation_to_quat(axis, c, s) ==
    quat_normalize([i \in 0 .. 3 |-> IF i = 3 THEN c ELSE axis[i] * s])

--------------------------------------------------------------------------------
(* Matrices in flat arrays *)

_mat_mat_mult(lhs, rhs, nx, ny, nz) ==
    [x \in 0 .. nx * nz - 1 |->
        MapThenSumSet(LAMBDA j : lhs[(x \div nz) * ny + j] * rhs[j * nz + (x % nz)], 0 .. ny - 1)]
_mat_vec_mult(mat, vec, nx, ny) ==
    [i \in 0 .. nx - 1 |-> MapThenSumSet(LAMBDA j : mat[i * ny + j] * vec[j], 0 .. ny - 1)]
_mat_mat_sum(lhs, rhs, nx, ny) == [x \in 0 .. nx * ny - 1 |-> lhs[x] + rhs[x]]
_mat_set_diag(c, nx, ny) ==
    [x \in 0 .. nx * ny - 1 |-> IF x \div ny = x % ny THEN c ELSE 0]
_mat_transpose(mat, nx, ny) ==
    [x \in 0 .. nx * ny - 1 |-> LET j == x \div nx  i == x % nx IN mat[ny * i + j]]

(* Seeded fault: the column of the block is not added. *)
_mat_copy_left(mat, res, matx, maty, resx, pi, pj) ==
    [x \in DOMAIN res |->
        LET i == (x \div resx) - pi  j == x % resx
        IN IF i \in 0 .. matx - 1 /\ j \in 0 .. maty - 1 THEN mat[matx * i + j] ELSE res[x]]

(* The rows of both are taken to be as long as their numbers of rows: the  *)
(* block goes to row pi and column pj when both are square.                *)
_mat_copy(mat, res, matx, maty, resx, pi, pj) ==
    [x \in DOMAIN res |->
        LET i == (x \div resx) - pi  j == (x % resx) - pj
        IN IF i \in 0 .. matx - 1 /\ j \in 0 .. maty - 1 THEN mat[matx * i + j] ELSE res[x]]

mat_vec_mult(mat, vec) == _mat_vec_mult(mat, vec, 3, 3)
mat_mat_mult(lhs, rhs) == _mat_mat_mult(lhs, rhs, 3, 3, 3)
mat_transpose(mat) == _mat_transpose(mat, 3, 3)
mat_set_diag(a, b, c) ==
    [x \in 0 .. 8 |-> CASE x = 0 -> a [] x = 4 -> b [] x = 8 -> c [] OTHER -> 0]

(* The diagonal is left as it was. *)
mat_skew(u, old) ==
    [x \in 0 .. 8 |->
        CASE x = 3 -> u[2] [] x = 6 -> -u[1] [] x = 1 -> -u[2]
          [] x = 2 -> u[1] [] x = 7 -> u[0] [] x = 5 -> -u[0] [] OTHER -> old[x]]

(* The adjugate over the determinant; the determinant of a turn is 1. *)
mat_inverse(m) ==
    LET Cof(r, c) == LET A(i) == (i + 1) % 3  B(i) == (i + 2) % 3
                     IN m[3 * A(r) + A(c)] * m[3 * B(r) + B(c)] - m[3 * A(r) + B(c)] * m[3 * B(r) + A(c)]
        det == m[0] * Cof(0, 0) + m[1] * Cof(0, 1) + m[2] * Cof(0, 2)
    IN [x \in 0 .. 8 |-> Cof(x % 3, x \div 3) \div det]

--------------------------------------------------------------------------------
(* Turns of the magnetic field by quarters *)

Cos(t) == CASE t % 4 = 0 -> 1 [] t % 4 = 2 -> -1 [] OTHER -> 0
Sin(t) == CASE t % 4 = 1 -> 1 [] t % 4 = 3 -> -1 [] OTHER -> 0
Vec(x, y, z) == [i \in 0 .. 2 |-> CASE i = 0 -> x [] i = 1 -> y [] OTHER -> z]

(* Seeded fault: the sine has the wrong sign. *)
RotationYInverse(b, t) == Vec(Cos(t) * b[0] - Sin(t) * b[2], b[1], Cos(t) * b[2] + Sin(t) * b[0])

RotationZ(b, t) == Vec(Cos(t) * b[0] - Sin(t) * b[1], Sin(t) * b[0] + Cos(t) * b[1], b[2])
RotationY(b, t) == Vec(Cos(t) * b[0] + Sin(t) * b[2], b[1], Cos(t) * b[2] - Sin(t) * b[0])

TransMagaxisToECI(ned, lon, theta, gmst) ==
    RotationZ(RotationZ(RotationY(ned, -1 * (2 - theta)), lon), gmst)

--------------------------------------------------------------------------------
(* The filter *)

Fixed == Vec(1, 2, 3)
Ident == _mat_set_diag(1, 6, 6)
NoField == [ned |-> Fixed, place |-> <<0, 0, 0>>, out |-> Fixed]

MathInit ==
    /\ q = [i \in 0 .. 3 |-> IF i = 3 THEN 1 ELSE 0]
    /\ v = Fixed /\ R = mat_set_diag(1, 1, 1) /\ P = Ident
    /\ ref = [x \in (0 .. 5) \X (0 .. 5) |-> IF x[1] = x[2] THEN 1 ELSE 0]
    /\ turns = 0 /\ nan = FALSE /\ eci = NoField

(* eskf_integrate: the attitude after the turn dq. *)
eskf_integrate(a, dq) == quat_normalize(quat_mult(a, dq))

(* eskf_compute_error: F from four blocks, then P = F P F' + Q, with dt 1. *)
eskf_compute_error(dq, cov) ==
    LET zero == mat_set_diag(0, 0, 0)
        one == mat_set_diag(1, 1, 1)
        Blocks(b11, b12, b21, b22) ==
            _mat_copy(b22, _mat_copy(b21, _mat_copy(b12, _mat_copy(b11,
                _mat_set_diag(0, 6, 6), 3, 3, 6, 0, 0), 3, 3, 6, 0, 3), 3, 3, 6, 3, 0), 3, 3, 6, 3, 3)
        F == Blocks(mat_transpose(quat_to_dcm(dq)), mat_set_diag(-1, -1, -1), zero, one)
        Q == Blocks(one, zero, zero, one)
    IN _mat_mat_sum(_mat_mat_mult(_mat_mat_mult(F, cov, 6, 6, 6), _mat_transpose(F, 6, 6), 6, 6, 6), Q, 6, 6)

(* The reference: the covariance by blocks, with A' = T A T' etc. written  *)
(* out for F = (T, -1; 0, 1), T the inverse of the turn.                   *)
Reference(dq, c) ==
    LET T(i, k) == quat_to_dcm(dq)[3 * k + i]
        TX(i, j) == MapThenSumSet(LAMBDA k : T(i, k) * c[k, j], 0 .. 2) - c[i + 3, j]
        Top(i, j) == MapThenSumSet(LAMBDA k : TX(i, k) * T(j, k), 0 .. 2) - TX(i, j + 3)
    IN [x \in (0 .. 5) \X (0 .. 5) |->
        (IF x[1] = x[2] THEN 1 ELSE 0) +
        (CASE x[1] < 3 /\ x[2] < 3 -> Top(x[1], x[2])
           [] x[1] < 3 /\ x[2] > 2 -> TX(x[1], x[2])
           [] x[1] > 2 /\ x[2] < 3 -> TX(x[2], x[1])
           [] OTHER -> c[x[1], x[2]])]

(* One prediction with the rate of turn omega dt: a quarter or half turn,  *)
(* or a third about a diagonal.  A rate of zero divides zero by zero.      *)
eskf_predict_state(axis, c, s) ==
    /\ turns < MaxTurns /\ ~nan /\ eci = NoField
    /\ turns' = turns + 1
    /\ IF Square(axis) = 0
       THEN nan' = TRUE /\ UNCHANGED <<q, v, R, P, ref>>
       ELSE LET dq == axis_rotation_to_quat(axis, c, s) IN
            /\ q' = eskf_integrate(q, dq)
            /\ v' = quat_frame_conv(dq, v)
            /\ R' = mat_mat_mult(quat_to_dcm(dq), R)
            /\ P' = eskf_compute_error(dq, P) /\ ref' = Reference(dq, ref)
            /\ UNCHANGED nan
    /\ UNCHANGED eci

MagneticField(lon, theta, gmst) ==
    /\ turns = 0 /\ eci = NoField
    /\ \E ned \in {Vec(1, 0, 0), Vec(0, 1, 0), Vec(0, 0, 1), Fixed} :
        eci' = [ned |-> ned, place |-> <<lon, theta, gmst>>,
                out |-> TransMagaxisToECI(ned, lon, theta, gmst)]
    /\ UNCHANGED <<q, v, R, P, ref, turns, nan>>

MathNext ==
    \/ \E axis \in Axes, c \in {0, 1} :
        /\ c = 1 \/ Square(axis) = 1
        /\ eskf_predict_state(axis, c, 1)
    \/ \E lon, gmst \in 0 .. 3, theta \in 0 .. 2 : MagneticField(lon, theta, gmst)

--------------------------------------------------------------------------------
(* The attitude is kept three ways.  After any turns in a row the          *)
(* quaternion, its matrix, the product of the matrices and the vector      *)
(* turned step by step agree; quaternion and matrix convert into each      *)
(* other; inverse, transpose, conjugate and products fit together.         *)
AttitudeExact ==
    turns > 0 /\ ~nan =>
        /\ quat_to_dcm(q) = R /\ mat_vec_mult(R, Fixed) = v /\ quat_frame_conv(q, Fixed) = v
        /\ quat_from_dcm(R) \in {q, [i \in 0 .. 3 |-> -q[i]]}
        /\ mat_inverse(R) = mat_transpose(R) /\ quat_to_dcm(quat_inverse(q)) = mat_transpose(R)
        /\ vec_inner_product(v, v) = vec_inner_product(Fixed, Fixed)
        /\ mat_vec_mult(R, vec_outer_product(Fixed, Vec(0, 0, 1)))
             = vec_outer_product(v, mat_vec_mult(R, Vec(0, 0, 1)))
        /\ mat_vec_mult(mat_skew(v, mat_set_diag(0, 0, 0)), Fixed) = vec_outer_product(v, Fixed)

(* The covariance of the filter, computed in flat arrays with copied       *)
(* blocks, is the textbook's, and symmetric.                               *)
CovarianceExact ==
    turns > 0 =>
        /\ \A x \in DOMAIN ref : P[6 * x[1] + x[2]] = ref[x]
        /\ _mat_transpose(P, 6, 6) = P

(* The field measured as north, east and down at colatitude theta and      *)
(* longitude lon points along those directions of the turned Earth.        *)
FieldAxes ==
    LET lon == eci.place[1] + eci.place[3]
        theta == eci.place[2]
        north == Vec(-Cos(theta) * Cos(lon), -Cos(theta) * Sin(lon), Sin(theta))
        east == Vec(-Sin(lon), Cos(lon), 0)
        down == Vec(-Sin(theta) * Cos(lon), -Sin(theta) * Sin(lon), -Cos(theta))
    IN eci # NoField =>
        eci.out = vec_sum(vec_cons_mult(eci.ned[0], north),
                          vec_sum(vec_cons_mult(eci.ned[1], east), vec_cons_mult(eci.ned[2], down)))

(* The attitude, its covariance and the frame of the field.                *)
RotationsExact == AttitudeExact /\ CovarianceExact /\ FieldAxes

================================================================================
