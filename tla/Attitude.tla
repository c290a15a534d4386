------------------------------ MODULE Attitude ------------------------------
(***************************************************************************)
(* attitude.py on the orientations made of quarter turns, where it is      *)
(* exact in the integers: a quaternion stands for its direction (a unit    *)
(* quaternion up to a positive factor), angles are multiples of 90 deg.    *)
(***************************************************************************)
EXTENDS Integers

Vec3(x, y, z) == [x |-> x, y |-> y, z |-> z]
Quaternion(w, x, y, z) == [w |-> w, x |-> x, y |-> y, z |-> z]

ZeroVec == Vec3(0, 0, 0)
AxisX == Vec3(1, 0, 0)
AxisY == Vec3(0, 1, 0)
AxisZ == Vec3(0, 0, 1)
Identity == Quaternion(1, 0, 0, 0)

Conjugate(q) == Quaternion(q.w, -q.x, -q.y, -q.z)

Multiply(a, b) == Quaternion(
  a.w * b.w - a.x * b.x - a.y * b.y - a.z * b.z,
  a.w * b.x + a.x * b.w + a.y * b.z - a.z * b.y,
  a.w * b.y - a.x * b.z + a.y * b.w + a.z * b.x,
  a.w * b.z + a.x * b.y - a.y * b.x + a.z * b.w)

\* Cosine and sine of k eighths of a turn, up to a positive factor.
Eighths == << <<1, 0>>, <<1, 1>>, <<0, 1>>, <<-1, 1>>,
              <<-1, 0>>, <<-1, -1>>, <<0, -1>>, <<1, -1>> >>

\* The half angle of a multiple of 90 deg is a number of eighths.
FromAxisAngle(axis, deg) ==
  LET half == Eighths[((deg \div 90) % 8) + 1]
  IN  Quaternion(half[1], axis.x * half[2], axis.y * half[2], axis.z * half[2])

Norm2(q) == q.w * q.w + q.x * q.x + q.y * q.y + q.z * q.z

Rotate(q, v) ==
  LET n  == Norm2(q)
      tx == 2 * (q.y * v.z - q.z * v.y)
      ty == 2 * (q.z * v.x - q.x * v.z)
      tz == 2 * (q.x * v.y - q.y * v.x)
  IN  Vec3((n * v.x + q.w * tx + (q.y * tz - q.z * ty)) \div n,
           (n * v.y + q.w * ty + (q.z * tx - q.x * tz)) \div n,
           (n * v.z + q.w * tz + (q.x * ty - q.y * tx)) \div n)

WorldToBody(orientation, v) == Rotate(Conjugate(orientation), v)

\* atan2 on the four axis directions, the only ones quarter turns produce.
Atan2(y, x) ==
  IF y > 0 THEN 90 ELSE IF y < 0 THEN -90 ELSE IF x < 0 THEN 180 ELSE 0

QuaternionToEulerZyx(q) ==
  [roll  |-> Atan2(2 * (q.w * q.x + q.y * q.z), Norm2(q) - 2 * (q.x * q.x + q.y * q.y)),
   pitch |-> 90 * ((2 * (q.w * q.y - q.z * q.x)) \div Norm2(q)),
   yaw   |-> Atan2(2 * (q.w * q.z + q.x * q.y), Norm2(q) - 2 * (q.y * q.y + q.z * q.z))]

EulerToQuaternion(roll, pitch, yaw) ==
  Multiply(Multiply(FromAxisAngle(AxisZ, yaw), FromAxisAngle(AxisY, pitch)),
           FromAxisAngle(AxisX, roll))
=============================================================================
