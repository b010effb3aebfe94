---------------------------- MODULE GpsReference ----------------------------
(***************************************************************************)
(* The reference between GPS time and the counter of the concentrator:     *)
(* lgw_gps_sync(), which gives up a reference only after three pairs that  *)
(* disagree with it, lgw_gps2cnt(), and its age by the system's clock. One *)
(* unit of GPS time is one unit of the counter: a crystal that is good     *)
(* enough not to be refused is taken for exact.                            *)
(***************************************************************************)
EXTENDS JitOps

CONSTANTS
  GPS_REF_MAX_AGE  \* an older reference is not valid

ASSUME ReferenceAssumption == GPS_REF_MAX_AGE \in Nat

\* struct tref: the system's time, the counter and the GPS time of one pulse.
Reference == [sys : Int, count : Counter, gps : Int]

\* Zeroes: a time decades ago.
NoReference == [sys |-> -2 * W, count |-> 0, gps |-> -2 * W]

\* The slope from the reference to this pair is out of bounds.
Aberrant(ref, count, gps) ==
  gps = ref.gps \/ Ahead(count, ref.count) # gps - ref.gps

\* A pair becomes the reference when it agrees with it, or when neither it nor
\* the two before it do.
Accepted(aberrant, before) == aberrant => \A i \in 1 .. 2 : before[i]

\* Mutant of Gps2Cnts: the difference is rounded up to the next unit.
Gps2CntsLate(ref, gps) == {Add(ref.count, gps - ref.gps + 1)}

\* The counter at a GPS time. The conversion of the difference to 32 bits is
\* undefined when it does not fit: it wraps, or it is cut to the nearest bound.
Gps2Cnts(ref, gps) ==
  LET d == gps - ref.gps
  IN {Add(ref.count, d)}
       \cup (IF d < 0 THEN {ref.count} ELSE {})
       \cup (IF d >= W THEN {Add(ref.count, W-1)} ELSE {})

\* Mutant of Fresh: a reference does not grow old.
FreshForever(ref, sys) == sys - ref.sys \in Nat

\* The reference is neither too old nor from the future.
Fresh(ref, sys) == sys - ref.sys \in 0 .. GPS_REF_MAX_AGE
=============================================================================
