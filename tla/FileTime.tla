------------------------------ MODULE FileTime ------------------------------
(***************************************************************************)
(* Times: fileTime (capture.go), which makes a Windows FILETIME of the     *)
(* time of a file, and fileTimeToTime (fs.go), which makes a time of the   *)
(* FILETIME of a dentry.  The arithmetic is that of 64 bits, which wraps;  *)
(* a quotient of Go is rounded towards zero, and the rest of a negative    *)
(* number is negative.  A time of a file is its seconds from the Unix      *)
(* epoch and its nanoseconds; one that is read is all nanoseconds.         *)
(***************************************************************************)
EXTENDS Integers

CONSTANTS
  TicksPerSecond, NanosPerTick,
  filetimeEpochDelta,   \* ticks from the FILETIME epoch to the Unix epoch
  Half,         \* 2^63
  ZeroTime      \* time.Time{}, in nanoseconds

NanosPerSecond == TicksPerSecond * NanosPerTick

ASSUME FileTimeAssumption ==
  /\ TicksPerSecond \in Nat \ {0} /\ NanosPerTick \in Nat \ {0}
  /\ filetimeEpochDelta \in 1 .. Half - 1
  /\ ZeroTime < -filetimeEpochDelta * NanosPerTick

-----------------------------------------------------------------------------
Signed(x) == ((x + Half) % (2 * Half)) - Half
Quotient(a, b) == IF a >= 0 THEN a \div b ELSE -((-a) \div b)
Rest(a, b) == a - b * Quotient(a, b)

Ticks(t) ==
  Signed(Signed(t.sec * TicksPerSecond) + (t.nanos \div NanosPerTick) + filetimeEpochDelta)

(* Bug: what is before the epoch is stored as it comes.                    *)
FiletimeUnclamped(t) == Ticks(t) % (2 * Half)

(* fileTime.                                                               *)
Filetime(t) == IF Ticks(t) < 0 THEN 0 ELSE Ticks(t)

(* Bug: the nanoseconds are taken for those of a positive time.            *)
UnixPositive(s, ns) == s * NanosPerSecond + (IF ns < 0 THEN -ns ELSE ns)

(* time.Unix takes nanoseconds of either sign.                             *)
Unix(s, ns) == s * NanosPerSecond + ns

(* fileTimeToTime.                                                         *)
ModTime(ft) ==
  LET ticks == Signed(Signed(ft) - filetimeEpochDelta) IN
  IF ft = 0 THEN ZeroTime
  ELSE Unix(Quotient(ticks, TicksPerSecond), Rest(ticks, TicksPerSecond) * NanosPerTick)

-----------------------------------------------------------------------------
(* What is expected of them.                                               *)

Captured(t) == t.sec * NanosPerSecond + t.nanos
Early == -filetimeEpochDelta * NanosPerTick   \* 1601, the FILETIME epoch

(* A field of 64 bits holds 29 thousand years on either side of 1601: the  *)
(* time of a file, or of a file that far from it.                          *)
Folded(t) ==
  LET Reach == Half * NanosPerTick IN
  ((Captured(t) - Early + Reach) % (2 * Reach)) - Reach + Early

(* It is cut to the tick; there is none before the FILETIME epoch and in   *)
(* its first tick.                                                         *)
MeantTime(t) ==
  IF Folded(t) < Early + NanosPerTick THEN ZeroTime
  ELSE Folded(t) - ((Folded(t) - Early) % NanosPerTick)
=============================================================================
