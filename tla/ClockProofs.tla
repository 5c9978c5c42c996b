----------------------------- MODULE ClockProofs -----------------------------
(***************************************************************************)
(* Theorems about Clock, for every value of its units: what they say of    *)
(* 1000, 10 and 2^32 does not depend on these being the numbers.           *)
(***************************************************************************)
EXTENDS Clock, TLAPS

LEMMA Units ==
    /\ Kilo \in Nat /\ Kilo > 0 /\ FtPerUs \in Nat /\ FtPerUs > 0
    /\ Word \in Nat /\ Word > 0 /\ Since1601 \in Nat
    /\ MaxMs \in Nat /\ MaxNow \in Nat
    /\ Second \in Nat /\ Second > 0
BY ClockAssumption DEF Second

(* Division by a positive number has one quotient and one remainder. *)
LEMMA DivMod ==
    ASSUME NEW n \in Nat, NEW d \in Nat, d > 0
    PROVE  /\ n \div d \in Nat /\ n % d \in 0..(d - 1)
           /\ n = d * (n \div d) + (n % d)
OBVIOUS

LEMMA DivUnique ==
    ASSUME NEW n \in Nat, NEW d \in Nat, d > 0, NEW q \in Nat, NEW r \in 0..(d - 1),
           n = d * q + r
    PROVE  n \div d = q
OBVIOUS

(* The quotient is the largest number of whole d in n. *)
LEMMA DivAtLeast ==
    ASSUME NEW n \in Nat, NEW d \in Nat, d > 0, NEW q \in Nat, d * q <= n
    PROVE  n \div d >= q
<1>1. n \div d \in Nat /\ n % d \in 0..(d - 1) /\ n = d * (n \div d) + (n % d)
  BY DivMod
<1>2. ASSUME NEW p \in Nat, p < q PROVE d * p + d <= d * q
  <2>1. q = p + 1 + (q - p - 1) /\ q - p - 1 \in Nat
    BY <1>2
  <2>2. ASSUME NEW x \in Nat PROVE d * (p + 1 + x) = d * p + d + d * x /\ d * x >= 0
    OBVIOUS
  <2>3. d * q = d * p + d + d * (q - p - 1) /\ d * (q - p - 1) >= 0
    BY <2>1, <2>2
  <2>4. d * p \in Nat /\ d * q \in Nat /\ d * (q - p - 1) \in Int
    BY <2>1
  <2> QED
    BY <2>3, <2>4
<1>3. CASE n \div d < q
  <2>1. d * (n \div d) + d <= d * q
    BY <1>1, <1>2, <1>3
  <2>2. d * (n \div d) \in Nat /\ d * q \in Nat
    BY <1>1
  <2> QED
    BY <1>1, <2>1, <2>2
<1> QED
  BY <1>1, <1>3

-------------------------------------------------------------------------------
(* util_time_ms. *)

LEMMA PosixMilliseconds == ASSUME now \in Nat PROVE util_time_ms_posix = now \div Kilo
<1> DEFINE a == now \div Second
           b == now % Second
           c == b \div Kilo
           e == b % Kilo
<1>1. a \in Nat /\ b \in Nat /\ now = Second * a + b
  BY Units, DivMod
<1>2. c \in Nat /\ e \in 0..(Kilo - 1) /\ b = Kilo * c + e
  BY <1>1, Units, DivMod
<1>3. util_time_ms_posix = a * Kilo + c
  BY DEF util_time_ms_posix, gettimeofday
<1> HIDE DEF a, b, c, e
<1>4. Second * a = Kilo * (a * Kilo) /\ a * Kilo \in Nat
  BY <1>1, Units DEF Second
<1>5. now = Kilo * (a * Kilo + c) + e
  BY <1>1, <1>2, <1>4, Units
<1>6. now \div Kilo = a * Kilo + c
  <2>1. a * Kilo + c \in Nat
    BY <1>2, <1>4
  <2> QED
    BY <1>2, <1>5, <2>1, Units, DivUnique
<1> QED
  BY <1>3, <1>6

LEMMA WindowsMilliseconds ==
    ASSUME now \in Nat
    PROVE  util_time_ms_windows = (now + Since1601) \div Kilo
<1> DEFINE t == now + Since1601
           f == t * FtPerUs
           q == t \div Kilo
           r == t % Kilo
<1>0. t \in Nat
  BY Units
<1> HIDE DEF t
<1>1. f \in Nat /\ FtPerUs * Kilo \in Nat /\ FtPerUs * Kilo > 0
  BY <1>0, Units
<1>2. (f % Word) + ((f \div Word) * Word) = f
  <2>1. f \div Word \in Nat /\ f % Word \in Nat /\ f = Word * (f \div Word) + (f % Word)
    BY <1>1, Units, DivMod
  <2>2. (f \div Word) * Word = Word * (f \div Word) /\ Word * (f \div Word) \in Nat
    BY <2>1, Units
  <2> HIDE DEF f
  <2> QED
    BY <2>1, <2>2
<1>3. util_time_ms_windows = f \div (FtPerUs * Kilo)
  BY <1>2 DEF util_time_ms_windows, GetSystemTimeAsFileTime, FileTime, t
<1>4. q \in Nat /\ r \in 0..(Kilo - 1) /\ t = Kilo * q + r
  BY <1>0, Units, DivMod
<1> HIDE DEF q, r
<1>5. f = (FtPerUs * Kilo) * q + FtPerUs * r
  BY <1>4, Units
<1>6. FtPerUs * r \in 0..((FtPerUs * Kilo) - 1)
  <2>1. r \in Nat /\ Kilo - r \in Nat /\ Kilo - r > 0
    BY <1>4, Units
  <2>2. FtPerUs * Kilo = FtPerUs * r + FtPerUs * (Kilo - r)
    BY <2>1, Units
  <2>3. FtPerUs * (Kilo - r) \in Nat /\ FtPerUs * (Kilo - r) > 0 /\ FtPerUs * r \in Nat
    BY <2>1, Units
  <2> QED
    BY <2>2, <2>3, <1>1
<1> HIDE DEF f
<1>7. f \div (FtPerUs * Kilo) = q
  BY <1>1, <1>4, <1>5, <1>6, DivUnique
<1> QED
  BY <1>3, <1>7 DEF q, t

(* Both variants of util_time_ms count whole milliseconds since their origin. *)
LEMMA Milliseconds == now \in Nat => util_time_ms = Elapsed \div Kilo
BY PosixMilliseconds, WindowsMilliseconds DEF util_time_ms, Elapsed

-------------------------------------------------------------------------------
(* util_sleep_ms. *)

(* Seconds and microseconds of a time that is not negative. *)
LEMMA TimevalOf ==
    ASSUME NEW n \in Nat
    PROVE  /\ Timeval(n).sec \in Nat /\ Timeval(n).usec \in 0..(Second - 1)
           /\ Timeval(n).sec * Second + Timeval(n).usec = n * Kilo
<1> DEFINE q == n \div Kilo
           r == n % Kilo
<1>1. q \in Nat /\ r \in 0..(Kilo - 1) /\ n = Kilo * q + r
  BY Units, DivMod
<1>2. Quotient(n) = q
  BY DEF Quotient
<1> HIDE DEF q, r
<1>3. Remainder(n) = r
  <2>1. Kilo * q \in Nat
    BY <1>1, Units
  <2> QED
    BY <1>1, <1>2, <2>1 DEF Remainder
<1>4. Timeval(n).sec = q /\ Timeval(n).usec = r * Kilo
  BY <1>2, <1>3 DEF Timeval
<1>5. r * Kilo \in 0..(Second - 1)
  <2>1. r \in Nat /\ Kilo - r \in Nat /\ Kilo - r > 0
    BY <1>1, Units
  <2>2. Second = r * Kilo + (Kilo - r) * Kilo
    BY <2>1, Units DEF Second
  <2>3. (Kilo - r) * Kilo \in Nat /\ (Kilo - r) * Kilo > 0 /\ r * Kilo \in Nat
    BY <2>1, Units
  <2> QED
    BY <2>2, <2>3, Units
<1>6. q * Second + r * Kilo = n * Kilo
  BY <1>1, Units DEF Second
<1> QED
  BY <1>1, <1>4, <1>5, <1>6

(* The timeval of a negative time has both parts of the opposite sign. *)
LEMMA TimevalMirrored ==
    ASSUME NEW n \in Int, n < 0
    PROVE  Timeval(n).sec = -Timeval(-n).sec /\ Timeval(n).usec = -Timeval(-n).usec
<1> DEFINE m == -n
           q == m \div Kilo
<1>1. m \in Nat /\ m > 0 /\ n = -m /\ q \in Nat
  BY Units, DivMod
<1>2. Quotient(n) = -q /\ Quotient(m) = q
  BY <1>1 DEF Quotient
<1> HIDE DEF m, q
<1>3. Remainder(n) = -Remainder(m) /\ Remainder(m) \in Int
  <2>1. Kilo * (-q) = -(Kilo * q) /\ Kilo * q \in Int
    BY <1>1, Units
  <2> QED
    BY <1>1, <1>2, <2>1 DEF Remainder
<1>4. ASSUME NEW x \in Int PROVE (-x) * Kilo = -(x * Kilo)
  BY Units
<1> QED
  BY <1>2, <1>3, <1>4 DEF Timeval, m

(* What select is given for any time: exactly that time, refused if and only   *)
(* if it is negative.                                                          *)
TimevalIs(n) ==
    /\ Timeval(n).sec \in Int /\ Timeval(n).usec \in (1 - Second)..(Second - 1)
    /\ Timeval(n).sec * Second + Timeval(n).usec = n * Kilo
    /\ Negative(Timeval(n)) <=> n < 0

LEMMA TimevalExact == ASSUME NEW n \in Int PROVE TimevalIs(n)
<1>1. CASE n >= 0
  BY <1>1, TimevalOf, Units DEF TimevalIs, Negative
<1>2. CASE n < 0
  <2> DEFINE a == Timeval(-n).sec
             b == Timeval(-n).usec
  <2>1. -n \in Nat
    BY <1>2
  <2>2. a \in Nat /\ b \in 0..(Second - 1) /\ a * Second + b = (-n) * Kilo
    BY <2>1, TimevalOf
  <2>3. Timeval(n).sec = -a /\ Timeval(n).usec = -b
    BY <1>2, TimevalMirrored
  <2> HIDE DEF a, b
  <2>4. /\ (-a) * Second = -(a * Second) /\ a * Second \in Nat
        /\ (-n) * Kilo = -(n * Kilo) /\ n * Kilo \in Int /\ (-n) * Kilo > 0
    BY <1>2, <2>2, Units
  <2>5. (-a) * Second + (-b) = n * Kilo
    BY <2>2, <2>4, Units
  <2>6. a > 0 \/ b > 0
    <3>1. CASE a = 0
      <4>1. a * Second = 0
        BY <3>1, Units
      <4> QED
        BY <2>2, <2>4, <4>1, Units
    <3> QED
      BY <2>2, <3>1
  <2> QED
    BY <1>2, <2>2, <2>3, <2>5, <2>6, Units DEF TimevalIs, Negative
<1> QED
  BY <1>1, <1>2

(* What TypeOK needs to know of the sleeper, and what makes a sleep long       *)
(* enough: while select waits, its end lies ms milliseconds after the time     *)
(* that was read before.                                                       *)
ClockInv ==
    /\ ClockTypeOK
    /\ platform \in {"POSIX", "Windows"}
    /\ began \in Nat /\ ended \in Nat /\ wake \in Nat
    /\ (sleep = "asleep" /\ platform = "POSIX") =>
          ms >= 0 /\ wake >= Kilo * (began + ms)
    /\ SleptLongEnough

LEMMA ClockInvInit == ClockInit => ClockInv
<1> SUFFICES ASSUME ClockInit PROVE ClockInv
  OBVIOUS
<1>1. now \in Nat /\ ms \in (-MaxMs)..MaxMs /\ 0 \in (1 - Second)..(Second - 1)
  BY Units DEF ClockInit
<1>2. 0 * Second + 0 = 0 * Kilo
  BY Units
<1> QED
  BY <1>1, <1>2 DEF Negative, ClockInit, ClockInv, ClockTypeOK, SleptLongEnough

LEMMA ClockInvStep == ClockInv /\ [ClockNext]_clockVars => ClockInv'
<1> SUFFICES ASSUME ClockInv, [ClockNext]_clockVars PROVE ClockInv'
  OBVIOUS
<1>0. /\ now \in Nat /\ sleep \in {"awake", "asleep"} /\ ms \in (-MaxMs)..MaxMs
      /\ rc \in {-1, 0, 1} /\ tv.sec \in Int /\ tv.usec \in (1 - Second)..(Second - 1)
      /\ platform = "POSIX" => /\ tv.sec * Second + tv.usec = ms * Kilo
                               /\ Negative(tv) <=> ms < 0
      /\ platform \in {"POSIX", "Windows"} /\ began \in Nat /\ ended \in Nat /\ wake \in Nat
  BY DEF ClockInv, ClockTypeOK
<1>t. util_time_ms \in Nat /\ (platform = "POSIX" => util_time_ms = now \div Kilo)
  <2>1. Elapsed \in Nat /\ (platform = "POSIX" => Elapsed = now)
    BY <1>0, Units DEF Elapsed
  <2>2. Elapsed \div Kilo \in Nat
    BY <2>1, DivMod, Units
  <2> QED
    BY <1>0, <2>1, <2>2, Milliseconds
<1>1. ASSUME NEW n \in (-MaxMs)..MaxMs, util_sleep_ms(n) PROVE ClockInv'
  <2>0. n \in Int
    BY Units
  <2>t. TimevalIs(n)
    BY <2>0, TimevalExact
  <2>1. CASE platform = "POSIX" /\ Negative(Timeval(n))
    BY <1>0, <1>t, <1>1, <2>t, <2>1
    DEF util_sleep_ms, Return, TimevalIs, ClockInv, ClockTypeOK, SleptLongEnough
  <2>2. CASE platform = "POSIX" /\ ~Negative(Timeval(n))
    <3>1. n \in Nat
      BY <2>0, <2>2, <2>t DEF TimevalIs
    <3>2. /\ sleep' = "asleep" /\ ms' = n /\ began' = util_time_ms /\ tv' = Timeval(n)
          /\ wake' = now + tv'.sec * Second + tv'.usec
          /\ UNCHANGED <<platform, now, ended, rc>>
      BY <1>1, <2>2 DEF util_sleep_ms, FallAsleep
    <3>3. tv'.sec \in Nat /\ tv'.usec \in 0..(Second - 1)
          /\ tv'.sec * Second + tv'.usec = n * Kilo
      BY <3>1, <3>2, TimevalOf
    <3>4. wake' = now + n * Kilo /\ wake' \in Nat
      <4>1. tv'.sec * Second \in Nat /\ tv'.usec \in Nat /\ n * Kilo \in Nat
        BY <3>1, <3>3, Units
      <4> QED
        BY <1>0, <3>2, <3>3, <4>1
    <3>5. wake' >= Kilo * (began' + n)
      <4>1. now \div Kilo \in Nat /\ now % Kilo \in Nat
            /\ now = Kilo * (now \div Kilo) + (now % Kilo)
        BY <1>0, DivMod, Units
      <4>2. Kilo * (began' + n) = Kilo * (now \div Kilo) + n * Kilo
        BY <1>t, <2>2, <3>1, <3>2, <4>1, Units
      <4>3. Kilo * (now \div Kilo) \in Nat /\ n * Kilo \in Nat
        BY <3>1, <4>1, Units
      <4> QED
        BY <3>4, <4>1, <4>2, <4>3
    <3> QED
      BY <1>0, <1>t, <3>1, <3>2, <3>3, <3>4, <3>5, <2>t, <2>2
      DEF TimevalIs, ClockInv, ClockTypeOK, SleptLongEnough
  <2>3. CASE platform # "POSIX"
    BY <1>0, <1>t, <1>1, <2>3
    DEF util_sleep_ms, FallAsleep, ClockInv, ClockTypeOK, SleptLongEnough
  <2> QED
    BY <2>1, <2>2, <2>3
<1>2. CASE wake_up
  <2>1. CASE platform = "POSIX"
    <3>1. /\ sleep = "asleep" /\ now >= wake /\ sleep' = "awake" /\ rc' = 0
          /\ ended' = util_time_ms /\ UNCHANGED <<platform, now, ms, tv, wake, began>>
      BY <1>2, <2>1 DEF wake_up, Return
    <3>2. ms \in Nat /\ wake >= Kilo * (began + ms)
      BY <1>0, <2>1, <3>1, Units DEF ClockInv
    <3>3. Kilo * (began + ms) <= now
      <4>1. Kilo * (began + ms) \in Nat
        BY <1>0, <3>2, Units
      <4> QED
        BY <1>0, <3>1, <3>2, <4>1
    <3>4. now \div Kilo >= began + ms
      <4>1. now \in Nat /\ began + ms \in Nat /\ Kilo \in Nat /\ Kilo > 0
        BY <1>0, <3>2, Units
      <4> QED
        BY <3>3, <4>1, DivAtLeast
    <3>5. ended' - began' >= ms'
      BY <1>0, <1>t, <2>1, <3>1, <3>2, <3>4
    <3> QED
      BY <1>0, <1>t, <3>1, <3>5 DEF ClockInv, ClockTypeOK, SleptLongEnough
  <2>2. CASE platform # "POSIX"
    BY <1>0, <1>t, <1>2, <2>2 DEF wake_up, Return, ClockInv, ClockTypeOK, SleptLongEnough
  <2> QED
    BY <2>1, <2>2
<1>3. CASE sleep_interrupted
  BY <1>0, <1>t, <1>3 DEF sleep_interrupted, Return, ClockInv, ClockTypeOK, SleptLongEnough
<1>4. CASE microsecond
  BY <1>0, <1>4 DEF microsecond, ClockInv, ClockTypeOK, SleptLongEnough
<1>5. CASE UNCHANGED clockVars
  BY <1>5 DEF clockVars, ClockInv, ClockTypeOK, SleptLongEnough
<1> QED
  BY <1>1, <1>2, <1>3, <1>4, <1>5 DEF ClockNext

LEMMA ClockInvariant == ClockSpec => []ClockInv
BY ClockInvInit, ClockInvStep, PTL DEF ClockSpec

(* The timeval that util_sleep_ms gives to select is exactly the time asked    *)
(* for, for negative times too, and select refuses it for these alone.         *)
THEOREM ClockTypeCorrect == ClockSpec => []ClockTypeOK
<1>1. ClockInv => ClockTypeOK
  BY DEF ClockInv
<1> QED
  BY ClockInvariant, <1>1, PTL

(* A sleep that select reports as complete was, by util_time_ms, at least as   *)
(* long as was asked for: no rounding of the two functions adds up to a        *)
(* millisecond lost.                                                           *)
THEOREM SleepsLongEnough == ClockSpec => []SleptLongEnough
<1>1. ClockInv => SleptLongEnough
  BY DEF ClockInv
<1> QED
  BY ClockInvariant, <1>1, PTL

(* Both variants of util_time_ms count whole milliseconds at every time, each  *)
(* since its own origin: 1970 for POSIX, 1601 for Windows.                     *)
THEOREM CountsMilliseconds == ClockSpec => []WholeMilliseconds
<1>1. ClockInv => WholeMilliseconds
  BY Milliseconds DEF ClockInv, ClockTypeOK, WholeMilliseconds
<1> QED
  BY ClockInvariant, <1>1, PTL

===============================================================================
