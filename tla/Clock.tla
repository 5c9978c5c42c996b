-------------------------------- MODULE Clock --------------------------------
(***************************************************************************)
(* src/util/time_utils.c: reading the clock and sleeping, both in          *)
(* milliseconds, on the two platforms it is written for.  A thread that    *)
(* times its sleep reads the clock before and after it.  The system's      *)
(* clock counts microseconds since 1970, the epoch, and is not set back    *)
(* meanwhile.                                                              *)
(***************************************************************************)
EXTENDS Integers

CONSTANTS
    Kilo,      \* milliseconds per second and microseconds per millisecond: 1000
    FtPerUs,   \* FILETIME units per microsecond: 10
    Word,      \* values of a DWORD: 2^32
    Since1601, \* microseconds from 1601, where a FILETIME begins, to 1970
    MaxMs,     \* bound: longest sleep asked for, also below 0
    MaxNow     \* bound: microseconds that pass

ASSUME ClockAssumption ==
    /\ Kilo \in Nat \ {0} /\ FtPerUs \in Nat \ {0}
    /\ Word \in Nat \ {0} /\ Since1601 \in Nat /\ MaxMs \in Nat /\ MaxNow \in Nat

VARIABLES
    platform,  \* "POSIX" | "Windows"
    now,       \* the system's clock, in microseconds
    sleep,     \* "awake" | "asleep": is a thread in util_sleep_ms
    ms,        \* what it has asked for
    tv,        \* the timeval given to select,
    wake,      \*   and the time at which it is over
    began,     \* util_time_ms before the sleep,
    ended,     \*   and after it
    rc         \* what util_sleep_ms returned

clockVars == <<platform, now, sleep, ms, tv, wake, began, ended, rc>>

Second == Kilo * Kilo

ClockInit ==
    /\ platform \in {"POSIX", "Windows"}
    /\ now \in 0..Second
    /\ sleep = "awake" /\ ms = 0 /\ tv = [sec |-> 0, usec |-> 0]
    /\ wake = 0
    /\ began = 0 /\ ended = 0 /\ rc = -1

-------------------------------------------------------------------------------
(* C's division and remainder go towards 0. *)
Quotient(n) == IF n < 0 THEN -((-n) \div Kilo) ELSE n \div Kilo
Remainder(n) == n - Kilo * Quotient(n)

gettimeofday == [sec |-> now \div Second, usec |-> now % Second]
FileTime == (now + Since1601) * FtPerUs
GetSystemTimeAsFileTime ==
    [dwLowDateTime |-> FileTime % Word, dwHighDateTime |-> FileTime \div Word]

LowWordOnly ==                           \* mutant: the high word is left out
    GetSystemTimeAsFileTime.dwLowDateTime \div (FtPerUs * Kilo)
util_time_ms_windows ==
    (GetSystemTimeAsFileTime.dwLowDateTime + GetSystemTimeAsFileTime.dwHighDateTime * Word)
    \div (FtPerUs * Kilo)
util_time_ms_posix == gettimeofday.sec * Kilo + gettimeofday.usec \div Kilo

util_time_ms == IF platform = "Windows" THEN util_time_ms_windows ELSE util_time_ms_posix

UsecNotReduced(n) == [sec |-> Quotient(n), usec |-> n * Kilo]    \* mutant: no % 1000
UsecInMs(n) == [sec |-> Quotient(n), usec |-> Remainder(n)]      \* mutant: no * 1000
Timeval(n) == [sec |-> Quotient(n), usec |-> Remainder(n) * Kilo]

Return(code) ==
    /\ sleep' = "awake" /\ rc' = code
    /\ ended' = util_time_ms
    /\ UNCHANGED <<platform, now>>

(* What select makes of a time: it refuses one with a negative part. *)
Negative(time) == time.sec < 0 \/ time.usec < 0

FallAsleep == sleep' = "asleep" /\ UNCHANGED <<platform, now, ended, rc>>

util_sleep_ms(n) ==
    /\ sleep = "awake"
    /\ ms' = n /\ began' = util_time_ms
    /\ \/ /\ platform = "POSIX"
          /\ tv' = Timeval(n)
          /\ IF Negative(tv')
             THEN Return(-1) /\ UNCHANGED wake
             ELSE FallAsleep /\ wake' = now + tv'.sec * Second + tv'.usec
       \/ platform = "Windows" /\ FallAsleep /\ UNCHANGED <<tv, wake>>

(* The time is over: select returns 0.  The Windows variant returns 1 when     *)
(* Sleep does, which may be early by the resolution of its timer, and never    *)
(* for -1, which is INFINITE.                                                  *)
wake_up ==
    /\ sleep = "asleep"
    /\ \/ platform = "POSIX" /\ now >= wake /\ Return(0)
       \/ platform = "Windows" /\ ms # -1 /\ Return(1)
    /\ UNCHANGED <<ms, tv, wake, began>>

(* A signal ends select early. *)
sleep_interrupted ==
    /\ sleep = "asleep" /\ platform = "POSIX"
    /\ Return(-1)
    /\ UNCHANGED <<ms, tv, wake, began>>

microsecond ==
    /\ now < MaxNow
    /\ now' = now + 1
    /\ UNCHANGED <<platform, sleep, ms, tv, wake, began, ended, rc>>

ClockNext ==
    \/ \E n \in (-MaxMs)..MaxMs : util_sleep_ms(n)
    \/ wake_up \/ sleep_interrupted \/ microsecond

ClockSpec == ClockInit /\ [][ClockNext]_clockVars

-------------------------------------------------------------------------------
(* The timeval given to select is exactly the time asked for, with less than a *)
(* second of microseconds, and has a negative part, for which select fails at  *)
(* once, if and only if that time is negative.                                 *)
ClockTypeOK ==
    /\ now \in Nat /\ sleep \in {"awake", "asleep"}
    /\ ms \in (-MaxMs)..MaxMs /\ rc \in {-1, 0, 1}
    /\ tv.sec \in Int /\ tv.usec \in (1 - Second)..(Second - 1)
    /\ platform = "POSIX" => /\ tv.sec * Second + tv.usec = ms * Kilo
                             /\ Negative(tv) <=> ms < 0

(* A sleep for which select reports success was long enough by the clock of    *)
(* the same file: the split into seconds and microseconds and the two          *)
(* roundings of util_time_ms lose nothing.                                     *)
SleptLongEnough == (sleep = "awake" /\ rc = 0) => ended - began >= ms

(* Both variants of util_time_ms count whole milliseconds, across the carries  *)
(* from microseconds to seconds and from the low word of a FILETIME to the     *)
(* high one: that of POSIX since 1970, that of Windows since 1601, although    *)
(* the comment on them (line 77) says "the current epoch time".                *)
Elapsed == IF platform = "Windows" THEN now + Since1601 ELSE now
WholeMilliseconds == util_time_ms = Elapsed \div Kilo

===============================================================================
