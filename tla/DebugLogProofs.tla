---------------------------- MODULE DebugLogProofs ----------------------------
(***************************************************************************)
(* Theorems about DebugLog, for every number of threads, every row width   *)
(* and every range of addresses.                                           *)
(***************************************************************************)
EXTENDS DebugLog, SequenceTheorems, FiniteSetTheorems, TLAPS

LEMMA Sizes ==
    /\ COLUMNS \in Nat /\ COLUMNS > 0 /\ MaxAddress \in Nat
    /\ LabelWidth \in Nat /\ ROW_BUF_SIZE \in Nat
    /\ LabelWidth + 3 * COLUMNS < ROW_BUF_SIZE
BY DebugAssumption

-------------------------------------------------------------------------------
(* The level. *)

LevelOK == debug_level \in DEBUG_WARN..DEBUG_FLOOD

LEMMA LevelInit == LogInit => LevelOK /\ NeverMuted
BY DEF LogInit, LevelOK, NeverMuted, DEBUG_WARN, DEBUG_FLOOD

(* debug_impl drops nothing but levels above the lowest one that can be set. *)
LEMMA ImplKeeps ==
    ASSUME LevelOK, NeverMuted, NEW level \in Levels, debug_impl(level)
    PROVE  LevelOK' /\ NeverMuted'
<1>1. debug_level \in 1..4 /\ debug_level' = debug_level
  BY DEF LevelOK, debug_impl, DEBUG_WARN, DEBUG_FLOOD
<1>2. level \in 0..4 \/ level = 1000
  BY DEF Levels, DEBUG_NONE, DEBUG_FLOOD, DEBUG_ERROR
<1>3. ~Printed(level) => level \in {2, 3, 4}
  BY <1>1, <1>2 DEF Printed, DEBUG_ERROR
<1> QED
  BY <1>1, <1>3 DEF LevelOK, NeverMuted, debug_impl, DEBUG_INFO, DEBUG_DETAIL, DEBUG_FLOOD

LEMMA LevelStep == LevelOK /\ NeverMuted /\ [LogNext]_logVars => LevelOK' /\ NeverMuted'
<1> SUFFICES ASSUME LevelOK, NeverMuted, [LogNext]_logVars PROVE LevelOK' /\ NeverMuted'
  OBVIOUS
<1>1. ASSUME NEW level \in Levels, debug_set_level(level) PROVE LevelOK' /\ NeverMuted'
  <2>1. level \in Int
    BY DEF Levels, DEBUG_NONE, DEBUG_FLOOD, DEBUG_ERROR
  <2>2. Clamped(level) \in DEBUG_WARN..DEBUG_FLOOD
    BY <2>1 DEF Clamped, DEBUG_WARN, DEBUG_FLOOD
  <2> QED
    BY <1>1, <2>2 DEF debug_set_level, LevelOK, NeverMuted
<1>2. ASSUME NEW t \in Writers, NEW level \in Levels, message(t, level)
      PROVE  LevelOK' /\ NeverMuted'
  BY <1>2, ImplKeeps DEF message
<1>3. ASSUME NEW t \in Writers, NEW level \in Levels, NEW start, NEW end,
             debug_dump_ptr(t, level, start, end)
      PROVE  LevelOK' /\ NeverMuted'
  <2>1. DEBUG_WARN \in Levels
    BY DEF Levels, DEBUG_NONE, DEBUG_FLOOD, DEBUG_WARN
  <2> QED
    BY <1>3, <2>1, ImplKeeps DEF debug_dump_ptr, LevelOK, NeverMuted
<1>4. CASE UNCHANGED <<debug_level, dropped>>
  BY <1>4 DEF LevelOK, NeverMuted
<1>5. ASSUME NEW t \in Writers, assert_error(t) PROVE LevelOK' /\ NeverMuted'
  <2>1. DEBUG_ERROR \in Levels
    BY DEF Levels
  <2> QED
    BY <1>5, <2>1, ImplKeeps DEF assert_error
<1> QED
  BY <1>1, <1>2, <1>3, <1>4, <1>5 DEF LogNext, logVars, dump_row, dump_done

(* No order of debug_set_level calls, whatever their arguments, silences a     *)
(* warning or an error.                                                        *)
THEOREM WarningsAreHeard == LogSpec => []NeverMuted
<1>1. LogSpec => [](LevelOK /\ NeverMuted)
  BY LevelInit, LevelStep, PTL DEF LogSpec
<1> QED
  BY <1>1, PTL

-------------------------------------------------------------------------------
(* Dumps. *)

Row == [label : Nat, bytes : Seq(Nat)]
Dump == [start : Nat, end : Nat, cur : Nat, row : Nat, rows : Seq(Row)]

LeastOf(a, b) == IF a < b THEN a ELSE b
Length(d) == d.end - d.start

(* Where a dump stands after d.row rows: every row is full but perhaps the     *)
(* last, and the next byte is the one after them.                              *)
Progress(d) ==
    /\ d.start > 0 /\ d.start < d.end /\ d.end <= MaxAddress
    /\ d.row <= MaxRow(d)
    /\ d.cur = d.start + LeastOf(d.row * COLUMNS, Length(d))
    /\ Len(d.rows) = d.row
    /\ \A i \in 1..d.row :
          /\ d.rows[i].label = (i - 1) * COLUMNS
          /\ Len(d.rows[i].bytes) = LeastOf(COLUMNS, Length(d) - d.rows[i].label)
          /\ \A j \in 1..Len(d.rows[i].bytes) :
                d.rows[i].bytes[j] = d.start + d.rows[i].label + j - 1

DumpInv ==
    /\ dump \in [Writers -> Dump]
    /\ \A t \in Writers : dump[t] = Idle \/ Progress(dump[t])

(* The number of rows is the length of the range, rounded up. *)
LEMMA MaxRowBounds ==
    ASSUME NEW n \in Nat, n > 0, NEW C \in Nat, C > 0,
           NEW m, m = (n + (C - 1)) \div C
    PROVE  /\ m \in Nat /\ m > 0 /\ m <= n /\ n <= m * C
           /\ \A k \in Nat : k < m => k * C < n
<1>1. n + (C - 1) \in Nat
  OBVIOUS
<1> DEFINE r == (n + (C - 1)) % C
<1>2. m \in Nat /\ r \in 0..(C - 1) /\ n + (C - 1) = C * m + r
  BY <1>1
<1> HIDE DEF r
<1>3. C * m \in Nat /\ m * C = C * m
  BY <1>2
<1>4. n <= m * C
  BY <1>2, <1>3
<1>5. ASSUME NEW k \in Nat, k < m PROVE k * C < n
  <2>1. m - k - 1 \in Nat /\ m = k + 1 + (m - k - 1)
    BY <1>2, <1>5
  <2>2. ASSUME NEW x \in Nat PROVE C * (k + 1 + x) = k * C + C + C * x /\ C * x \in Nat
    OBVIOUS
  <2>3. C * m = k * C + C + C * (m - k - 1) /\ C * (m - k - 1) \in Nat
    BY <2>1, <2>2
  <2>4. k * C \in Nat
    OBVIOUS
  <2> QED
    BY <1>2, <1>3, <2>3, <2>4
<1>6. m > 0
  <2>1. CASE m = 0
    <3>1. C * m = 0
      BY <2>1
    <3> QED
      BY <1>2, <3>1
  <2> QED
    BY <1>2, <2>1
<1>7. m <= n
  <2>1. (m - 1) * C < n /\ m - 1 \in Nat
    BY <1>2, <1>5, <1>6
  <2>2. ASSUME NEW x \in Nat PROVE x * C >= x
    OBVIOUS
  <2>3. (m - 1) * C >= m - 1 /\ (m - 1) * C \in Nat
    BY <2>1, <2>2
  <2> QED
    BY <1>2, <2>1, <2>3
<1> QED
  BY <1>2, <1>4, <1>5, <1>6, <1>7

LEMMA MaxRowOf ==
    ASSUME NEW d \in Dump, Progress(d)
    PROVE  /\ Length(d) \in Nat /\ Length(d) > 0 /\ Length(d) <= MaxAddress
           /\ MaxRow(d) \in Nat /\ MaxRow(d) > 0 /\ MaxRow(d) <= Length(d)
           /\ Length(d) <= MaxRow(d) * COLUMNS
           /\ \A k \in Nat : k < MaxRow(d) => k * COLUMNS < Length(d)
<1>1. Length(d) \in Nat /\ Length(d) > 0 /\ Length(d) <= MaxAddress
  BY Sizes DEF Dump, Progress, Length
<1>2. MaxRow(d) = (Length(d) + (COLUMNS - 1)) \div COLUMNS
  BY DEF MaxRow, Length
<1> QED
  BY <1>1, <1>2, MaxRowBounds, Sizes

(* A row takes as many bytes as are left, up to its width, and prints them all: *)
(* the buffer of a row is long enough.                                          *)
LEMMA RowColumns ==
    ASSUME NEW d \in Dump, d.cur < d.end, d.cur > 0
    PROVE  /\ Columns(d) = Shown(d)
           /\ Cardinality(Columns(d)) = LeastOf(COLUMNS, d.end - d.cur)
<1> DEFINE w == LeastOf(COLUMNS, d.end - d.cur)
<1>0. d.cur \in Nat /\ d.end \in Nat
  BY DEF Dump
<1>1. w \in Nat /\ w > 0 /\ w <= COLUMNS /\ w <= d.end - d.cur
      /\ (w = COLUMNS \/ w = d.end - d.cur)
  BY <1>0, Sizes DEF LeastOf
<1> HIDE DEF w
<1>2. ASSUME NEW c \in 0..(COLUMNS - 1)
      PROVE  LabelWidth + 3 * c + 3 < ROW_BUF_SIZE /\ LabelWidth + 3 * c <= ROW_BUF_SIZE
  BY Sizes
<1>3. ASSUME NEW c \in 0..(COLUMNS - 1) PROVE ptr_before(d.cur + c, d.end) <=> c < d.end - d.cur
  BY <1>0, Sizes DEF ptr_before
<1>4. Columns(d) = 0..(w - 1)
  BY <1>0, <1>1, <1>2, <1>3, Sizes DEF Columns
<1>5. Shown(d) = Columns(d)
  BY <1>2 DEF Shown, Columns
<1>6. Cardinality(0..(w - 1)) = w
  BY <1>1, FS_Interval
<1> QED
  BY <1>4, <1>5, <1>6 DEF w

(* One more row keeps what is said of the rows. *)
LEMMA RowKeeps ==
    ASSUME DumpInv, NEW t \in Writers, dump_row(t)
    PROVE  dump'[t] \in Dump /\ Progress(dump'[t])
<1> DEFINE d == dump[t]
           n == Length(d)
           w == LeastOf(COLUMNS, n - d.row * COLUMNS)
           row == [label |-> d.row * COLUMNS, bytes |-> [i \in 1..w |-> d.cur + i - 1]]
           e == dump'[t]
<1>0. d \in Dump /\ Progress(d) /\ d.row < MaxRow(d)
  BY DEF DumpInv, dump_row
<1>1. /\ d.start \in Nat /\ d.end \in Nat /\ d.cur \in Nat /\ d.row \in Nat
      /\ d.rows \in Seq(Row) /\ Len(d.rows) = d.row
  BY <1>0 DEF Dump, Progress
<1>2. /\ n \in Nat /\ n > 0 /\ MaxRow(d) \in Nat
      /\ d.row * COLUMNS < n /\ d.row * COLUMNS \in Nat
  <2> HIDE DEF d
  <2>1. /\ Length(d) \in Nat /\ Length(d) > 0 /\ MaxRow(d) \in Nat
        /\ \A k \in Nat : k < MaxRow(d) => k * COLUMNS < Length(d)
    BY <1>0, MaxRowOf
  <2>2. d.row * COLUMNS \in Nat
    BY <1>1, Sizes
  <2> QED
    BY <1>0, <1>1, <2>1, <2>2
<1>3. d.cur = d.start + d.row * COLUMNS /\ d.cur < d.end /\ d.cur > 0 /\ d.start > 0
  BY <1>0, <1>1, <1>2 DEF Progress, LeastOf, Length
<1>4. /\ Columns(d) = Shown(d) /\ Cardinality(Columns(d)) = w /\ w \in Nat
      /\ d.cur + w = d.start + LeastOf(d.row * COLUMNS + COLUMNS, n)
  <2>1. d.end - d.cur = n - d.row * COLUMNS
    BY <1>1, <1>2, <1>3 DEF Length
  <2>2. Columns(d) = Shown(d) /\ Cardinality(Columns(d)) = w
    BY <1>0, <1>3, <2>1, RowColumns
  <2>3. ASSUME NEW a \in Nat, NEW len \in Nat, NEW C \in Nat, C > 0, a < len
        PROVE  LeastOf(C, len - a) \in Nat /\ a + LeastOf(C, len - a) = LeastOf(a + C, len)
    BY <2>3 DEF LeastOf
  <2>4. w \in Nat /\ d.row * COLUMNS + w = LeastOf(d.row * COLUMNS + COLUMNS, n)
    BY <1>2, <2>3, Sizes
  <2> HIDE DEF d, n, w
  <2>5. d.cur + w = d.start + (d.row * COLUMNS + w)
    BY <1>1, <1>2, <1>3, <2>4
  <2> QED
    BY <2>2, <2>4, <2>5
<1>5. e = [d EXCEPT !.cur = @ + w, !.row = @ + 1, !.rows = Append(@, row)]
  BY <1>4 DEF dump_row, DumpInv
<1>6. row \in Row /\ Len(row.bytes) = w /\ row.label = d.row * COLUMNS
      /\ \A j \in 1..w : row.bytes[j] = d.start + row.label + j - 1
  <2>1. \A i \in 1..w : d.cur + i - 1 \in Nat
    BY <1>1, <1>4
  <2>2. row.bytes \in Seq(Nat) /\ Len(row.bytes) = w
    BY <1>4, <2>1
  <2> QED
    BY <1>2, <1>3, <2>2 DEF Row
<1> HIDE DEF n, w, row
<1>7. Append(d.rows, row) \in Seq(Row) /\ Len(Append(d.rows, row)) = d.row + 1
      /\ Append(d.rows, row)[d.row + 1] = row
      /\ \A i \in 1..d.row : Append(d.rows, row)[i] = d.rows[i]
  BY <1>1, <1>6, AppendProperties
<1>8. /\ e.start = d.start /\ e.end = d.end /\ e.cur = d.cur + w /\ e.row = d.row + 1
      /\ e.rows = Append(d.rows, row) /\ e \in Dump
  <2>1. e = [start |-> d.start, end |-> d.end, cur |-> d.cur + w, row |-> d.row + 1,
             rows |-> Append(d.rows, row)]
    BY <1>0, <1>5 DEF Dump
  <2>2. d.cur + w \in Nat /\ d.row + 1 \in Nat
    BY <1>1, <1>4
  <2> HIDE DEF d, e
  <2> QED
    BY <1>1, <1>7, <2>1, <2>2 DEF Dump
<1> HIDE DEF d, e
<1>9. Length(e) = n /\ MaxRow(e) = MaxRow(d)
  BY <1>8 DEF Length, MaxRow, n
<1>10. e.cur = e.start + LeastOf(e.row * COLUMNS, Length(e))
  <2>1. (d.row + 1) * COLUMNS = d.row * COLUMNS + COLUMNS
    BY <1>1, Sizes
  <2> QED
    BY <1>4, <1>8, <1>9, <2>1
<1>11. ASSUME NEW i \in 1..e.row
       PROVE  /\ e.rows[i].label = (i - 1) * COLUMNS
              /\ Len(e.rows[i].bytes) = LeastOf(COLUMNS, Length(e) - e.rows[i].label)
              /\ \A j \in 1..Len(e.rows[i].bytes) :
                    e.rows[i].bytes[j] = e.start + e.rows[i].label + j - 1
  <2>1. CASE i = d.row + 1
    <3>1. e.rows[i] = row /\ i - 1 = d.row
      BY <1>1, <1>7, <1>8, <2>1
    <3>2. w = LeastOf(COLUMNS, n - row.label)
      BY <1>6 DEF w
    <3> QED
      BY <1>6, <1>8, <1>9, <3>1, <3>2
  <2>2. CASE i # d.row + 1
    <3>1. i \in 1..d.row
      BY <1>1, <1>8, <2>2
    <3>2. e.rows[i] = d.rows[i]
      BY <1>7, <1>8, <3>1
    <3> QED
      BY <1>0, <1>8, <1>9, <3>1, <3>2 DEF Progress, n
  <2> QED
    BY <2>1, <2>2
<1>12. Progress(e)
  <2>1. e.start > 0 /\ e.start < e.end /\ e.end <= MaxAddress
    BY <1>0, <1>8 DEF Progress
  <2>2. e.row <= MaxRow(e) /\ Len(e.rows) = e.row
    BY <1>0, <1>1, <1>2, <1>7, <1>8, <1>9
  <2> QED
    BY <1>10, <1>11, <2>1, <2>2 DEF Progress
<1> QED
  BY <1>8, <1>12 DEF e

LEMMA DumpStep == DumpInv /\ [LogNext]_logVars => DumpInv'
<1> SUFFICES ASSUME DumpInv, [LogNext]_logVars PROVE DumpInv'
  OBVIOUS
<1>0. dump \in [Writers -> Dump]
  BY DEF DumpInv
<1>i. Idle \in Dump
  BY DEF Idle, Dump
<1>1. CASE UNCHANGED dump
  BY <1>1 DEF DumpInv
<1>2. ASSUME NEW t \in Writers, NEW new \in Dump, new = Idle \/ Progress(new),
             dump' = [dump EXCEPT ![t] = new]
      PROVE  DumpInv'
  BY <1>0, <1>2 DEF DumpInv
<1>3. ASSUME NEW t \in Writers, NEW level \in Levels,
             NEW start \in 0..MaxAddress, NEW end \in 0..MaxAddress,
             debug_dump_ptr(t, level, start, end)
      PROVE  DumpInv'
  <2>1. CASE ~ptr_before(start, end)
    BY <1>1, <1>3, <2>1 DEF debug_dump_ptr
  <2>2. CASE ptr_before(start, end)
    <3> DEFINE new == [start |-> start, end |-> end, cur |-> start, row |-> 0, rows |-> <<>>]
    <3>1. /\ start \in Nat /\ end \in Nat /\ start > 0 /\ start < end /\ end <= MaxAddress
      BY <2>2, Sizes DEF ptr_before
    <3>2. new \in Dump
      BY <3>1 DEF Dump
    <3>3. Progress(new)
      <4>1. Length(new) \in Nat /\ Length(new) > 0
        BY <3>1 DEF Length
      <4>2. MaxRow(new) = (Length(new) + (COLUMNS - 1)) \div COLUMNS
        BY DEF MaxRow, Length
      <4>3. MaxRow(new) \in Nat
        BY <4>1, <4>2, MaxRowBounds, Sizes
      <4>4. 0 * COLUMNS = 0
        BY Sizes
      <4>5. new.cur = new.start + LeastOf(new.row * COLUMNS, Length(new))
        BY <3>1, <4>1, <4>4 DEF LeastOf
      <4> QED
        BY <3>1, <4>3, <4>5 DEF Progress
    <3>4. dump' = [dump EXCEPT ![t] = new]
      BY <1>3, <2>2 DEF debug_dump_ptr
    <3> HIDE DEF new
    <3> QED
      BY <1>2, <3>2, <3>3, <3>4
  <2> QED
    BY <2>1, <2>2
<1>4. ASSUME NEW t \in Writers, dump_row(t) PROVE DumpInv'
  <2>1. dump'[t] \in Dump /\ Progress(dump'[t])
    BY <1>4, RowKeeps
  <2>2. dump' = [dump EXCEPT ![t] = dump'[t]]
    BY <1>0, <1>4 DEF dump_row
  <2> QED
    BY <1>2, <2>1, <2>2
<1>5. ASSUME NEW t \in Writers, dump_done(t) PROVE DumpInv'
  BY <1>2, <1>5, <1>i DEF dump_done
<1>6. \/ UNCHANGED dump
      \/ \E t \in Writers : dump_row(t) \/ dump_done(t)
      \/ \E t \in Writers, level \in Levels : \E start, end \in 0..MaxAddress :
            debug_dump_ptr(t, level, start, end)
  BY DEF LogNext, logVars, debug_set_level, message, assert_error
<1> QED
  BY <1>1, <1>3, <1>4, <1>5, <1>6

LEMMA DumpInvariant == LogSpec => []DumpInv
<1>1. LogInit => DumpInv
  BY DEF LogInit, DumpInv, Dump, Idle
<1> QED
  BY <1>1, DumpStep, PTL DEF LogSpec

(* The level stays within its limits, a dump within its range. *)
THEOREM LogTypeCorrect == LogSpec => []LogTypeOK
<1>1. DumpInv /\ LevelOK /\ NeverMuted => LogTypeOK
  <2> SUFFICES ASSUME DumpInv, LevelOK, NeverMuted PROVE LogTypeOK
    OBVIOUS
  <2>1. dropped \subseteq Levels
    BY DEF NeverMuted, Levels, DEBUG_NONE, DEBUG_INFO, DEBUG_DETAIL, DEBUG_FLOOD
  <2>2. ASSUME NEW t \in Writers
        PROVE  /\ dump[t].cur \in dump[t].start..dump[t].end
               /\ dump[t].row \in 0..MaxAddress
               /\ Len(dump[t].rows) = dump[t].row
    <3>1. CASE dump[t] = Idle
      BY <3>1, Sizes DEF Idle
    <3>2. CASE Progress(dump[t])
      <4> DEFINE d == dump[t]
      <4>1. d \in Dump /\ Progress(d)
        BY <3>2 DEF DumpInv
      <4> HIDE DEF d
      <4>2. /\ Length(d) \in Nat /\ Length(d) <= MaxAddress
            /\ MaxRow(d) \in Nat /\ MaxRow(d) <= Length(d)
        BY <4>1, MaxRowOf
      <4>3. d.start \in Nat /\ d.end \in Nat /\ d.row \in Nat /\ d.row * COLUMNS \in Nat
            /\ d.end = d.start + Length(d)
        BY <4>1, Sizes DEF Dump, Length
      <4>4. d.cur \in d.start..d.end
        BY <4>1, <4>2, <4>3 DEF Progress, LeastOf
      <4>5. d.row \in 0..MaxAddress /\ Len(d.rows) = d.row
        BY <4>1, <4>2, <4>3, Sizes DEF Progress
      <4> QED
        BY <4>4, <4>5 DEF d
    <3> QED
      BY <3>1, <3>2 DEF DumpInv
  <2> QED
    BY <2>1, <2>2 DEF LogTypeOK, LevelOK
<1>2. LogSpec => [](LevelOK /\ NeverMuted)
  BY LevelInit, LevelStep, PTL DEF LogSpec
<1> QED
  BY <1>1, <1>2, DumpInvariant, PTL

(* debug_dump_ptr prints every byte of its range once and in order, for every  *)
(* length, a multiple of the row width or not, and every row buffer that is    *)
(* long enough for a full row.                                                 *)
THEOREM DumpsAreComplete == LogSpec => []DumpComplete
<1>1. DumpInv => DumpComplete
  <2> SUFFICES ASSUME DumpInv, NEW t \in Writers,
                      dump[t] # Idle, dump[t].row = MaxRow(dump[t])
               PROVE  LET d == dump[t] IN
                      /\ Len(d.rows) > 0 /\ d.rows[1].label = 0
                      /\ \A i \in DOMAIN d.rows :
                           /\ d.rows[i].label + Len(d.rows[i].bytes)
                              = IF i = Len(d.rows) THEN d.end - d.start ELSE d.rows[i + 1].label
                           /\ \A j \in DOMAIN d.rows[i].bytes :
                                 d.rows[i].bytes[j] = d.start + d.rows[i].label + j - 1
    BY DEF DumpComplete
  <2> DEFINE d == dump[t]
  <2>1. d \in Dump /\ Progress(d) /\ d.row = MaxRow(d)
    BY DEF DumpInv
  <2> HIDE DEF d
  <2>2. /\ Length(d) \in Nat /\ MaxRow(d) \in Nat /\ MaxRow(d) > 0
        /\ Length(d) <= MaxRow(d) * COLUMNS
        /\ \A k \in Nat : k < MaxRow(d) => k * COLUMNS < Length(d)
    BY <2>1, MaxRowOf
  <2>3. /\ d.rows \in Seq(Row) /\ Len(d.rows) = MaxRow(d) /\ DOMAIN d.rows = 1..MaxRow(d)
        /\ d.row = MaxRow(d) /\ d.row \in Nat
    BY <2>1, <2>2 DEF Dump, Progress
  <2>4. d.rows[1].label = 0
    <3>1. d.rows[1].label = (1 - 1) * COLUMNS
      BY <2>1, <2>2, <2>3 DEF Progress
    <3>2. (1 - 1) * COLUMNS = 0
      BY Sizes
    <3> QED
      BY <3>1, <3>2
  <2>5. ASSUME NEW i \in 1..MaxRow(d)
        PROVE  /\ d.rows[i].label + Len(d.rows[i].bytes)
                  = IF i = Len(d.rows) THEN d.end - d.start ELSE d.rows[i + 1].label
               /\ \A j \in DOMAIN d.rows[i].bytes :
                     d.rows[i].bytes[j] = d.start + d.rows[i].label + j - 1
    <3> DEFINE k == i - 1
    <3>1. k \in Nat /\ k < MaxRow(d) /\ k * COLUMNS \in Nat /\ i * COLUMNS = k * COLUMNS + COLUMNS
      BY <2>2, Sizes
    <3>2. d.rows[i].label = k * COLUMNS
          /\ Len(d.rows[i].bytes) = LeastOf(COLUMNS, Length(d) - k * COLUMNS)
          /\ \A j \in 1..Len(d.rows[i].bytes) :
                d.rows[i].bytes[j] = d.start + d.rows[i].label + j - 1
      BY <2>1, <2>3 DEF Progress
    <3>3. k * COLUMNS < Length(d)
      BY <2>2, <3>1
    <3>4. d.rows[i].bytes \in Seq(Nat)
      <4>1. d.rows[i] \in Row
        BY <2>3
      <4> QED
        BY <4>1 DEF Row
    <3>5. DOMAIN d.rows[i].bytes = 1..Len(d.rows[i].bytes)
      BY <3>4
    <3> HIDE DEF k
    <3>6. CASE i = MaxRow(d)
      <4>1. Length(d) <= k * COLUMNS + COLUMNS
        BY <2>2, <3>1, <3>6
      <4>2. LeastOf(COLUMNS, Length(d) - k * COLUMNS) = Length(d) - k * COLUMNS
        BY <2>2, <3>1, <4>1, Sizes DEF LeastOf
      <4>3. k * COLUMNS + (Length(d) - k * COLUMNS) = d.end - d.start
        BY <2>2, <3>1 DEF Length
      <4> QED
        BY <2>3, <3>2, <3>5, <3>6, <4>2, <4>3
    <3>7. CASE i # MaxRow(d)
      <4>1. i \in Nat /\ i < MaxRow(d) /\ i + 1 \in 1..MaxRow(d) /\ i * COLUMNS < Length(d)
        BY <2>2, <3>7
      <4>2. LeastOf(COLUMNS, Length(d) - k * COLUMNS) = COLUMNS
        BY <2>2, <3>1, <4>1, Sizes DEF LeastOf
      <4>3. d.rows[i + 1].label = i * COLUMNS
        <5>1. d.rows[i + 1].label = ((i + 1) - 1) * COLUMNS
          BY <2>1, <2>3, <4>1 DEF Progress
        <5>2. (i + 1) - 1 = i
          BY <4>1
        <5> QED
          BY <5>1, <5>2
      <4> QED
        BY <2>3, <3>1, <3>2, <3>5, <3>7, <4>2, <4>3
    <3> QED
      BY <3>6, <3>7
  <2>6. Len(d.rows) > 0
    BY <2>2, <2>3
  <2>7. DOMAIN d.rows = 1..MaxRow(d)
    BY <2>3
  <2> QED
    BY <2>4, <2>5, <2>6, <2>7, Zenon DEF d
<1> QED
  BY <1>1, DumpInvariant, PTL

===============================================================================
