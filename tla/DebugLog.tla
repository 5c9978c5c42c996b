------------------------------ MODULE DebugLog ------------------------------
(***************************************************************************)
(* The log of src/util/debug.c: a level that any thread may set, messages  *)
(* that are printed or dropped by it, assertions that end the process, and *)
(* dumps of memory in rows.  A byte of memory is known by its address;     *)
(* address 0 is NULL.                                                      *)
(***************************************************************************)
EXTENDS Naturals, Sequences, FiniteSets

CONSTANTS
    Writers,       \* the threads that log
    COLUMNS,       \* bytes per row of a dump
    ROW_BUF_SIZE,  \* characters a row may have
    LabelWidth,    \* characters of the widest label a dump needs
    MaxAddress     \* bound: the highest address of a dump's end

ASSUME DebugAssumption ==
    /\ COLUMNS \in Nat \ {0}
    /\ ROW_BUF_SIZE \in Nat
    /\ LabelWidth \in Nat
    /\ MaxAddress \in Nat
    /\ LabelWidth + 3 * COLUMNS < ROW_BUF_SIZE

DEBUG_NONE == 0
DEBUG_WARN == 1
DEBUG_INFO == 2
DEBUG_DETAIL == 3
DEBUG_FLOOD == 4
DEBUG_ERROR == 1000
Levels == (DEBUG_NONE..DEBUG_FLOOD) \cup {DEBUG_ERROR}

VARIABLES
    debug_level,
    dropped,  \* history: the levels of messages that were not printed
    dump,     \* per thread: the dump in progress, its rows as printed so far
    exited    \* has a failed assertion ended the process

logVars == <<debug_level, dropped, dump, exited>>

Idle == [start |-> 0, end |-> 0, cur |-> 0, row |-> 0, rows |-> <<>>]

LogInit ==
    /\ debug_level = DEBUG_WARN
    /\ dropped = {}
    /\ dump = [t \in Writers |-> Idle]
    /\ exited = FALSE

-------------------------------------------------------------------------------
Unclamped(level) == level              \* mutant: any level is taken
Clamped(level) ==
    IF level < DEBUG_WARN THEN DEBUG_WARN
    ELSE IF level > DEBUG_FLOOD THEN DEBUG_FLOOD ELSE level

debug_set_level(level) ==
    /\ debug_level' = Clamped(level)
    /\ UNCHANGED <<dropped, dump, exited>>

Printed(level) == level <= debug_level \/ level = DEBUG_ERROR

debug_impl(level) ==
    /\ dropped' = IF Printed(level) THEN dropped ELSE dropped \cup {level}
    /\ UNCHANGED debug_level

(* debug_impl called by warn, info, detail, flood or directly. *)
message(t, level) ==
    /\ dump[t] = Idle
    /\ debug_impl(level)
    /\ UNCHANGED <<dump, exited>>

(* assert_error with a false condition. *)
assert_error(t) ==
    /\ dump[t] = Idle
    /\ debug_impl(DEBUG_ERROR)
    /\ exited' = TRUE
    /\ UNCHANGED dump

ptr_before(ptr, end) == ptr # 0 /\ end # 0 /\ ptr < end

(* debug_dump_ptr returns at once for a level the log prints; it warns of null *)
(* pointers and of an empty range; else the rows follow.                       *)
debug_dump_ptr(t, level, start, end) ==
    /\ dump[t] = Idle
    /\ level > debug_level
    /\ IF ptr_before(start, end)
       THEN /\ dump' = [dump EXCEPT ![t] =
                  [start |-> start, end |-> end, cur |-> start, row |-> 0, rows |-> <<>>]]
            /\ UNCHANGED <<debug_level, dropped>>
       ELSE debug_impl(DEBUG_WARN) /\ UNCHANGED dump
    /\ UNCHANGED exited

RowsCutOff(d) == (d.end - d.start) \div COLUMNS    \* mutant: not rounded up
MaxRow(d) == ((d.end - d.start) + (COLUMNS - 1)) \div COLUMNS

(* The columns the inner loop goes through, and those whose text fits.         *)
Columns(d) ==
    {c \in 0..(COLUMNS - 1) : /\ ptr_before(d.cur + c, d.end)
                              /\ LabelWidth + 3 * c <= ROW_BUF_SIZE}
Shown(d) == {c \in Columns(d) : LabelWidth + 3 * c + 3 < ROW_BUF_SIZE}

dump_row(t) ==
    LET d == dump[t]
        row == [label |-> d.row * COLUMNS,
                bytes |-> [i \in 1..Cardinality(Shown(d)) |-> d.cur + i - 1]]
    IN  /\ d # Idle /\ d.row < MaxRow(d)
        /\ dump' = [dump EXCEPT ![t] =
              [d EXCEPT !.cur = @ + Cardinality(Columns(d)), !.row = @ + 1,
                        !.rows = Append(@, row)]]
        /\ UNCHANGED <<debug_level, dropped, exited>>

dump_done(t) ==
    /\ dump[t] # Idle /\ dump[t].row = MaxRow(dump[t])
    /\ dump' = [dump EXCEPT ![t] = Idle]
    /\ UNCHANGED <<debug_level, dropped, exited>>

LogNext ==
    /\ ~exited
    /\ \/ \E level \in Levels : debug_set_level(level)
       \/ \E t \in Writers, level \in Levels :
             \/ message(t, level)
             \/ \E start, end \in 0..MaxAddress : debug_dump_ptr(t, level, start, end)
       \/ \E t \in Writers : assert_error(t) \/ dump_row(t) \/ dump_done(t)

LogSpec == LogInit /\ [][LogNext]_logVars

-------------------------------------------------------------------------------
(* The level stays within what debug_set_level clamps it to, and a dump within *)
(* its range.                                                                  *)
LogTypeOK ==
    /\ debug_level \in DEBUG_WARN..DEBUG_FLOOD
    /\ dropped \subseteq Levels
    /\ \A t \in Writers : /\ dump[t].cur \in dump[t].start..dump[t].end
                          /\ dump[t].row \in 0..MaxAddress
                          /\ Len(dump[t].rows) = dump[t].row

(* Warnings and errors cannot be silenced: whatever levels are set, in         *)
(* whatever order, debug_impl drops messages of the other levels only.         *)
NeverMuted == dropped \subseteq {DEBUG_INFO, DEBUG_DETAIL, DEBUG_FLOOD}

(* A dump that is done has printed every byte of the range once and in order:  *)
(* each row holds the bytes from its label, a position in the range, up to the *)
(* label of the next row, and the last row those up to the end.                *)
DumpComplete ==
    \A t \in Writers :
       LET d == dump[t]
       IN  (d # Idle /\ d.row = MaxRow(d)) =>
             /\ Len(d.rows) > 0 /\ d.rows[1].label = 0
             /\ \A i \in DOMAIN d.rows :
                  LET row == d.rows[i]
                  IN  /\ row.label + Len(row.bytes)
                         = IF i = Len(d.rows) THEN d.end - d.start ELSE d.rows[i + 1].label
                      /\ \A j \in DOMAIN row.bytes :
                            row.bytes[j] = d.start + row.label + j - 1

===============================================================================
