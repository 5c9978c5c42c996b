-------------------------------- MODULE MCUtil --------------------------------
(* The codec, the log and the clock for TLC.  They share no state, so that one *)
(* run checks each of them on its own; the bounds are in Util.cfg.             *)
EXTENDS Codec, DebugLog, Clock

VARIABLE part

CodecAlone == part = "codec" /\ CodecNext /\ UNCHANGED <<part, logVars, clockVars>>
LogAlone == part = "log" /\ LogNext /\ UNCHANGED <<part, codecVars, clockVars>>
ClockAlone == part = "clock" /\ ClockNext /\ UNCHANGED <<part, codecVars, logVars>>

(* A part that does not run starts in one of its initial states only. *)
UtilInit ==
    /\ part \in {"codec", "log", "clock"}
    /\ CodecInit /\ LogInit /\ ClockInit
    /\ part # "codec" => \A i \in Cells : buf[i] = 0
    /\ part # "clock" => platform = "POSIX" /\ now = 0

UtilNext == CodecAlone \/ LogAlone \/ ClockAlone

UtilSpec == UtilInit /\ [][UtilNext]_<<part, codecVars, logVars, clockVars>>
===============================================================================
