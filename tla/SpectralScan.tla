---------------------------- MODULE SpectralScan ----------------------------
(***************************************************************************)
(* spectralScanRunner() and the second radio, the sx1261, that scans for   *)
(* it. A scan is started only while no packet is to be transmitted, and    *)
(* jitRunner() aborts it before it transmits one. Each access of a radio   *)
(* is a critical section of mLGW and a step.                               *)
(***************************************************************************)
EXTENDS Naturals

CONSTANTS NB_CHAN \* the channels to scan

ASSUME ScanAssumption == NB_CHAN \in Nat \ {0}

VARIABLES
  spc,     \* where spectralScanRunner is
  chan,    \* freqHz
  scanner, \* the sx1261: its status, the channel it is tuned to, whether its
           \* results are those of a whole scan, and whether the scan was
           \* started or kept on by an access that failed
  report   \* the last report: its channel, and the scan that it is about

scanVars == <<spc, chan, scanner, report>>

Channels == 0 .. NB_CHAN-1
Scanner  == [status : {"none", "ongoing", "completed", "aborted"},
             chan : Channels, whole : BOOLEAN, blind : BOOLEAN]

ScanTypeOK ==
  /\ spc \in {"pace", "scanning", "completed", "stopped"}
  /\ chan \in Channels /\ scanner \in Scanner
  /\ report \in [chan : Channels, of : Channels, whole : BOOLEAN]

ScanInit ==
  /\ spc = "pace" /\ chan = 0
  /\ scanner = [status |-> "none", chan |-> 0, whole |-> FALSE, blind |-> FALSE]
  /\ report = [chan |-> 0, of |-> 0, whole |-> TRUE]

\* Mutant of Busy: a packet that is only scheduled does not keep the scan off.
BusyEmitting(status) == status = "emitting"

Busy(status) == status \in {"scheduled", "emitting"}

\* The status of the transmitter is read, and the scan started, in one critical
\* section. A status that cannot be read is "unknown" and keeps nothing off.
ScanStart(status) ==
  /\ spc = "pace"
  /\ \E seen \in {status, "unknown"} :
       /\ ~Busy(seen)
       /\ scanner' = [status |-> "ongoing", chan |-> chan, whole |-> FALSE,
                      blind |-> seen # status]
  /\ spc' = "scanning"
  /\ UNCHANGED <<chan, report>>

\* The device has finished.
ScanDone ==
  /\ scanner.status = "ongoing"
  /\ scanner' = [scanner EXCEPT !.status = "completed", !.whole = TRUE]
  /\ UNCHANGED <<spc, chan, report>>

\* Mutant of ScanPoll: a scan that was aborted is taken for completed.
ScanPollAborted ==
  /\ spc = "scanning"
  /\ \/ spc' = "completed" /\ scanner.status \in {"completed", "aborted"}
     \/ spc' = "pace"
  /\ UNCHANGED <<chan, scanner, report>>

\* The scan is awaited until it is completed or aborted; a failed access and
\* the time limit of two seconds end the wait too.
ScanPoll ==
  /\ spc = "scanning"
  /\ \/ spc' = "completed" /\ scanner.status = "completed"
     \/ spc' = "pace"
  /\ UNCHANGED <<chan, scanner, report>>

NextChannel(c) == IF c + 1 >= NB_CHAN THEN 0 ELSE c + 1

\* The results are read and reported, and the next channel is due; or the
\* access fails.
ScanReport ==
  /\ spc = "completed"
  /\ spc' = "pace"
  /\ \/ /\ report' = [chan |-> chan, of |-> scanner.chan, whole |-> scanner.whole]
        /\ chan' = NextChannel(chan)
     \/ UNCHANGED <<report, chan>>
  /\ UNCHANGED scanner

\* lgw_spectral_scan_abort() stops a scan that runs, or fails.
Aborted(s) ==
  IF s.status = "ongoing"
  THEN {[s EXCEPT !.status = "aborted"], [s EXCEPT !.blind = TRUE]}
  ELSE {s}

ScanLeave == spc = "pace" /\ spc' = "stopped" /\ UNCHANGED <<chan, scanner, report>>

\* What is reported of a channel is a whole scan of that channel, though
\* jitRunner() may abort a scan at any time (spectralScanRunner).
ScanReported == report.whole /\ report.of = report.chan
=============================================================================
