--------------------------- MODULE ExceptionRecord ---------------------------
(***************************************************************************)
(* The record in backup RAM of exceptions.c.  It survives a reset; the     *)
(* threads of the board and the fault handler fill it in without a lock,   *)
(* and ui reports it after it has acknowledged a command.  Of what a       *)
(* record says only its type is kept.                                      *)
(***************************************************************************)

VARIABLES
    magic,       \* magicnumber = ERROR_MAGIC_NUMBER
    type,
    reporter,    \* the dsp thread in a report_*: "idle", "magic", "type"
    failure,     \* what it reports
    faulted,     \* history: a fault since which nothing has been reported
    untold       \* history: a failure since which nothing has been reported

record == <<magic, type, reporter, failure, faulted, untold>>

Failures == {"crc", "sdram", "ring"}
Types == Failures \cup {"none", "fault", "brownout", "file"}

RecordTypeOK ==
    /\ magic \in BOOLEAN /\ type \in Types
    /\ reporter \in {"idle", "magic", "type"} /\ failure \in Failures \cup {"none"}
    /\ faulted \in BOOLEAN /\ untold \in BOOLEAN

RecordInit ==
    /\ magic = FALSE /\ type = "none" /\ reporter = "idle" /\ failure = "none"
    /\ faulted = FALSE /\ untold = FALSE
-----------------------------------------------------------------------------
(* The dsp thread: report_patchLoadFail and the others.  Only ui comes in  *)
(* between its stores.                                                     *)

\* Mutant: a record that is there is overwritten.
ReportOver(k) ==
    /\ failure' = k /\ untold' = TRUE
    /\ reporter' = "magic"
    /\ UNCHANGED <<magic, type, faulted>>

\* The first record is kept.
Report(k) ==
    /\ untold' = TRUE
    /\ IF magic
         THEN UNCHANGED <<reporter, failure>>
         ELSE reporter' = "magic" /\ failure' = k
    /\ UNCHANGED <<magic, type, faulted>>

SetMagic ==
    /\ reporter = "magic"
    /\ magic' = TRUE
    /\ reporter' = "type"
    /\ UNCHANGED <<type, failure, faulted, untold>>

SetType ==
    /\ reporter = "type"
    /\ type' = failure
    /\ reporter' = "idle" /\ failure' = "none"
    /\ UNCHANGED <<magic, faulted, untold>>
-----------------------------------------------------------------------------
(* ui, which the dsp thread cannot preempt *)

\* exception_checkandreport.  A failure whose report has not stored anything yet
\* is not in it.
CheckAndReport ==
    /\ magic
    /\ magic' = FALSE
    /\ faulted' = FALSE /\ untold' = (reporter = "magic")
    /\ UNCHANGED <<type, reporter, failure>>

\* report_fatfs_error, when a command on a file fails
FileError ==
    /\ ~magic
    /\ magic' = TRUE /\ type' = "file"
    /\ untold' = TRUE
    /\ UNCHANGED <<reporter, failure, faulted>>
-----------------------------------------------------------------------------
(* Resets *)

\* prvGetRegistersFromStack: nothing comes after it but the reset.
Fault ==
    /\ magic' = TRUE /\ type' = "fault"
    /\ reporter' = "idle" /\ failure' = "none"
    /\ faulted' = TRUE /\ untold' = TRUE

\* Mutant: the record is cleared when the board starts.
ExceptionInitClean(brownout) ==
    /\ magic' = FALSE /\ type' = "none"
    /\ reporter' = "idle" /\ failure' = "none"
    /\ UNCHANGED <<faulted, untold>>

\* A reset by pin or brownout, and exception_init after it.  A report that the
\* reset interrupts before its first store is not of the next run.
ExceptionInit(brownout) ==
    /\ magic' = (magic \/ brownout)
    /\ type' = IF magic THEN type ELSE IF brownout THEN "brownout" ELSE "none"
    /\ reporter' = "idle" /\ failure' = "none"
    /\ untold' = (untold /\ (reporter = "magic" => magic))
    /\ UNCHANGED faulted
-----------------------------------------------------------------------------
\* The first failure is told: what happens between a fault and the next report,
\* at the next start of the board or in the patch it loads, does not overwrite
\* the record of the fault (exceptions.c:291).
FaultKept == faulted => magic /\ type = "fault"

\* A failure is followed by a report, of itself or of an earlier one: the record
\* is not cleared unseen, by a reset or by ui in the middle of a report.
NoneUntold == untold /\ reporter # "magic" => magic
=============================================================================
