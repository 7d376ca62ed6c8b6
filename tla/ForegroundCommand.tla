--------------------------- MODULE ForegroundCommand ---------------------------
(***************************************************************************)
(* run_process: a command in a process group of its own, two reader        *)
(* threads that empty its pipes up to a cap, and a thread that polls for   *)
(* cancellation, the deadline and the end, then waits for the readers for  *)
(* a moment.  A descendant that left the group keeps the pipes open.       *)
(***************************************************************************)
EXTENDS Naturals, FiniteSets

CONSTANTS
    Pipes,     \* stdout and stderr
    MaxWritten, \* bound: bytes a pipe sees
    Cap        \* MAX_CAPTURE_BYTES

ASSUME CommandAssumption == {MaxWritten, Cap} \subseteq Nat

VARIABLES
    commandPc, \* "start", "poll", "join" or "done"
    commandStop, \* cancel_event
    overdue,   \* the deadline has passed
    commandEnd, \* "none", "cancelled", "timed_out"
    process,   \* "none", "running", "dead"
    code,      \* its exit: "none", "zero", "nonzero", "killed"
    holder,    \* a descendant has the pipes
    written,   \* by pipe
    read,      \* by the reader, of these
    kept,      \* chunks, of these
    overflow,  \* output_overflow
    reading,   \* pipes whose reader has not met the end
    resultStatus, whole, captured, exit, \* of the ToolResult: whole if no pipe
                                         \* overflowed (it may be shortened yet)
    abandoned  \* history: pipes whose reader was left behind

thread == <<commandPc, commandStop, overdue, commandEnd>>
family == <<process, code, holder>>
drained == <<read, kept, overflow, reading>>
toolResult == <<resultStatus, whole, captured, exit, abandoned>>
commandVars == <<thread, family, written, drained, toolResult>>

Counts == [Pipes -> 0..MaxWritten]
CommandTypeOK ==
    /\ commandPc \in {"start", "poll", "join", "done"}
    /\ {commandStop, overdue, holder, whole} \subseteq BOOLEAN
    /\ process \in {"none", "running", "dead"}
    /\ {code, exit} \subseteq {"none", "zero", "nonzero", "killed"}
    /\ {written, read, kept, captured} \subseteq Counts
    /\ {overflow, reading, abandoned} \subseteq SUBSET Pipes
    /\ commandEnd \in {"none", "cancelled", "timed_out"}
    /\ resultStatus \in {"none", "ok", "error", "cancelled", "timed_out"}

NoBytes == [p \in Pipes |-> 0]
CommandInit ==
    /\ commandPc = "start" /\ commandStop = FALSE /\ overdue = FALSE /\ process = "none"
    /\ code = "none" /\ holder = FALSE /\ written = NoBytes /\ read = NoBytes
    /\ kept = NoBytes /\ overflow = {} /\ reading = {} /\ commandEnd = "none"
    /\ resultStatus = "none" /\ whole = TRUE /\ captured = NoBytes /\ exit = "none"
    /\ abandoned = {}

-----------------------------------------------------------------------------
CancelCommand ==
    /\ ~commandStop /\ commandPc # "done" /\ commandStop' = TRUE
    /\ UNCHANGED <<commandPc, overdue, commandEnd, family, written, drained, toolResult>>

Expire ==
    /\ ~overdue /\ commandPc = "poll" /\ overdue' = TRUE
    /\ UNCHANGED <<commandPc, commandStop, commandEnd, family, written, drained, toolResult>>

(* Cancelled before, or not startable: no process. *)
StartCommand ==
    /\ commandPc = "start"
    /\ \/ /\ commandStop /\ commandPc' = "done" /\ resultStatus' = "cancelled"
          /\ UNCHANGED <<process, reading>>
       \/ /\ ~commandStop /\ commandPc' = "done" /\ resultStatus' = "error"
          /\ UNCHANGED <<process, reading>>
       \/ /\ ~commandStop /\ commandPc' = "poll" /\ process' = "running" /\ reading' = Pipes
          /\ UNCHANGED resultStatus
    /\ UNCHANGED <<commandStop, overdue, commandEnd, code, holder, written, read, kept,
                   overflow, whole, captured, exit, abandoned>>

(* The command writes, leaves a descendant behind, and ends. *)
WriteByte(p) ==
    /\ process = "running" \/ holder
    /\ written[p] < MaxWritten /\ written' = [written EXCEPT ![p] = @ + 1]
    /\ UNCHANGED <<thread, family, drained, toolResult>>

LeaveDescendant ==
    /\ process = "running" /\ ~holder /\ holder' = TRUE
    /\ UNCHANGED <<thread, process, code, written, drained, toolResult>>

ExitCommand(how) ==
    /\ process = "running" /\ process' = "dead" /\ code' = how
    /\ UNCHANGED <<thread, holder, written, drained, toolResult>>

LetGo ==
    /\ holder /\ process = "dead" /\ holder' = FALSE
    /\ UNCHANGED <<thread, process, code, written, drained, toolResult>>

Least(a, b) == IF a < b THEN a ELSE b

(* A chunk beyond the cap is cut, and the cut is marked. *)
Overflows(p, n) == kept[p] + n > Cap

Drain(p) ==
    /\ p \in reading
    /\ \E n \in 1..(written[p] - read[p]) :
         /\ read' = [read EXCEPT ![p] = @ + n]
         /\ kept' = [kept EXCEPT ![p] = Least(Cap, @ + n)]
         /\ overflow' = IF Overflows(p, n) THEN overflow \cup {p} ELSE overflow
    /\ UNCHANGED <<thread, family, written, reading, toolResult>>

EndOfFile(p) ==
    /\ p \in reading /\ process = "dead" /\ ~holder /\ read[p] = written[p]
    /\ reading' = reading \ {p}
    /\ UNCHANGED <<thread, family, written, read, kept, overflow, toolResult>>

-----------------------------------------------------------------------------
(* terminate_process_tree: a group whose leader has ended is left alone;   *)
(* else it is killed, but for a descendant outside it, or the kill fails.  *)
Terminate ==
    \/ /\ process = "running" /\ process' = "dead" /\ code' \in {"zero", "nonzero", "killed"}
       /\ holder' \in {holder, FALSE}
    \/ UNCHANGED family

(* First cancellation, then the deadline, then the end. *)
PollCommand ==
    /\ commandPc = "poll"
    /\ \/ commandStop /\ commandEnd' = "cancelled" /\ Terminate
       \/ ~commandStop /\ overdue /\ commandEnd' = "timed_out" /\ Terminate
       \/ /\ ~commandStop /\ ~overdue /\ process = "dead"
          /\ commandEnd' = "none" /\ UNCHANGED family
    /\ commandPc' = "join"
    /\ UNCHANGED <<commandStop, overdue, written, drained, toolResult>>

(* The readers are waited for a moment, whether they are done or not; the  *)
(* chunks are joined under the lock.                                       *)
JoinReaders ==
    /\ commandPc = "join" /\ commandPc' = "done"
    /\ captured' = kept /\ whole' = (overflow = {}) /\ exit' = code
    /\ abandoned' = reading
    /\ resultStatus' = IF commandEnd # "none" THEN commandEnd
                       ELSE IF code = "zero" THEN "ok" ELSE "error"
    /\ UNCHANGED <<commandStop, overdue, commandEnd, family, written, drained>>

CommandNext ==
    \/ CancelCommand \/ Expire \/ StartCommand \/ LeaveDescendant \/ LetGo \/ PollCommand
    \/ JoinReaders
    \/ \E p \in Pipes : WriteByte(p) \/ Drain(p) \/ EndOfFile(p)
    \/ \E how \in {"zero", "nonzero"} : ExitCommand(how)

CommandSpec == CommandInit /\ [][CommandNext]_commandVars

-----------------------------------------------------------------------------
(* A command is told to have succeeded only if it ended by itself and in   *)
(* time; and what its result has of a pipe whose reader met the end is all *)
(* of it, or the result says that it was cut, which it says of nothing     *)
(* that fits.                                                              *)
ResultIsTold ==
    commandPc = "done" =>
        /\ resultStatus = "ok" => exit = "zero" /\ process = "dead"
        /\ resultStatus = "error" => exit \in {"none", "nonzero"}
        /\ \A p \in Pipes \ abandoned : whole => captured[p] = written[p]
        /\ ~whole => \E p \in Pipes : captured[p] = Cap /\ written[p] > Cap

(* A process that has ended has a code, "killed" only when it was ended    *)
(* early; a pipe nobody reads has no writer and was read to its end; what  *)
(* was read is kept up to the cap, and a cut is marked.                    *)
CommandInv ==
    /\ CommandTypeOK
    /\ (code = "none") <=> process # "dead"
    /\ code = "killed" => commandEnd # "none"
    /\ commandPc \in {"start", "poll"} => commandEnd = "none"
    /\ commandPc = "start" => process = "none" /\ reading = {}
    /\ process # "none" => commandPc # "start"
    /\ process = "none" => ~holder
    /\ commandPc = "join" /\ commandEnd = "none" => process = "dead"
    /\ \A p \in Pipes \ reading : ~holder /\ process # "running" /\ read[p] = written[p]
    /\ \A p \in Pipes : read[p] <= written[p]
    /\ \A p \in Pipes : IF p \in overflow THEN kept[p] = Cap /\ read[p] > Cap
                                          ELSE kept[p] = read[p]
    /\ process = "none" => written = NoBytes
    /\ commandPc # "done" => whole /\ captured = NoBytes /\ exit = "none"
    /\ commandPc = "done" => reading \subseteq abandoned
    /\ ResultIsTold
=============================================================================
