------------------------------ MODULE GuestPrep ------------------------------
(***************************************************************************)
(* The preparation of one guest (controllers/guest_prep.go): a pass of     *)
(* handleGuestPrepping with the SSH or WinRM session it runs, the          *)
(* goroutine that dials, the script in the guest, and the patches that     *)
(* record the outcome.  Module Migration has the handler for several VMs   *)
(* and every session as success or failure.                                *)
(*                                                                         *)
(* Of time only the deadline of the session's context is kept.             *)
(***************************************************************************)
EXTENDS Integers

CONSTANTS
    Modes,     \* the guestPrepModes that are looked at
    MaxLost    \* bound: passes that are lost, by a crash or a failed patch

Pass == 0 .. MaxLost   \* every pass but the last is lost

ASSUME GuestPrepAssumption ==
    /\ Modes \subseteq {"ssh", "winrm"}
    /\ MaxLost \in Nat

VARIABLES
    mode,       \* spec.vms[i].guestPrepMode
    migration,  \* status.phase: GuestPrepping, the phase after it, or Failed
    recorded,   \* status.vms[i].phase
    pc,         \* the step of the pass
    result,     \* what the session returned
    expired,    \* the passes whose context is done
    dialer,     \* the goroutine of sshDialWithContext, of every pass
    chan,       \* its channel, with room for one result
    conn,       \* its SSH connection
    script,     \* the script this pass has started
    lost        \* passes that were lost: the number of the current one

vars == <<mode, migration, recorded, pc, result, expired, dialer, chan, conn, script, lost>>

session == <<expired, dialer, chan, conn, script>>
status  == <<mode, migration, recorded, lost>>

TypeOK ==
    /\ mode \in Modes
    /\ migration \in {"GuestPrepping", "next", "Failed"}
    /\ recorded \in {"Pending", "GuestPrepped", "GuestPrepFailed"}
    /\ pc \in {"start", "dial", "session", "winrm", "script", "record", "end"}
    /\ result \in {"none", "ok", "error"}
    /\ expired \subseteq Pass
    /\ dialer \in [Pass -> {"none", "dialing", "connected", "failed", "ended"}]
    /\ chan \in [Pass -> {"empty", "connected", "failed"}]
    /\ conn \in [Pass -> {"none", "open", "closed"}]
    /\ script \in {"none", "running", "ok", "failed"}
    /\ lost \in Pass

Init ==
    /\ mode \in Modes
    /\ migration = "GuestPrepping"
    /\ recorded = "Pending"
    /\ pc = "start"
    /\ result = "none"
    /\ expired = {}
    /\ dialer = [p \in Pass |-> "none"]
    /\ chan = [p \in Pass |-> "empty"]
    /\ conn = [p \in Pass |-> "none"]
    /\ script = "none"
    /\ lost = 0

-----------------------------------------------------------------------------
(***************************************************************************)
(* The session.                                                            *)
(***************************************************************************)

\* It returns r; a connection it has got is closed (defer).
Return(r) ==
    /\ pc' = "record"
    /\ result' = r
    /\ conn' = IF mode = "ssh" /\ pc \in {"session", "script"}
                 THEN [conn EXCEPT ![lost] = "closed"] ELSE conn

\* The Secret is missing or lacks a key, the private key cannot be parsed, the
\* port is not a number.
SecretError ==
    /\ pc = "start" /\ recorded = "Pending"
    /\ Return("error")
    /\ UNCHANGED <<status, expired, dialer, chan, script>>

\* The context gets its deadline, and sshDialWithContext starts a goroutine.
Begin ==
    /\ pc = "start" /\ recorded = "Pending"
    /\ script' = "none"
    /\ IF mode = "ssh" THEN pc' = "dial" /\ dialer' = [dialer EXCEPT ![lost] = "dialing"]
                       ELSE pc' = "winrm" /\ UNCHANGED dialer
    /\ UNCHANGED <<status, result, expired, chan, conn>>

\* ssh.Dial returns.
Dialed(p) ==
    /\ dialer[p] = "dialing"
    /\ \/ /\ dialer' = [dialer EXCEPT ![p] = "connected"]
          /\ conn' = [conn EXCEPT ![p] = "open"]
       \/ /\ dialer' = [dialer EXCEPT ![p] = "failed"]
          /\ UNCHANGED conn
    /\ UNCHANGED <<status, pc, result, expired, chan, script>>

\* Mutant: a channel without room for the result.
SendUnbuffered(p) ==
    /\ dialer[p] \in {"connected", "failed"}
    /\ pc = "dial" /\ p = lost
    /\ chan' = [chan EXCEPT ![p] = dialer[p]]
    /\ dialer' = [dialer EXCEPT ![p] = "ended"]
    /\ UNCHANGED <<status, pc, result, expired, conn, script>>

Send(p) ==
    /\ dialer[p] \in {"connected", "failed"}
    /\ chan' = [chan EXCEPT ![p] = dialer[p]]
    /\ dialer' = [dialer EXCEPT ![p] = "ended"]
    /\ UNCHANGED <<status, pc, result, expired, conn, script>>

\* The select of sshDialWithContext: a result, or the end of the context.
DialResult ==
    /\ pc = "dial" /\ chan[lost] # "empty"
    /\ chan' = [chan EXCEPT ![lost] = "empty"]
    /\ IF chan[lost] = "connected" THEN pc' = "session" /\ UNCHANGED <<result, conn>>
                                   ELSE Return("error")
    /\ UNCHANGED <<status, expired, dialer, script>>

DialExpired ==
    /\ pc = "dial" /\ lost \in expired
    /\ Return("error")
    /\ UNCHANGED <<status, expired, dialer, chan, script>>

\* NewSession and CombinedOutput, or RunPSWithContextWithString, start the script.
StartScript ==
    /\ pc \in {"session", "winrm"}
    /\ pc' = "script"
    /\ script' = "running"
    /\ UNCHANGED <<status, result, expired, dialer, chan, conn>>

\* Mutant: the connection is left open when there is no session.
SessionErrorOpen ==
    /\ pc \in {"session", "winrm"}
    /\ pc' = "record" /\ result' = "error"
    /\ UNCHANGED <<status, session>>

SessionError ==
    /\ pc \in {"session", "winrm"}
    /\ Return("error")
    /\ UNCHANGED <<status, expired, dialer, chan, script>>

\* Mutant: the exit code is not looked at.
ScriptReturnsAnyCode ==
    /\ pc = "script" /\ script # "running"
    /\ Return("ok")
    /\ UNCHANGED <<status, expired, dialer, chan, script>>

\* The script has ended: any exit code but 0 is an error.
ScriptReturns ==
    /\ pc = "script" /\ script # "running"
    /\ Return(IF script = "ok" THEN "ok" ELSE "error")
    /\ UNCHANGED <<status, expired, dialer, chan, script>>

\* The connection breaks; the script may go on.
ConnectionLost ==
    /\ pc = "script"
    /\ Return("error")
    /\ UNCHANGED <<status, expired, dialer, chan, script>>

\* Mutant: the context is not given to the WinRM library.
ScriptNeverExpires ==
    /\ pc = "script" /\ mode = "winrm" /\ lost \in expired /\ script # "running"
    /\ Return("error")
    /\ UNCHANGED <<status, expired, dialer, chan, script>>

\* The WinRM library stops waiting at the end of the context.
ScriptExpired ==
    /\ pc = "script" /\ mode = "winrm" /\ lost \in expired
    /\ Return("error")
    /\ UNCHANGED <<status, expired, dialer, chan, script>>

-----------------------------------------------------------------------------
(***************************************************************************)
(* What the handler records.                                               *)
(***************************************************************************)

\* One patch: the VM is GuestPrepped and the migration goes on.
RecordSuccess ==
    /\ pc = "record" /\ result = "ok"
    /\ recorded' = "GuestPrepped"
    /\ migration' = "next"
    /\ pc' = "end"
    /\ UNCHANGED <<mode, lost, result, session>>

\* Two patches: the status of the VM (an error is ignored), then Failed.
RecordFailure ==
    /\ pc = "record" /\ result = "error"
    /\ recorded' \in {recorded, "GuestPrepFailed"}
    /\ \/ migration' = "Failed" /\ pc' = "end" /\ UNCHANGED lost
       \/ /\ lost < MaxLost
          /\ lost' = lost + 1
          /\ pc' = "start"
          /\ UNCHANGED migration
    /\ UNCHANGED <<mode, result, session>>

\* A pass finds the failure an earlier one has recorded.
FailRecorded ==
    /\ pc = "start" /\ recorded = "GuestPrepFailed"
    /\ migration' = "Failed"
    /\ pc' = "end"
    /\ UNCHANGED <<mode, recorded, lost, result, session>>

\* The patch of a successful session fails: the next pass begins anew.
PatchLost ==
    /\ pc = "record" /\ result = "ok"
    /\ lost < MaxLost
    /\ lost' = lost + 1
    /\ pc' = "start"
    /\ UNCHANGED <<mode, migration, recorded, result, session>>

\* The operator crashes and is started again.
Crash ==
    /\ pc \notin {"start", "end"}
    /\ lost < MaxLost
    /\ lost' = lost + 1
    /\ pc' = "start"
    /\ conn' = [p \in Pass |-> IF conn[p] = "open" THEN "closed" ELSE conn[p]]
    /\ dialer' = [p \in Pass |-> "none"]
    /\ chan' = [p \in Pass |-> "empty"]
    /\ UNCHANGED <<mode, migration, recorded, result, expired, script>>

-----------------------------------------------------------------------------
\* The deadline passes, or the manager stops.
Deadline ==
    /\ pc \in {"dial", "session", "winrm", "script"}
    /\ lost \notin expired
    /\ expired' = expired \cup {lost}
    /\ UNCHANGED <<status, pc, result, dialer, chan, conn, script>>

ScriptEnds ==
    /\ script = "running"
    /\ script' \in {"ok", "failed"}
    /\ UNCHANGED <<status, pc, result, expired, dialer, chan, conn>>

Session ==
    \/ SecretError
    \/ Begin
    \/ DialResult
    \/ DialExpired
    \/ StartScript
    \/ SessionError
    \/ ScriptReturns
    \/ ScriptExpired

Record == RecordSuccess \/ RecordFailure \/ FailRecorded

Next ==
    \/ Session
    \/ Record
    \/ \E p \in Pass : Dialed(p) \/ Send(p)
    \/ ConnectionLost
    \/ PatchLost
    \/ Crash
    \/ Deadline
    \/ ScriptEnds

Spec == Init /\ [][Next]_vars

\* The pass, its goroutine and the clock go on.  The guest need not: a dial,
\* a script or a connection may hang.
FairSpec == Spec /\ WF_vars(Session \/ Record) /\ WF_vars(Deadline)
                 /\ \A p \in Pass : WF_vars(Send(p))

-----------------------------------------------------------------------------
(***************************************************************************)
(* Properties.                                                             *)
(***************************************************************************)

\* The migration goes on only after a script that ended with exit code 0, in
\* whatever order the deadline, the end of the script, the loss of the
\* connection and lost patches come (handleGuestPrepping: GuestPrepped).
SuccessIsReal == migration = "next" => recorded = "GuestPrepped" /\ script = "ok"

\* A pass leaves an SSH connection open only if its dial was still under way
\* at the deadline (conn.Close on every other path).
ConnectionClosed ==
    \A p \in Pass : conn[p] = "open" /\ (p # lost \/ pc = "end") => p \in expired

\* The goroutine that dials is never left waiting for somebody to take its
\* result (the channel of sshDialWithContext has room for one).
DialerEnds ==
    \A p \in Pass : dialer[p] \in {"connected", "failed"} ~> dialer[p] \in {"ended", "none"}

\* With WinRM a preparation ends, whatever the guest does.
WinRMReturns == mode = "winrm" => <>(pc = "end")

\* A preparation ends, whatever the guest does: the script has a timeout
\* ("SSH script timeout").
ScriptTimeout == <>(pc = "end")

=============================================================================
