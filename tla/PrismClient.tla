---------------------------- MODULE PrismClient ----------------------------
(***************************************************************************)
(* The calls of controllers/prism_client.go that take several requests:    *)
(* CreateVMSnapshot, CreateImageFromDisk with waitTaskAndGetImageUUID, and *)
(* WaitImageReady poll an object that Prism works on; ShutdownVM has three *)
(* ways to ask for a shutdown.  One behaviour is one call; Prism, other    *)
(* users of it and time go on between its requests.                        *)
(*                                                                         *)
(* Time is counted in pauses of 10 seconds.                                *)
(***************************************************************************)
EXTENDS Integers

CONSTANTS
    Calls,         \* the calls that are looked at
    MaxAttempts,   \* 60
    MaxTime        \* bound: time is not counted any further

ASSUME PrismClientAssumption ==
    /\ Calls \subseteq {"CreateVMSnapshot", "CreateImageFromDisk", "WaitImageReady", "ShutdownVM"}
    /\ MaxAttempts \in Nat \ {0}
    /\ MaxTime \in Nat /\ MaxTime >= MaxAttempts

VARIABLES
    call,      \* the call
    pc,        \* the request it is at
    attempt,   \* attempts made
    rested,    \* 10 seconds have passed since the last attempt
    result,    \* "none" until it returns
    object,    \* the snapshot or image in Prism
    power,     \* the VM: running, shutting down, or off
    clock      \* time since the call began

vars == <<call, pc, attempt, rested, result, object, power, clock>>

TypeOK ==
    /\ call \in Calls
    /\ pc \in {"post", "poll", "pause", "state", "pe", "get", "put", "v2", "done"}
    /\ attempt \in 0 .. MaxAttempts
    /\ rested \in BOOLEAN
    /\ result \in {"none", "ok", "error", "gave_up"}
    /\ object \in {"none", "running", "complete", "error"}
    /\ power \in {"ON", "STOPPING", "OFF"}
    /\ clock \in 0 .. MaxTime

Init ==
    /\ call \in Calls
    /\ pc = CASE call = "WaitImageReady" -> "poll"
              [] call = "ShutdownVM" -> "state"
              [] OTHER -> "post"
    /\ attempt = 0
    /\ rested = FALSE
    /\ result = "none"
    /\ object = IF call = "WaitImageReady" THEN "running" ELSE "none"
    /\ power \in {"ON", "OFF"}
    /\ clock = 0

Return(r) ==
    /\ pc' = "done"
    /\ result' = r

-----------------------------------------------------------------------------
(***************************************************************************)
(* Polling.                                                                *)
(***************************************************************************)

\* The snapshot or image is requested.
Post ==
    /\ pc = "post"
    /\ object' = "running"
    /\ pc' = "poll"
    /\ UNCHANGED <<call, attempt, rested, result, power, clock>>

\* The request fails, or its answer does not arrive.
PostError ==
    /\ pc = "post"
    /\ object' \in {"none", "running"}
    /\ Return("error")
    /\ UNCHANGED <<call, attempt, rested, power, clock>>

\* Mutant: an object that is still being worked on will do.
PollEndsEarly ==
    /\ pc = "poll" /\ attempt < MaxAttempts
    /\ Return(IF object = "error" THEN "error" ELSE "ok")
    /\ UNCHANGED <<call, attempt, rested, object, power, clock>>

PollEnds ==
    /\ pc = "poll" /\ attempt < MaxAttempts
    /\ object # "running"
    /\ Return(IF object = "complete" THEN "ok" ELSE "error")
    /\ UNCHANGED <<call, attempt, rested, object, power, clock>>

PollError ==
    /\ pc = "poll" /\ attempt < MaxAttempts
    /\ Return("error")
    /\ UNCHANGED <<call, attempt, rested, object, power, clock>>

\* Mutant: the attempts are not counted.
PollAgainUncounted ==
    /\ pc = "poll" /\ attempt < MaxAttempts
    /\ object = "running"
    /\ pc' = IF call = "CreateVMSnapshot" THEN "pause" ELSE "poll"
    /\ rested' = FALSE
    /\ UNCHANGED <<call, attempt, result, object, power, clock>>

\* Still running: only CreateVMSnapshot pauses before the next attempt.
PollAgain ==
    /\ pc = "poll" /\ attempt < MaxAttempts
    /\ object = "running"
    /\ attempt' = attempt + 1
    /\ pc' = IF call = "CreateVMSnapshot" THEN "pause" ELSE "poll"
    /\ rested' = FALSE
    /\ UNCHANGED <<call, result, object, power, clock>>

PauseEnds ==
    /\ pc = "pause" /\ rested
    /\ pc' = "poll"
    /\ UNCHANGED <<call, attempt, rested, result, object, power, clock>>

\* The operator is stopped: the context of the pass is cancelled.
Cancel ==
    /\ pc = "pause"
    /\ Return("error")
    /\ UNCHANGED <<call, attempt, rested, object, power, clock>>

GiveUp ==
    /\ pc = "poll" /\ attempt = MaxAttempts
    /\ Return("gave_up")
    /\ UNCHANGED <<call, attempt, rested, object, power, clock>>

-----------------------------------------------------------------------------
(***************************************************************************)
(* ShutdownVM.                                                             *)
(***************************************************************************)

\* A VM that is shutting down still reports ON.  source.peEndpoint may be set.
GetVMPowerState ==
    /\ pc = "state"
    /\ IF power = "OFF" THEN Return("ok")
                        ELSE pc' \in {"pe", "get"} /\ UNCHANGED result
    /\ UNCHANGED <<call, attempt, rested, object, power, clock>>

\* The intent document of the VM is read, to be put back with power_state OFF.
GetIntent ==
    /\ pc = "get"
    /\ pc' = "put"
    /\ UNCHANGED <<call, attempt, rested, result, object, power, clock>>

ShutdownRequested == power' = IF power = "ON" THEN "STOPPING" ELSE power

\* ACPI_SHUTDOWN with set_power_state, or the PUT, is accepted.
SetPowerState ==
    /\ pc \in {"pe", "put", "v2"}
    /\ ShutdownRequested
    /\ Return("ok")
    /\ UNCHANGED <<call, attempt, rested, object, clock>>

\* The PUT is not supported (HTTP 405): set_power_state is tried instead.
PutNotSupported ==
    /\ pc = "put"
    /\ pc' = "v2"
    /\ UNCHANGED <<call, attempt, rested, result, object, power, clock>>

\* A request fails, or was accepted and its answer does not arrive.
ShutdownError ==
    /\ pc \in {"state", "pe", "get", "put", "v2"}
    /\ IF pc \in {"pe", "put", "v2"} THEN ShutdownRequested \/ UNCHANGED power
                                     ELSE UNCHANGED power
    /\ Return("error")
    /\ UNCHANGED <<call, attempt, rested, object, clock>>

-----------------------------------------------------------------------------
(***************************************************************************)
(* Prism and time.                                                         *)
(***************************************************************************)

ObjectEnds ==
    /\ object = "running"
    /\ object' \in {"complete", "error"}
    /\ UNCHANGED <<call, pc, attempt, rested, result, power, clock>>

PowerOff ==
    /\ power = "STOPPING"
    /\ power' = "OFF"
    /\ UNCHANGED <<call, pc, attempt, rested, result, object, clock>>

Tick ==
    /\ clock' = IF clock < MaxTime THEN clock + 1 ELSE clock
    /\ rested' = TRUE
    /\ UNCHANGED <<call, pc, attempt, result, object, power>>

Poll == Post \/ PostError \/ PollEnds \/ PollError \/ PollAgain \/ PauseEnds \/ GiveUp

ShutdownVM == GetVMPowerState \/ GetIntent \/ SetPowerState \/ PutNotSupported \/ ShutdownError

Next == Poll \/ ShutdownVM \/ Cancel \/ ObjectEnds \/ PowerOff \/ Tick

Spec == Init /\ [][Next]_vars

\* The steps that take an answer to a request.  The http.Client has no Timeout and
\* the context of a pass no deadline: an answer may never come.
Answered ==
    \/ Post \/ PostError \/ PollEnds \/ PollError \/ PollAgain
    \/ ShutdownVM

\* Time passes, and the client does what it does without Prism.
FairSpec == Spec /\ WF_vars(PauseEnds \/ GiveUp) /\ WF_vars(Tick)

-----------------------------------------------------------------------------
(***************************************************************************)
(* Properties.                                                             *)
(***************************************************************************)

\* A call gives up on an object only after it has waited 10 seconds for it
\* MaxAttempts times ("COMPLETE: 10 seconds x 60").
GivesUpLate == result = "gave_up" => clock >= MaxAttempts

\* What a call reports as done is done, whatever happens between its requests:
\* the object is complete, or the VM is off or was told to shut down.
SuccessIsReal ==
    result = "ok" => IF call = "ShutdownVM" THEN power # "ON" ELSE object = "complete"

\* Every call returns if its requests are answered, even if Prism never finishes
\* the work they ask about: the attempts are counted.
ReturnsIfAnswered == WF_vars(Answered) => <>(pc = "done")

\* Every call returns, whether its requests are answered or not.
Returns == <>(pc = "done")

=============================================================================
