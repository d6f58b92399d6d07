--------------------------- MODULE GuestPrepProofs ---------------------------
(***************************************************************************)
(* Proofs about GuestPrep, for any number of lost passes.                  *)
(***************************************************************************)
EXTENDS GuestPrep, TLAPS

(***************************************************************************)
(* The parts of the inductive invariant.                                   *)
(***************************************************************************)

\* A result "ok" that is about to be recorded is that of a script which has
\* ended well, and nothing starts it again once it is recorded.
ResultInv ==
    /\ pc = "record" /\ result = "ok" => script = "ok"
    /\ migration = "next" => pc = "end" /\ recorded = "GuestPrepped" /\ script = "ok"

\* The passes that have not begun have no deadline, goroutine or connection.
Fresh(p) == p > lost \/ (p = lost /\ pc = "start")

FreshInv ==
    \A p \in Pass : Fresh(p) => /\ p \notin expired
                                /\ dialer[p] = "none" /\ chan[p] = "empty" /\ conn[p] = "none"

\* What the goroutine of a pass has told the channel, and what it has opened.
DialerInv ==
    \A p \in Pass : /\ chan[p] # "empty" => dialer[p] = "ended"
                    /\ dialer[p] \in {"dialing", "failed"} => conn[p] # "open"
                    /\ chan[p] = "failed" => conn[p] # "open"

\* Before the deadline of a pass its goroutine dials, and its connection is
\* open, only while the pass is there to close the connection.
OwnerInv ==
    /\ pc \in {"dial", "session"} => mode = "ssh"
    /\ \A p \in Pass : p \notin expired =>
          /\ dialer[p] = "dialing" => p = lost /\ pc = "dial"
          /\ conn[p] = "open" => p = lost /\ mode = "ssh" /\ pc \in {"dial", "session", "script"}

Inv == TypeOK /\ ResultInv /\ FreshInv /\ DialerInv /\ OwnerInv

LEMMA PassFacts ==
  /\ Pass \subseteq Nat /\ 0 \in Pass
  /\ \A p \in Pass : p < MaxLost => p + 1 \in Pass
  BY GuestPrepAssumption DEF Pass

LEMMA InvInit == Init => Inv
  <1> SUFFICES ASSUME Init PROVE Inv
    OBVIOUS
  <1>1. TypeOK
    BY PassFacts DEF Init, TypeOK
  <1>2. ResultInv /\ FreshInv /\ DialerInv /\ OwnerInv
    BY DEF Init, ResultInv, FreshInv, DialerInv, OwnerInv
  <1> QED
    BY <1>1, <1>2 DEF Inv

LEMMA TypeStep ==
  ASSUME TypeOK, [Next]_vars
  PROVE  TypeOK'
  <1> USE PassFacts DEF TypeOK
  <1>1. CASE Session
    BY <1>1 DEF Session, SecretError, Begin, DialResult, DialExpired, StartScript,
                SessionError, ScriptReturns, ScriptExpired, Return, status
  <1>2. CASE Record
    BY <1>2 DEF Record, RecordSuccess, RecordFailure, FailRecorded, session
  <1>3. ASSUME NEW p \in Pass, Dialed(p) \/ Send(p) PROVE TypeOK'
    <2>1. CASE Dialed(p)
      BY <2>1 DEF Dialed, status
    <2>2. CASE Send(p)
      BY <2>2 DEF Send, status
    <2> QED
      BY <1>3, <2>1, <2>2
  <1>4. CASE ConnectionLost \/ PatchLost \/ Crash
    <2>1. CASE ConnectionLost \/ PatchLost
      BY <2>1 DEF ConnectionLost, PatchLost, Return, status, session
    <2>2. CASE Crash
      BY <2>2 DEF Crash
    <2> QED
      BY <1>4, <2>1, <2>2
  <1>5. CASE Deadline \/ ScriptEnds
    BY <1>5 DEF Deadline, ScriptEnds, status
  <1>6. CASE UNCHANGED vars
    BY <1>6 DEF vars
  <1> QED
    BY <1>1, <1>2, <1>3, <1>4, <1>5, <1>6 DEF Next

LEMMA InvStep ==
  ASSUME Inv, [Next]_vars
  PROVE  Inv'
  <1> USE PassFacts DEF Inv
  <1>0. TypeOK'
    BY TypeStep
  <1>1. CASE Session
    <2>1. ResultInv'
      BY <1>1 DEF ResultInv, TypeOK, Session, SecretError, Begin, DialResult, DialExpired,
                  StartScript, SessionError, ScriptReturns, ScriptExpired, Return, status
    <2>2. FreshInv'
      BY <1>1 DEF FreshInv, Fresh, TypeOK, Session, SecretError, Begin, DialResult, DialExpired,
                  StartScript, SessionError, ScriptReturns, ScriptExpired, Return, status
    <2>3. DialerInv'
      BY <1>1 DEF DialerInv, FreshInv, Fresh, TypeOK, Session, SecretError, Begin, DialResult,
                  DialExpired, StartScript, SessionError, ScriptReturns, ScriptExpired, Return,
                  status
    <2>4. OwnerInv'
      <3> USE DEF OwnerInv, TypeOK, Return, status
      <3>1. CASE SecretError \/ Begin
        BY <1>1, <3>1 DEF SecretError, Begin, FreshInv, Fresh
      <3>2. CASE DialResult \/ DialExpired
        BY <1>1, <3>2 DEF DialResult, DialExpired, DialerInv
      <3>3. CASE StartScript \/ SessionError \/ ScriptReturns \/ ScriptExpired
        BY <1>1, <3>3 DEF StartScript, SessionError, ScriptReturns, ScriptExpired
      <3> QED
        BY <1>1, <3>1, <3>2, <3>3 DEF Session
    <2> QED
      BY <1>0, <2>1, <2>2, <2>3, <2>4
  <1>2. CASE Record
    <2> USE DEF Record, RecordSuccess, RecordFailure, FailRecorded, session, TypeOK
    <2>1. ResultInv'
      BY <1>2 DEF ResultInv
    <2>2. FreshInv' /\ DialerInv'
      BY <1>2 DEF FreshInv, Fresh, DialerInv
    <2>3. OwnerInv'
      BY <1>2 DEF OwnerInv
    <2> QED
      BY <1>0, <2>1, <2>2, <2>3
  <1>3. ASSUME NEW p \in Pass, Dialed(p) \/ Send(p) PROVE Inv'
    <2> USE <1>3 DEF Dialed, Send, status, TypeOK
    <2>1. ResultInv'
      BY DEF ResultInv
    <2>2. FreshInv' /\ DialerInv'
      BY DEF FreshInv, Fresh, DialerInv
    <2>3. OwnerInv'
      BY DEF OwnerInv
    <2> QED
      BY <1>0, <2>1, <2>2, <2>3
  <1>4. CASE ConnectionLost \/ PatchLost
    <2> USE <1>4 DEF ConnectionLost, PatchLost, Return, status, session, TypeOK
    <2>1. ResultInv'
      BY DEF ResultInv
    <2>2. FreshInv' /\ DialerInv'
      BY DEF FreshInv, Fresh, DialerInv
    <2>3. OwnerInv'
      BY DEF OwnerInv
    <2> QED
      BY <1>0, <2>1, <2>2, <2>3
  <1>5. CASE Crash
    <2> USE <1>5 DEF Crash, TypeOK
    <2>1. ResultInv'
      BY DEF ResultInv
    <2>2. FreshInv' /\ DialerInv'
      BY DEF FreshInv, Fresh, DialerInv
    <2>3. OwnerInv'
      BY DEF OwnerInv
    <2> QED
      BY <1>0, <2>1, <2>2, <2>3
  <1>6. CASE Deadline \/ ScriptEnds
    <2> USE <1>6 DEF Deadline, ScriptEnds, status, TypeOK
    <2>1. ResultInv'
      BY DEF ResultInv
    <2>2. FreshInv' /\ DialerInv'
      BY DEF FreshInv, Fresh, DialerInv
    <2>3. OwnerInv'
      BY DEF OwnerInv
    <2> QED
      BY <1>0, <2>1, <2>2, <2>3
  <1>7. CASE UNCHANGED vars
    BY <1>7 DEF vars, TypeOK, ResultInv, FreshInv, Fresh, DialerInv, OwnerInv
  <1> QED
    BY <1>1, <1>2, <1>3, <1>4, <1>5, <1>6, <1>7 DEF Next

LEMMA InvHolds == Spec => []Inv
  BY InvInit, InvStep, PTL DEF Spec

\* A migration goes on only after a preparation script that ended with exit
\* code 0, however many passes crash or lose their patch (handleGuestPrepping).
THEOREM PreparationIsReal == Spec => []SuccessIsReal
  <1>1. Inv => SuccessIsReal
    BY DEF Inv, ResultInv, SuccessIsReal
  <1> QED
    BY <1>1, InvHolds, PTL

\* No pass leaves an SSH connection open, unless its dial was still under way
\* at the deadline (sshDialWithContext, and conn.Close in the callers).
THEOREM ConnectionsAreClosed == Spec => []ConnectionClosed
  <1>1. Inv => ConnectionClosed
    BY DEF Inv, OwnerInv, ConnectionClosed
  <1> QED
    BY <1>1, InvHolds, PTL

=============================================================================
