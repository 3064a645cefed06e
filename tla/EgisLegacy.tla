----------------------------- MODULE EgisLegacy -----------------------------
(***************************************************************************)
(* The legacy Egistec HAL (src/fingerprint/egistec/legacy): the binder     *)
(* calls of BiometricsFingerprint.cpp, which forward to                    *)
(* EgisOperationLoops, and the capture loops EnrollAsync and               *)
(* AuthenticateAsync on the coordinator of Worker.tla.                     *)
(*                                                                         *)
(* Two mutexes couple the binder thread and the worker.  mBufferMutex      *)
(* (QSEETrustlet, taken by GetLockedAPI) guards the trustlet's shared     *)
(* buffer: a capture loop takes it when it starts and keeps it until it    *)
(* returns, and every binder call that talks to the trustlet takes it for  *)
(* one section.  mClientCallbackMutex is taken by every Notify* and by     *)
(* SetNotify for one call, and by Enumerate for its whole body.            *)
(*                                                                         *)
(* A worker step is one pass of a phase's do-while: the cancel check, one *)
(* trustlet command and the handling of its rc and next step.  The         *)
(* notifications a pass sends are queued in `notes` and sent one by one,   *)
(* each under mClientCallbackMutex, so the binder can take the mutex in    *)
(* between.  A binder section that needs no lock the worker can hold is    *)
(* one step.                                                               *)
(***************************************************************************)
EXTENDS Integers, Sequences

CONSTANTS
    Binder,          \* the binder thread, the coordinator's one caller
    NoRequest,       \* model value: no pending coordinator request
    NoCaller,        \* model value: nobody holds mEventWriterMutex
    EnrollTimeouts,  \* timeoutSec values enroll stores in mEnrollTimeout
    MaxFaults        \* bound on failing trustlet and epoll calls

ASSUME MaxFaults \in Nat

VARIABLES
    current, desired, wpc, cpc, writer, accepted,  \* the coordinator
    bpc,             \* the binder thread: [op |-> call, at |-> position]
    mClientCallback, \* a client callback is registered
    cbHeld,          \* the binder holds mClientCallbackMutex (enumerate)
    bufHeld,         \* the worker holds mBufferMutex (a capture loop)
    mEnrollTimeout,  \* the timeout of the last accepted enroll
    ls,              \* where the running handler is
    notes,           \* notifications it is about to send, in order
    authenticated,   \* AuthenticateAsync's `authenticated`
    finished,        \* EnrollAsync's `finished`
    rcOk,            \* rc of the last main step was 0
    irq,             \* the sensor fd is readable: a finger touched
    faults,          \* failing calls so far
    sessCb,          \* ghost: a callback was registered when the loop started
    terminals        \* ghost: terminal notifications the loop sent

workerVars == <<current, desired, wpc, cpc, writer, accepted>>
loopVars == <<ls, notes, authenticated, finished, rcOk>>
vars == <<workerVars, bpc, mClientCallback, cbHeld, bufHeld, mEnrollTimeout,
          loopVars, irq, faults, sessCb, terminals>>

W == INSTANCE Worker WITH Callers <- {Binder}

NoCall == [op |-> "none", at |-> "none"]

Ops == {"Enroll", "Authenticate"}

(* The notifications a loop sends; "progress" is an onEnrollResult with   *)
(* steps remaining, "noMatch" the onAuthenticated with fid 0.             *)
Terminal == {"error", "canceled", "timeout", "enrolled", "authenticated"}

(* A trustlet command or epoll_wait fails. *)
Fails == faults < MaxFaults /\ faults' = faults + 1

(* waitForEvent(timeoutSec): epoll_wait's timeout 1000 * timeoutSec in 32 *)
(* bits, computed in 16-bit halves; a negative one waits forever.        *)
EpollWaitsForever(timeoutSec) ==
    IF timeoutSec < 0 THEN TRUE
    ELSE LET lo == 1000 * (timeoutSec % 65536)
             hi == (1000 * (timeoutSec \div 65536) + lo \div 65536) % 65536
         IN hi >= 32768

(* EventMultiplexer::waitForEvent: the eventfd before the finger, Timeout  *)
(* when nothing is ready in time, and a failed epoll_wait read as Timeout. *)
Wakeups(timeoutSec) ==
    (IF W!EventAvailable THEN {"Event"} ELSE IF irq THEN {"Finger"} ELSE {})
    \cup (IF ~irq /\ ~W!EventAvailable /\ ~EpollWaitsForever(timeoutSec)
            THEN {"Timeout"} ELSE {})
    \cup (IF faults < MaxFaults THEN {"Failed"} ELSE {})

-----------------------------------------------------------------------------
(* The binder thread *)

BinderIdle == bpc = NoCall /\ wpc # "init"

BinderFrame == UNCHANGED <<bufHeld, loopVars, irq, sessCb, terminals>>

(* A call that talks to the trustlet: it has to take mBufferMutex. *)
BufferCall(op) ==
    /\ BinderIdle
    /\ bpc' = [op |-> op, at |-> "buffer"]
    /\ UNCHANGED <<workerVars, mClientCallback, cbHeld, mEnrollTimeout, faults>>
    /\ BinderFrame

(* The binder got mBufferMutex for op's section. *)
Locked(op, at) == bpc = [op |-> op, at |-> at] /\ ~bufHeld

(* The section ends the call. *)
SectionDone(op) ==
    /\ Locked(op, "buffer")
    /\ bpc' = NoCall
    /\ UNCHANGED <<workerVars, mClientCallback, cbHeld, mEnrollTimeout, faults>>
    /\ BinderFrame

(* setNotify: store the callback under mClientCallbackMutex. *)
SetNotify ==
    /\ BinderIdle
    /\ mClientCallback' = TRUE
    /\ UNCHANGED <<workerVars, bpc, cbHeld, mEnrollTimeout, faults>>
    /\ BinderFrame

(* preEnroll: GetChallenge, a locked GetRand64-style extra command. *)
PreEnroll == BufferCall("preEnroll")
PreEnrollDone == SectionDone("preEnroll")

(* postEnroll: ClearChallenge. *)
PostEnroll == BufferCall("postEnroll")
PostEnrollDone == SectionDone("postEnroll")

(* setActiveGroup: mGid, then SetUserDataPath under the buffer. *)
SetActiveGroup == BufferCall("setActiveGroup")
SetActiveGroupDone == SectionDone("setActiveGroup")

(* enroll -> EgisOperationLoops::Enroll: under the buffer, SetAuthToken,   *)
(* SetSecureUserId, the store of mEnrollTimeout, CheckAuthToken and       *)
(* moveToState(Enroll) still holding it; a failing command notifies        *)
(* ERROR_UNABLE_TO_PROCESS from the binder thread, and one failing after   *)
(* SetSecureUserId has already stored the new timeout.                     *)
Enroll == BufferCall("enroll")

EnrollLocked ==
    /\ Locked("enroll", "buffer")
    /\ bpc' = NoCall
    /\ \/ /\ Fails
          /\ mEnrollTimeout' \in {mEnrollTimeout} \cup EnrollTimeouts
          /\ UNCHANGED workerVars
       \/ /\ W!MoveToState(Binder, "Enroll")
          /\ mEnrollTimeout' \in EnrollTimeouts
          /\ UNCHANGED faults
    /\ UNCHANGED <<mClientCallback, cbHeld>>
    /\ BinderFrame

(* authenticate -> EgisOperationLoops::Authenticate: SetAuthToken under    *)
(* the buffer, then moveToState(Authenticate).                             *)
Authenticate == BufferCall("authenticate")

AuthenticateLocked ==
    /\ Locked("authenticate", "buffer")
    /\ bpc' = NoCall
    /\ \/ Fails /\ UNCHANGED workerVars
       \/ W!MoveToState(Binder, "Authenticate") /\ UNCHANGED faults
    /\ UNCHANGED <<mClientCallback, cbHeld, mEnrollTimeout>>
    /\ BinderFrame

(* cancel: moveToState(Idle); the loop handles it. *)
Cancel ==
    /\ BinderIdle
    /\ W!MoveToState(Binder, "Idle")
    /\ UNCHANGED <<bpc, mClientCallback, cbHeld, mEnrollTimeout, faults>>
    /\ BinderFrame

(* enumerate: lock mClientCallbackMutex, then GetFingerList takes the      *)
(* buffer.  (It calls mClientCallback without a null check: the framework  *)
(* has registered one.)                                                    *)
EnumerateLock ==
    /\ BinderIdle
    /\ mClientCallback
    /\ cbHeld' = TRUE
    /\ bpc' = [op |-> "enumerate", at |-> "buffer"]
    /\ UNCHANGED <<workerVars, mClientCallback, mEnrollTimeout, faults>>
    /\ BinderFrame

(* GetFingerList, then one onEnumerate per print; the mutex is released.   *)
EnumerateLocked ==
    /\ Locked("enumerate", "buffer")
    /\ cbHeld' = FALSE
    /\ bpc' = NoCall
    /\ UNCHANGED <<workerVars, mClientCallback, mEnrollTimeout, faults>>
    /\ BinderFrame

(* remove -> RemoveFinger: the removal (GetFingerList and one RemoveFinger *)
(* per print for fid 0) with onRemoved, then a new authenticator id from   *)
(* GetRand64, each under the buffer, and ERROR_UNABLE_TO_REMOVE on failure. *)
Remove == BufferCall("remove")

RemoveLocked ==
    /\ Locked("remove", "buffer")
    /\ bpc' = [op |-> "remove", at |-> "authid"]
    /\ UNCHANGED <<workerVars, mClientCallback, cbHeld, mEnrollTimeout, faults>>
    /\ BinderFrame

RemoveAuthId ==
    /\ Locked("remove", "authid")
    /\ bpc' = NoCall
    /\ UNCHANGED <<workerVars, mClientCallback, cbHeld, mEnrollTimeout, faults>>
    /\ BinderFrame

(* The sensor raises its interrupt: a finger touches. *)
FingerEvent ==
    /\ ~irq
    /\ irq' = TRUE
    /\ UNCHANGED <<workerVars, bpc, mClientCallback, cbHeld, bufHeld,
                   mEnrollTimeout, loopVars, faults, sessCb, terminals>>

-----------------------------------------------------------------------------
(* The worker thread *)

BinderVars == <<bpc, mClientCallback, cbHeld, mEnrollTimeout>>

(* The constructor: mWt.Start(); Prepare and SetMasterKey follow, fatal on *)
(* failure.                                                                *)
Start ==
    /\ W!Start
    /\ UNCHANGED <<BinderVars, bufHeld, loopVars, irq, faults, sessCb,
                   terminals>>

(* RunThread: consume the request and call its handler.  EnrollAsync and *)
(* AuthenticateAsync enable the device, then wait for mBufferMutex.  Idle *)
(* runs the default IdleAsync.                                             *)
Dispatch ==
    /\ W!Consume
    /\ ls' = CASE desired \in Ops -> "lock"
               [] desired = "Idle" -> "idle"
               [] OTHER -> "none"
    /\ notes' = <<>>
    /\ authenticated' = FALSE /\ finished' = FALSE /\ rcOk' = FALSE
    /\ sessCb' = mClientCallback
    /\ terminals' = 0
    /\ UNCHANGED <<BinderVars, bufHeld, irq, faults>>

(* GetLockedAPI(): the loop takes mBufferMutex (a binder section holds it *)
(* only within its own step) and keeps it until it returns.               *)
TakeBuffer ==
    /\ wpc = "run" /\ ls = "lock"
    /\ bufHeld' = TRUE
    /\ ls' = "init"
    /\ UNCHANGED <<workerVars, BinderVars, notes, authenticated, finished,
                   rcOk, irq, faults, sessCb, terminals>>

(* RunThread: no request within its wait while Idle: IdleAsync again. *)
IdleAgain ==
    /\ W!IdleTimeout
    /\ ls' = "idle"
    /\ UNCHANGED <<BinderVars, bufHeld, notes, authenticated, finished, rcOk,
                   irq, faults, sessCb, terminals>>

(* WorkHandler::IdleAsync, which the legacy loops do not override. *)
IdleReturn ==
    /\ wpc = "run" /\ ls = "idle"
    /\ W!HandlerReturn
    /\ ls' = "none"
    /\ UNCHANGED <<BinderVars, bufHeld, notes, authenticated, finished, rcOk,
                   irq, faults, sessCb, terminals>>

(* NotifyError, NotifyAcquired, NotifyAuthenticated, NotifyEnrollResult:   *)
(* lock mClientCallbackMutex and call the callback when one is set.        *)
Notify ==
    /\ wpc = "run" /\ notes # <<>>
    /\ ~cbHeld
    /\ notes' = Tail(notes)
    /\ terminals' = terminals + (IF mClientCallback /\ Head(notes) \in Terminal
                                   THEN 1 ELSE 0)
    /\ UNCHANGED <<workerVars, BinderVars, bufHeld, ls, authenticated,
                   finished, rcOk, irq, faults, sessCb>>

(* The handler returns, unlocking the buffer and disabling the device. *)
Return ==
    /\ wpc = "run" /\ ls = "ret" /\ notes = <<>>
    /\ W!HandlerReturn
    /\ ls' = "none"
    /\ bufHeld' = FALSE
    /\ UNCHANGED <<BinderVars, notes, authenticated, finished, rcOk, irq,
                   faults, sessCb, terminals>>

Running(state, l) == current = state /\ wpc = "run" /\ ls = l /\ notes = <<>>

LoopFrame == UNCHANGED <<workerVars, BinderVars, bufHeld, sessCb, terminals>>

(* Mutation: RunCancel notifies only when the trustlet took the cancel. *)
RunCancelSilent == <<>>

(* RunCancel: SendCancel until the trustlet is Done or fails, and always   *)
(* ERROR_CANCELED, "to prevent deadlocks".                                 *)
RunCancel == <<"canceled">>

(* CheckAndHandleCancel at the top of every pass: RunCancel and return. *)
CancelRequested == W!EventAvailable

CancelExit ==
    /\ CancelRequested
    /\ ls' = "ret" /\ notes' = RunCancel
    /\ UNCHANGED <<authenticated, finished, rcOk, irq, faults>>

(* ConvertAndCheckError: an rc other than 0, 0x20, 0x27 and 0x29 is        *)
(* converted and notified, then RunCancel, and the loop returns.           *)
ErrorExit ==
    /\ Fails
    /\ ls' = "ret" /\ notes' = <<"error">> \o RunCancel
    /\ UNCHANGED <<authenticated, finished, rcOk, irq>>

(* A pass of a setup do-while (SendInitEnroll, SendFinalizeEnroll,         *)
(* SendFinalizeAuthenticate): ProcessOpcode, and on to next once the       *)
(* trustlet's step is Done.                                                *)
SetupPass(next) ==
    \/ CancelExit
    \/ /\ ~CancelRequested
       /\ \/ ErrorExit
          \/ /\ \E done \in BOOLEAN : ls' = IF done THEN next ELSE ls
             /\ UNCHANGED <<notes, authenticated, finished, rcOk, irq, faults>>

(* The step a successful main command leaves in cmdOut. *)
Steps == {"Done", "WaitFingerprint", "FingerAcquired", "Other"}

(* The notifications of a main pass with result r and step s: a bad image *)
(* (0x27) through NotifyBadImage, a 0x20 as onAuthenticated(0), and        *)
(* HandleMainStep's ACQUIRED_GOOD.                                         *)
MainNotes(r, s) ==
    (CASE r = "badImage" -> <<"acquired">>
       [] r = "noMatch"  -> <<"noMatch">>
       [] OTHER          -> <<>>)
    \o (IF r = "ok" /\ s = "FingerAcquired" THEN <<"acquired">> ELSE <<>>)

(* Where a main pass goes: HandleMainStep waits for the finger on          *)
(* WaitFingerprint; the do-while ends once the step is Done.               *)
MainNext(r, s, done) ==
    CASE s = "Done" -> done
      [] r = "ok" /\ s = "WaitFingerprint" -> "finger"
      [] OTHER -> "main"

(* HandleMainStep's waitForEvent: Event and Finger continue the do-while   *)
(* (the cancel is seen at its top); Timeout, or a failing epoll_wait, is  *)
(* ERROR_TIMEOUT after RunCancel.                                          *)
FingerWait(timeoutSec) ==
    /\ \E w \in Wakeups(timeoutSec) :
          /\ faults' = IF w = "Failed" THEN faults + 1 ELSE faults
          /\ irq' = (irq /\ w # "Finger")
          /\ IF w \in {"Event", "Finger"}
               THEN ls' = "main" /\ UNCHANGED notes
               ELSE ls' = "ret" /\ notes' = RunCancel \o <<"timeout">>
    /\ UNCHANGED <<authenticated, finished, rcOk>>
    /\ LoopFrame

-----------------------------------------------------------------------------
(* EnrollAsync *)

(* The SendInitEnroll do-while. *)
EnrollInit ==
    /\ Running("Enroll", "init")
    /\ SetupPass("main")
    /\ LoopFrame

(* The SendEnroll do-while: 0x29 is only logged.  When the step is Done,   *)
(* an enroll_status of 0x64 finishes the enrollment, and rc == 0 sends     *)
(* onEnrollResult with the steps remaining.  The trustlet is taken to      *)
(* report 0x64 only for an accepted image (rc == 0).                       *)
EnrollMain ==
    /\ Running("Enroll", "main")
    /\ \/ CancelExit
       \/ /\ ~CancelRequested
          /\ \/ ErrorExit
             \/ \E r \in {"ok", "badImage", "failed29"}, s \in Steps,
                   fin \in BOOLEAN :
                   /\ fin => (r = "ok" /\ s = "Done")
                   /\ ls' = MainNext(r, s, "final")
                   /\ finished' = fin
                   /\ rcOk' = (r = "ok")
                   /\ notes' = MainNotes(r, s)
                               \o (IF r = "ok" /\ s = "Done"
                                     THEN <<IF fin THEN "enrolled"
                                                   ELSE "progress">>
                                     ELSE <<>>)
                   /\ UNCHANGED <<authenticated, irq, faults>>
    /\ LoopFrame

(* HandleMainStep(cmdOut, mEnrollTimeout) on WaitFingerprint. *)
EnrollFinger ==
    /\ Running("Enroll", "finger")
    /\ FingerWait(mEnrollTimeout)

(* The SendFinalizeEnroll do-while; the for loop runs again from          *)
(* SendInitEnroll until finished.                                          *)
EnrollFinalize ==
    /\ Running("Enroll", "final")
    /\ SetupPass(IF finished THEN "authid" ELSE "init")
    /\ LoopFrame

(* mAuthenticatorId = GetRand64(lockedBuffer), and return. *)
EnrollAuthId ==
    /\ Running("Enroll", "authid")
    /\ ls' = "ret"
    /\ UNCHANGED <<notes, authenticated, finished, rcOk, irq, faults>>
    /\ LoopFrame

-----------------------------------------------------------------------------
(* AuthenticateAsync *)

(* The SendInitAuthenticate do-while: 0x33 (no prints) notifies           *)
(* ERROR_UNABLE_TO_PROCESS and returns.                                    *)
AuthInit ==
    /\ Running("Authenticate", "init")
    /\ \/ SetupPass("main")
       \/ /\ ~CancelRequested
          /\ ls' = "ret" /\ notes' = <<"error">>
          /\ UNCHANGED <<authenticated, finished, rcOk, irq, faults>>
    /\ LoopFrame

(* The SendAuthenticate do-while: 0x20 is a non-matching finger; when the *)
(* step is Done, authenticated = !rc.                                      *)
AuthMain ==
    /\ Running("Authenticate", "main")
    /\ \/ CancelExit
       \/ /\ ~CancelRequested
          /\ \/ ErrorExit
             \/ \E r \in {"ok", "noMatch", "badImage", "failed29"}, s \in Steps :
                   /\ ls' = MainNext(r, s, "final")
                   /\ rcOk' = (r = "ok")
                   /\ authenticated' = IF s = "Done" THEN r = "ok"
                                                     ELSE authenticated
                   /\ notes' = MainNotes(r, s)
                   /\ UNCHANGED <<finished, irq, faults>>
    /\ LoopFrame

(* HandleMainStep(cmdOut) on WaitFingerprint: no timeout. *)
AuthFinger ==
    /\ Running("Authenticate", "finger")
    /\ FingerWait(-1)

(* The SendFinalizeAuthenticate do-while. *)
AuthFinalize ==
    /\ Running("Authenticate", "final")
    /\ SetupPass("fpwait")
    /\ LoopFrame

(* SendCancel with CancelFingerprintWait until Done, rc unchecked and no  *)
(* cancel check; then a new attempt, or NotifyAuthenticated and return.   *)
AuthFingerWait ==
    /\ Running("Authenticate", "fpwait")
    /\ IF authenticated
         THEN ls' = "ret" /\ notes' = <<"authenticated">>
         ELSE ls' = "init" /\ UNCHANGED notes
    /\ UNCHANGED <<authenticated, finished, rcOk, irq, faults>>
    /\ LoopFrame

-----------------------------------------------------------------------------

Init ==
    /\ W!WorkerInit
    /\ bpc = NoCall
    /\ mClientCallback = FALSE
    /\ cbHeld = FALSE
    /\ bufHeld = FALSE
    /\ mEnrollTimeout \in EnrollTimeouts  \* uninitialised until enroll
    /\ ls = "none" /\ notes = <<>>
    /\ authenticated = FALSE /\ finished = FALSE /\ rcOk = FALSE
    /\ irq = FALSE
    /\ faults = 0
    /\ sessCb = FALSE /\ terminals = 0

(* New calls of the binder thread: the framework's, unconstrained. *)
BinderCalls ==
    \/ SetNotify \/ PreEnroll \/ PostEnroll \/ SetActiveGroup \/ Enroll
    \/ Authenticate \/ Cancel \/ EnumerateLock \/ Remove

(* The binder thread inside a call. *)
BinderRuns ==
    \/ PreEnrollDone \/ PostEnrollDone \/ SetActiveGroupDone \/ EnrollLocked
    \/ AuthenticateLocked \/ EnumerateLocked \/ RemoveLocked \/ RemoveAuthId

WorkerSteps ==
    \/ Start \/ Dispatch \/ TakeBuffer \/ IdleAgain \/ IdleReturn \/ Notify
    \/ Return
    \/ EnrollInit \/ EnrollMain \/ EnrollFinger \/ EnrollFinalize
    \/ EnrollAuthId \/ AuthInit \/ AuthMain \/ AuthFinger \/ AuthFinalize
    \/ AuthFingerWait

Next == BinderCalls \/ BinderRuns \/ WorkerSteps \/ FingerEvent

Spec == Init /\ [][Next]_vars

-----------------------------------------------------------------------------
(* Properties *)

(* Every run of EnrollAsync or AuthenticateAsync that had a callback ends  *)
(* with at least one terminal notification (an error, ERROR_CANCELED, the *)
(* last onEnrollResult or a matching onAuthenticated): RunCancel notifies  *)
(* even when the trustlet refused the cancel, "to prevent deadlocks" in a *)
(* framework that waits for the outcome.                                   *)
TerminalAtLeastOnce ==
    [][ (wpc = "run" /\ wpc' = "wait" /\ current \in Ops /\ sessCb)
          => terminals' >= 1 ]_vars

(* The binder thread and a capture loop never wait for each other: never  *)
(* does enumerate hold mClientCallbackMutex waiting for the buffer while   *)
(* the loop that holds the buffer waits for that mutex to notify.          *)
NoLockCycle == ~(cbHeld /\ bpc.at = "buffer" /\ bufHeld /\ notes # <<>>)

=============================================================================
