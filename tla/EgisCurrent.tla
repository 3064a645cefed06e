---------------------------- MODULE EgisCurrent ----------------------------
(***************************************************************************)
(* The HAL for current Egistec sensors                                     *)
(* (src/fingerprint/egistec/current/BiometricsFingerprint.cpp) on top of   *)
(* the coordinator of Worker.tla and the EventMultiplexer                  *)
(* (src/fingerprint/EventMultiplexer.cpp).                                 *)
(*                                                                         *)
(* One binder thread (service.cpp: configureRpcThreadpool(1, true)) runs   *)
(* the IBiometricsFingerprint calls one at a time; each call is one step.  *)
(* The worker thread runs IdleAsync, EnrollAsync and AuthenticateAsync;   *)
(* one step is one pass of a capture loop's switch, from the cancel check *)
(* at the top of the loop to the rc == 99 reset at its bottom, and the    *)
(* code after the loop (finalize, the outcome chain, the return to        *)
(* RunThread) is one step too.  A multiplexer wait that nothing can wake  *)
(* yet disables the step that contains it.                                 *)
(*                                                                         *)
(* Trustlet (TrustZone) calls are abstract: each returns 0, 99 (the       *)
(* reset-recoverable code) or another error, and a failure spends one of  *)
(* MaxFaults; images, identify and enroll results are drawn from small    *)
(* sets.  The sensor's interrupt line is the environment's: a finger can  *)
(* touch at any time.                                                      *)
(***************************************************************************)
EXTENDS Integers, FiniteSets

CONSTANTS
    Binder,          \* the binder thread, the coordinator's one caller
    NoRequest,       \* model value: no pending coordinator request
    NoCaller,        \* model value: nobody holds mEventWriterMutex
    Gids,            \* user groups passed to setActiveGroup/enroll
    NoGid,           \* mGid before the first setActiveGroup (uint32_t -1)
    PrintIds,        \* ids GetNewPrintId may draw (rand())
    NoPrint,         \* mNewPrintId after postEnroll (uint32_t -1)
    PrintCapacity,   \* GetNewPrintId: -2 (ENOSPC) at this many prints (5)
    Challenges,      \* nonzero values preEnroll may generate
    OpIds,           \* operation ids passed to authenticate
    EnrollTimeouts,  \* timeoutSec values passed to enroll (uint32_t)
    HwIds,           \* values GetHwId may report at construction
    Percentages,     \* progress values the trustlet's Enroll may report
    MaxFaults        \* bound on failing trustlet/epoll calls in a behaviour

ASSUME /\ NoGid \notin Gids /\ NoPrint \notin PrintIds /\ 0 \notin Challenges
       /\ 0 \notin OpIds /\ 100 \in Percentages /\ MaxFaults \in Nat

VARIABLES
    current, desired, wpc, cpc, writer, accepted,  \* the coordinator
    mGid, mHwId, mNewPrintId, mEnrollChallenge, mEnrollTimeout, mOperationId,
    prints,          \* prints[g]: the print ids the trustlet stores for g
    irq,             \* the sensor fd is readable (a finger event is pending)
    hs,              \* where the running handler is
    rc, done, timeout, force_retry, reImaged, mediocre, percentage_done,
    faults,          \* failing calls so far
    req,             \* ghost: the parameters the last enroll/authenticate set
    sess,            \* ghost: the parameters of the running operation
    lastUse,         \* ghost: the parameters of the last trustlet/notify use
    terminals        \* ghost: terminal notifications of the running operation

workerVars == <<current, desired, wpc, cpc, writer, accepted>>
halVars == <<mGid, mHwId, mNewPrintId, mEnrollChallenge, mEnrollTimeout,
             mOperationId, prints>>
loopVars == <<hs, rc, done, timeout, force_retry, reImaged, mediocre,
              percentage_done>>
ghostVars == <<req, sess, lastUse, terminals>>
vars == <<workerVars, halVars, irq, loopVars, faults, ghostVars>>

W == INSTANCE Worker WITH Callers <- {Binder}

-----------------------------------------------------------------------------
(* Integer conversions *)

(* uint32_t timeoutSec stored into int mEnrollTimeout (TLC's integers    *)
(* stop at 2^31 - 1, so the negative branch is written without 2^32).     *)
ToInt32(u) == IF u > 2147483647 THEN (u - 2147483647) - 2147483647 - 2 ELSE u

(* epoll_wait(..., 1000 * timeoutSec): the int product wraps; a negative  *)
(* result waits forever.  The sign of the wrapped product is that of its  *)
(* high 16 bits, computed from the halves of timeoutSec so that no         *)
(* intermediate leaves 32 bits.                                            *)
EpollWaitsForever(timeoutSec) ==
    IF timeoutSec < 0 THEN TRUE
    ELSE LET lo == 1000 * (timeoutSec % 65536)
             hi == (1000 * (timeoutSec \div 65536) + lo \div 65536) % 65536
         IN hi >= 32768

-----------------------------------------------------------------------------
(* Trustlet results *)

Fail == {1, 99}

(* The rc a trustlet call may return: failures only within the budget. *)
TrustletRc == IF faults < MaxFaults THEN {0} \cup Fail ELSE {0}

Spend(r) == faults' = IF r = 0 THEN faults ELSE faults + 1

(* EgisFpDevice::Reset: the ET51X_IOCWRESET ioctl's result. *)
DeviceReset == {0, 1}

(* The bottom of both loops: if (rc == 99) rc = mDev.Reset(); the reset   *)
(* ioctl may succeed (the loop goes on) or fail.                           *)
AfterReset(r) == IF r = 99 THEN DeviceReset ELSE {r}

ImageResults == {"Good", "TooFast", "ImagerDirty", "Partial", "Mediocre", "Other"}
IdentifyStatuses == {"Match", "Below3", "Other"}   \* status 0, 1..2, >= 3
EnrollStatuses == {"Good", "Detected", "ImagerDirty", "Partial", "Nothing",
                   "Unknown"}

-----------------------------------------------------------------------------
(* EventMultiplexer::waitForEvent(timeoutSec): the wakeups the call may    *)
(* return now.  The control eventfd has priority over the sensor fd;       *)
(* nothing ready returns Timeout when the timeout is finite, and a failing *)
(* epoll_wait returns Timeout at any time.  Empty: the call still blocks.  *)

(* Mutation: the loop over epoll's events returns the first ready fd, the *)
(* sensor included, instead of preferring the control eventfd.             *)
WaitForEventFingerFirst(timeoutSec) ==
    (IF irq THEN {"Finger"} ELSE IF W!EventAvailable THEN {"Event"} ELSE {})
    \cup (IF ~irq /\ ~W!EventAvailable /\ ~EpollWaitsForever(timeoutSec)
            THEN {"Timeout"} ELSE {})
    \cup (IF faults < MaxFaults THEN {"Failed"} ELSE {})

WaitForEvent(timeoutSec) ==
    (IF W!EventAvailable THEN {"Event"} ELSE IF irq THEN {"Finger"} ELSE {})
    \cup (IF ~irq /\ ~W!EventAvailable /\ ~EpollWaitsForever(timeoutSec)
            THEN {"Timeout"} ELSE {})
    \cup (IF faults < MaxFaults THEN {"Failed"} ELSE {})

(* What the caller sees: a failed epoll_wait reads as Timeout.  A Finger  *)
(* wakeup is the one that consumes the pending sensor event.               *)
Reason(w) == IF w = "Failed" THEN "Timeout" ELSE w

Wake(w) == /\ irq' = (irq /\ w # "Finger")
           /\ faults' = IF w = "Failed" THEN faults + 1 ELSE faults

-----------------------------------------------------------------------------
(* The binder calls.  Each runs to completion on the one binder thread;   *)
(* calls that only read (enumerate, getAuthenticatorId) or only log are    *)
(* not steps.  The constructor has run before the service registers.      *)

NoUse == [gid |-> NoGid, arg |-> NoPrint]

BinderReady == wpc # "init"

(* preEnroll: mEnrollChallenge = rand() | rand() << 32. *)
PreEnroll ==
    /\ BinderReady
    /\ \E ch \in Challenges : mEnrollChallenge' = ch
    /\ UNCHANGED <<workerVars, mGid, mHwId, mNewPrintId, mEnrollTimeout,
                   mOperationId, prints, irq, loopVars, faults, ghostVars>>

(* The print id GetNewPrintId draws: one the group does not hold yet;      *)
(* none (rc -2, SYS_ENOSPC) when the group is full.                        *)
NewPrintIds(gid) ==
    IF Cardinality(prints[gid]) >= PrintCapacity THEN {}
    ELSE PrintIds \ prints[gid]

(* enroll(hat, gid, timeoutSec): the group must be mGid and the token's    *)
(* challenge the preEnroll one (the trustlet's token and secure-id checks  *)
(* pass); then mNewPrintId, mEnrollTimeout and moveToState(Enroll).        *)
Enroll(gid, challenge, timeoutSec) ==
    /\ BinderReady
    /\ gid = mGid
    /\ challenge = mEnrollChallenge
    /\ \E id \in NewPrintIds(gid) :
          /\ mNewPrintId' = id
          /\ req' = [gid |-> gid, arg |-> id]
    /\ mEnrollTimeout' = ToInt32(timeoutSec)
    /\ W!MoveToState(Binder, "Enroll")
    /\ UNCHANGED <<mGid, mHwId, mEnrollChallenge, mOperationId, prints, irq,
                   loopVars, faults, sess, lastUse, terminals>>

(* postEnroll: clear timeout, print id and challenge. *)
PostEnroll ==
    /\ BinderReady
    /\ mEnrollTimeout' = -1
    /\ mNewPrintId' = NoPrint
    /\ mEnrollChallenge' = 0
    /\ UNCHANGED <<workerVars, mGid, mHwId, mOperationId, prints, irq,
                   loopVars, faults, ghostVars>>

(* cancel: moveToState(Idle). *)
Cancel ==
    /\ BinderReady
    /\ W!MoveToState(Binder, "Idle")
    /\ UNCHANGED <<halVars, irq, loopVars, faults, ghostVars>>

(* The prints remove(gid, fid) sets out to delete: the whole group for    *)
(* fid 0 (GetPrintIds), else fid if the group holds it.                     *)
Targets(gid, fid) == IF fid = 0 THEN prints[gid] ELSE {fid} \cap prints[gid]

(* The prints the call does delete.  RemovePrint is called id by id and    *)
(* the loop breaks at the first failure, so a failing call leaves any     *)
(* strict subset of the targets deleted (a failing GetPrintIds: none).    *)
RemovablePrints(gid, fid) ==
    {Targets(gid, fid)}
    \cup (IF faults < MaxFaults
            THEN {s \in SUBSET Targets(gid, fid) : s # Targets(gid, fid)}
            ELSE {})

(* remove(gid, fid): refused for another group; a failure after some      *)
(* deletions notifies ERROR_UNABLE_TO_REMOVE and keeps them.               *)
Remove(gid, fid) ==
    /\ BinderReady
    /\ gid = mGid
    /\ \E gone \in RemovablePrints(gid, fid) :
          /\ prints' = [prints EXCEPT ![gid] = @ \ gone]
          /\ faults' = IF gone = Targets(gid, fid) THEN faults ELSE faults + 1
    /\ UNCHANGED <<workerVars, mGid, mHwId, mNewPrintId, mEnrollChallenge,
                   mEnrollTimeout, mOperationId, irq, loopVars, ghostVars>>

(* setActiveGroup(gid, storePath): mGid is set before SetUserDataPath. *)
SetActiveGroup(gid) ==
    /\ BinderReady
    /\ mGid' = gid
    /\ UNCHANGED <<workerVars, mHwId, mNewPrintId, mEnrollChallenge,
                   mEnrollTimeout, mOperationId, prints, irq, loopVars,
                   faults, ghostVars>>

(* authenticate(operationId, gid): refused for another group or when the   *)
(* trustlet holds no enrolled print; then mOperationId and                 *)
(* moveToState(Authenticate).                                              *)
Authenticate(operationId, gid) ==
    /\ BinderReady
    /\ gid = mGid
    /\ prints[mGid] # {}
    /\ mOperationId' = operationId
    /\ req' = [gid |-> gid, arg |-> operationId]
    /\ W!MoveToState(Binder, "Authenticate")
    /\ UNCHANGED <<mGid, mHwId, mNewPrintId, mEnrollChallenge, mEnrollTimeout,
                   prints, irq, loopVars, faults, sess, lastUse, terminals>>

(* The sensor raises its interrupt: a finger touches or leaves. *)
FingerEvent ==
    /\ ~irq
    /\ irq' = TRUE
    /\ UNCHANGED <<workerVars, halVars, loopVars, faults, ghostVars>>

-----------------------------------------------------------------------------
(* The worker thread: dispatch and the handlers *)

LoopStates == {"WaitFingerDown", "GetImage", "Identify", "EnrollStep",
               "WaitFingerLost"}

(* The binder is never blocked in this HAL: every request is moveToState. *)
WorkerStepFrame ==
    UNCHANGED <<workerVars, mGid, mHwId, mNewPrintId, mEnrollChallenge,
                mEnrollTimeout, prints, req, sess>>

(* The handler entered with fresh locals. *)
Enter(entry) ==
    /\ hs' = entry
    /\ rc' = 0 /\ done' = FALSE /\ timeout' = FALSE /\ force_retry' = FALSE
    /\ reImaged' = 0 /\ mediocre' = FALSE /\ percentage_done' = 0
    /\ lastUse' = NoUse /\ terminals' = 0

(* The constructor: enable, reset and initialise the sensor, read the     *)
(* hardware id, then mWt.Start().  Its trustlet failures are fatal.       *)
Start ==
    /\ W!Start
    /\ UNCHANGED <<halVars, irq, loopVars, faults, ghostVars>>

(* RunThread: consume the request and call the state's handler. *)
Dispatch ==
    /\ W!Consume
    /\ Enter(IF desired \in W!Operations THEN "Init" ELSE "none")
    /\ sess' = IF desired \in {"Enroll", "Authenticate"} THEN req ELSE sess
    /\ UNCHANGED <<halVars, irq, faults, req>>

(* RunThread: no request within its wait while Idle; run IdleAsync again. *)
IdleAgain ==
    /\ W!IdleTimeout
    /\ Enter("Init")
    /\ UNCHANGED <<halVars, irq, faults, req, sess>>

(* Leaving a handler: RunThread goes back to Idle unless a request waits. *)
Return ==
    /\ W!HandlerReturn
    /\ hs' = "none"

Running(state, s) == current = state /\ wpc = "run" /\ hs = s

(* A trustlet call of the loop body fails with r; the bottom of the loop *)
(* may reset the sensor.                                                   *)
CallFails(r) ==
    /\ faults < MaxFaults
    /\ faults' = faults + 1
    /\ rc' \in AfterReset(r)

(* The top of both loops: if (isEventAvailable() && !force_retry) cancel. *)
CancelSeen == W!EventAvailable /\ ~force_retry

-----------------------------------------------------------------------------
(* IdleAsync *)

NoGestures == mHwId >= 1536 \/ mHwId = 55       \* hwid >= 0x600 || == 0x37

(* Sensors without gestures: SetWorkMode(Sleep) and return. *)
IdleSleep ==
    /\ Running("Idle", "Init")
    /\ NoGestures
    /\ Return
    /\ UNCHANGED <<halVars, irq, rc, done, timeout, force_retry, reImaged,
                   mediocre, percentage_done, faults, ghostVars>>

(* SetWorkMode(NavigationDetect), then the gesture loop. *)
IdleNavigate ==
    /\ Running("Idle", "Init")
    /\ ~NoGestures
    /\ hs' = "Navigate"
    /\ WorkerStepFrame
    /\ UNCHANGED <<mOperationId, irq, rc, done, timeout, force_retry,
                   reImaged, mediocre, percentage_done, faults, lastUse,
                   terminals>>

(* One pass of the gesture loop: GetNavEvent and its uinput click, then   *)
(* waitForEvent(): an Event leaves the loop, SetWorkMode(Sleep) and        *)
(* return; a Finger or a Timeout loops.                                    *)
IdleWait ==
    /\ Running("Idle", "Navigate")
    /\ \E w \in WaitForEvent(-1) :
          /\ Wake(w)
          /\ IF w = "Event" THEN Return
                            ELSE UNCHANGED <<workerVars, hs>>
    /\ UNCHANGED <<halVars, rc, done, timeout, force_retry, reImaged,
                   mediocre, percentage_done, ghostVars>>

-----------------------------------------------------------------------------
(* The image step shared by both loops: the GetImage switch after a good  *)
(* GetImage call.  goodNext is the state a Good image leads to, defaults  *)
(* the results the switch sends to its default branch.                    *)

(* Dirty and partial images: report once reImaged > 6, otherwise          *)
(* ResetSensor() and take a new image, skipping the next cancel check.    *)
(* Mutation: an off-by-one that lets one more retake through. *)
ReImageExhaustedLate == reImaged > 7

ReImageExhausted == reImaged > 6

Retake ==
    \/ /\ ReImageExhausted
       /\ reImaged' = 0 /\ force_retry' = FALSE /\ hs' = "WaitFingerLost"
       /\ UNCHANGED <<rc, faults>>
    \/ /\ ~ReImageExhausted
       /\ \/ /\ reImaged' = reImaged + 1 /\ force_retry' = TRUE
             /\ hs' = "GetImage"
             /\ UNCHANGED <<rc, faults>>
          \/ \* ResetSensor fails: rc = mDev.Reset(), state stays WaitFingerLost
             /\ faults < MaxFaults /\ faults' = faults + 1
             /\ rc' \in DeviceReset
             /\ force_retry' = FALSE /\ hs' = "WaitFingerLost"
             /\ UNCHANGED reImaged

ImageStep(ir, goodNext, defaults) ==
    \/ /\ ir = "Good"
       /\ hs' = goodNext /\ reImaged' = 0 /\ force_retry' = FALSE
       /\ UNCHANGED <<rc, faults>>
    \/ /\ ir = "TooFast"
       /\ hs' = "WaitFingerLost" /\ force_retry' = FALSE
       /\ UNCHANGED <<reImaged, rc, faults>>
    \/ /\ ir \in {"ImagerDirty", "Partial"}
       /\ Retake
    \/ /\ ir \in defaults
       /\ hs' = "WaitFingerDown" /\ force_retry' = FALSE
       /\ UNCHANGED <<reImaged, rc, faults>>

-----------------------------------------------------------------------------
(* AuthenticateAsync *)

AuthGoes == ~done /\ rc = 0 /\ ~timeout      \* the while condition

AuthCase(s) == Running("Authenticate", s) /\ AuthGoes /\ ~CancelSeen

AuthFrame == /\ WorkerStepFrame
             /\ UNCHANGED <<mOperationId, terminals>>

(* InitializeIdentify fails: NotifyError(UNABLE_TO_PROCESS) and return. *)
AuthInitFails ==
    /\ Running("Authenticate", "Init")
    /\ faults < MaxFaults /\ faults' = faults + 1
    /\ terminals' = terminals + 1
    /\ Return
    /\ UNCHANGED <<halVars, irq, rc, done, timeout, force_retry, reImaged,
                   mediocre, percentage_done, req, sess, lastUse>>

AuthInit ==
    /\ Running("Authenticate", "Init")
    /\ hs' = "WaitFingerDown"
    /\ AuthFrame
    /\ UNCHANGED <<irq, rc, done, timeout, force_retry, reImaged, mediocre,
                   percentage_done, faults, lastUse>>

(* SetWorkMode(Detect), then waitForEvent() without a timeout. *)
AuthWaitFingerDown ==
    /\ AuthCase("WaitFingerDown")
    /\ \/ /\ \E r \in Fail : CallFails(r)
          /\ UNCHANGED <<irq, hs, timeout>>
       \/ /\ \E w \in WaitForEvent(-1) :
                /\ Wake(w)
                /\ hs' = IF w = "Finger" THEN "GetImage" ELSE hs
                /\ timeout' = (Reason(w) = "Timeout")
          /\ UNCHANGED rc
    /\ AuthFrame
    /\ UNCHANGED <<done, force_retry, reImaged, mediocre, percentage_done,
                   lastUse>>

(* GetImage: on success state = WaitFingerLost, force_retry = false, then *)
(* the switch; Mediocre is rewritten to ImagerDirty and identified.        *)
AuthGetImage ==
    /\ AuthCase("GetImage")
    /\ \/ /\ \E r \in Fail : CallFails(r)
          /\ UNCHANGED <<hs, force_retry, reImaged, mediocre>>
       \/ \E ir \in ImageResults :
             /\ mediocre' = (ir = "Mediocre")
             /\ \/ ImageStep(ir, "Identify", {"Other"})
                \/ /\ ir = "Mediocre"
                   /\ hs' = "Identify" /\ force_retry' = FALSE
                   /\ UNCHANGED <<reImaged, rc, faults>>
    /\ AuthFrame
    /\ UNCHANGED <<irq, done, timeout, percentage_done, lastUse>>

(* Identify(mGid, mOperationId): status 0 notifies (authenticated, or     *)
(* imager-dirty after a mediocre image), status < 3 ends the loop; then   *)
(* UpdateTemplate and, if updated, SaveTemplate.                           *)
AuthIdentify ==
    /\ AuthCase("Identify")
    /\ lastUse' = [gid |-> mGid, arg |-> mOperationId]
    /\ \/ /\ \E r \in Fail : CallFails(r)
          /\ UNCHANGED <<hs, done>>
       \/ \E status \in IdentifyStatuses :
             /\ done' = (status = "Below3")
             /\ \/ /\ \E r \in Fail : CallFails(r)      \* Update/SaveTemplate
                   /\ UNCHANGED hs
                \/ /\ hs' = "WaitFingerLost"
                   /\ UNCHANGED <<rc, faults>>
    /\ AuthFrame
    /\ UNCHANGED <<irq, timeout, force_retry, reImaged, mediocre,
                   percentage_done>>

(* SetSpiState(1), IsFingerLost; lost: SetSpiState(0) and WaitFingerDown; *)
(* otherwise waitForEvent(): a Finger does the same, a Timeout ends.       *)
AuthWaitFingerLost ==
    /\ AuthCase("WaitFingerLost")
    /\ \/ /\ \E r \in Fail : CallFails(r)
          /\ UNCHANGED <<irq, hs, timeout>>
       \/ /\ \E r \in TrustletRc :                     \* finger lost
                /\ faults' = IF r = 0 THEN faults ELSE faults + 1
                /\ rc' \in AfterReset(r)
          /\ hs' = "WaitFingerDown"
          /\ UNCHANGED <<irq, timeout>>
       \/ \E w \in WaitForEvent(-1) :
             /\ irq' = (irq /\ w # "Finger")
             /\ timeout' = (Reason(w) = "Timeout")
             /\ IF w = "Finger"
                  THEN /\ hs' = "WaitFingerDown"
                       /\ \E r \in TrustletRc :
                             /\ faults' = IF r = 0 THEN faults ELSE faults + 1
                             /\ rc' \in AfterReset(r)
                  ELSE /\ faults' = IF w = "Failed" THEN faults + 1 ELSE faults
                       /\ UNCHANGED <<hs, rc>>
    /\ AuthFrame
    /\ UNCHANGED <<done, force_retry, reImaged, mediocre, percentage_done,
                   lastUse>>

(* After the loop: SetSpiState(0); rc = FinalizeIdentify(), overwriting   *)
(* the loop's rc; mOperationId = 0; then one of CANCELED, TIMEOUT,        *)
(* UNABLE_TO_PROCESS or the authenticated result, or nothing at all.       *)
AuthFinish ==
    /\ Running("Authenticate", hs) /\ hs \in LoopStates
    /\ ~AuthGoes \/ CancelSeen
    /\ LET canceled == AuthGoes /\ CancelSeen
       IN \E r \in TrustletRc :
             /\ faults' = IF r = 0 THEN faults ELSE faults + 1
             /\ rc' = r
             /\ terminals' = IF canceled \/ timeout \/ r # 0 \/ done
                               THEN terminals + 1 ELSE terminals
    /\ mOperationId' = 0
    /\ Return
    /\ UNCHANGED <<mGid, mHwId, mNewPrintId, mEnrollChallenge, mEnrollTimeout,
                   prints, irq, done, timeout, force_retry, reImaged,
                   mediocre, percentage_done, req, sess, lastUse>>

-----------------------------------------------------------------------------
(* EnrollAsync *)

(* Mutation: the while condition loses its !timeout. *)
EnrollGoesPastTimeout == percentage_done < 100 /\ rc = 0

EnrollGoes == percentage_done < 100 /\ ~timeout /\ rc = 0

(* The top of the loop; the body starts with force_retry = false. *)
EnrollCase(s) == Running("Enroll", s) /\ EnrollGoes /\ ~CancelSeen

EnrollFrame == /\ WorkerStepFrame
               /\ UNCHANGED <<mOperationId, terminals, done, mediocre>>

(* InitializeEnroll fails: NotifyError(UNABLE_TO_PROCESS) and return. *)
EnrollInitFails ==
    /\ Running("Enroll", "Init")
    /\ faults < MaxFaults /\ faults' = faults + 1
    /\ terminals' = terminals + 1
    /\ Return
    /\ UNCHANGED <<halVars, irq, rc, done, timeout, force_retry, reImaged,
                   mediocre, percentage_done, req, sess, lastUse>>

EnrollInit ==
    /\ Running("Enroll", "Init")
    /\ hs' = "WaitFingerDown"
    /\ EnrollFrame
    /\ UNCHANGED <<irq, rc, timeout, force_retry, reImaged, percentage_done,
                   faults, lastUse>>

(* SetWorkMode(Detect), then waitForEvent(mEnrollTimeout). *)
EnrollWaitFingerDown ==
    /\ EnrollCase("WaitFingerDown")
    /\ force_retry' = FALSE
    /\ \/ /\ \E r \in Fail : CallFails(r)
          /\ UNCHANGED <<irq, hs, timeout>>
       \/ /\ \E w \in WaitForEvent(mEnrollTimeout) :
                /\ Wake(w)
                /\ hs' = IF w = "Finger" THEN "GetImage" ELSE hs
                /\ timeout' = (Reason(w) = "Timeout")
          /\ UNCHANGED rc
    /\ EnrollFrame
    /\ UNCHANGED <<reImaged, percentage_done, lastUse>>

(* GetImage: on success state = WaitFingerLost, then the switch; this     *)
(* loop has no Mediocre case, so a mediocre image goes to the default.     *)
EnrollGetImage ==
    /\ EnrollCase("GetImage")
    /\ \/ /\ \E r \in Fail : CallFails(r)
          /\ force_retry' = FALSE
          /\ UNCHANGED <<hs, reImaged>>
       \/ \E ir \in ImageResults : ImageStep(ir, "EnrollStep", {"Mediocre", "Other"})
    /\ EnrollFrame
    /\ UNCHANGED <<irq, timeout, percentage_done, lastUse>>

(* Enroll(finger_state, ...): percentage_done = the reported percentage;  *)
(* a Good step below 100% notifies progress for mNewPrintId, an unknown   *)
(* status sets rc = -1.  Then WaitFingerLost.                              *)
EnrollEnrollStep ==
    /\ EnrollCase("EnrollStep")
    /\ force_retry' = FALSE
    /\ \/ /\ \E r \in Fail : CallFails(r)
          /\ UNCHANGED <<hs, percentage_done, lastUse>>
       \/ \E status \in EnrollStatuses, p \in Percentages :
             /\ percentage_done' = p
             /\ hs' = "WaitFingerLost"
             /\ lastUse' = IF status = "Good" /\ p < 100
                             THEN [gid |-> mGid, arg |-> mNewPrintId]
                             ELSE lastUse
             /\ IF status = "Unknown"
                  THEN faults < MaxFaults /\ faults' = faults + 1 /\ rc' = 1
                  ELSE UNCHANGED <<rc, faults>>
    /\ EnrollFrame
    /\ UNCHANGED <<irq, timeout, reImaged>>

(* SetSpiState(1), IsFingerLost; lost: Calibrate (its rc is overwritten), *)
(* Enroll(2), SetSpiState(0), WaitFingerDown; otherwise                    *)
(* waitForEvent(mEnrollTimeout), where only a Timeout matters.             *)
EnrollWaitFingerLost ==
    /\ EnrollCase("WaitFingerLost")
    /\ force_retry' = FALSE
    /\ \/ /\ \E r \in Fail : CallFails(r)
          /\ UNCHANGED <<irq, hs, timeout>>
       \/ /\ hs' = "WaitFingerDown"
          /\ UNCHANGED <<irq, rc, faults, timeout>>
       \/ /\ \E w \in WaitForEvent(mEnrollTimeout) :
                /\ Wake(w)
                /\ timeout' = (Reason(w) = "Timeout")
          /\ UNCHANGED <<hs, rc>>
    /\ EnrollFrame
    /\ UNCHANGED <<reImaged, percentage_done, lastUse>>

(* After the loop: rc = FinalizeEnroll(), overwriting the loop's rc; then *)
(* CANCELED, TIMEOUT, UNABLE_TO_PROCESS, or at 100%                        *)
(* SaveEnrolledPrint(mGid, mNewPrintId) and NotifyEnrollResult(id, 0)      *)
(* whatever the save returned, or nothing at all.                          *)
EnrollFinish ==
    /\ Running("Enroll", hs) /\ hs \in LoopStates
    /\ ~EnrollGoes \/ CancelSeen
    /\ LET canceled == EnrollGoes /\ CancelSeen
       IN \E r, save \in TrustletRc :
             LET saving == ~canceled /\ ~timeout /\ r = 0 /\ percentage_done >= 100
             IN /\ faults' = faults + (IF r = 0 THEN 0 ELSE 1)
                                    + (IF saving /\ save # 0 THEN 1 ELSE 0)
                /\ faults' <= MaxFaults
                /\ rc' = r
                /\ terminals' = IF canceled \/ timeout \/ r # 0 \/ saving
                                  THEN terminals + 1 ELSE terminals
                /\ IF saving
                     THEN /\ lastUse' = [gid |-> mGid, arg |-> mNewPrintId]
                          /\ prints' = IF save = 0
                                         THEN [prints EXCEPT ![mGid] = @ \cup {mNewPrintId}]
                                         ELSE prints
                     ELSE UNCHANGED <<lastUse, prints>>
    /\ Return
    /\ UNCHANGED <<mGid, mHwId, mNewPrintId, mEnrollChallenge, mEnrollTimeout,
                   mOperationId, irq, done, timeout, force_retry, reImaged,
                   mediocre, percentage_done, req, sess>>

-----------------------------------------------------------------------------

Init ==
    /\ W!WorkerInit
    /\ mGid = NoGid
    /\ mHwId \in HwIds
    /\ mNewPrintId = NoPrint
    /\ mEnrollChallenge = 0
    /\ mEnrollTimeout = -1
    /\ mOperationId = 0
    /\ prints = [g \in Gids |-> {}]
    /\ irq = FALSE
    /\ hs = "none" /\ rc = 0 /\ done = FALSE /\ timeout = FALSE
    /\ force_retry = FALSE /\ reImaged = 0 /\ mediocre = FALSE
    /\ percentage_done = 0
    /\ faults = 0
    /\ req = NoUse /\ sess = NoUse /\ lastUse = NoUse
    /\ terminals = 0

BinderNext ==
    \/ PreEnroll \/ PostEnroll \/ Cancel
    \/ \E g \in Gids, ch \in Challenges, t \in EnrollTimeouts : Enroll(g, ch, t)
    \/ \E g \in Gids, op \in OpIds : Authenticate(op, g)
    \/ \E g \in Gids : SetActiveGroup(g)
    \/ \E g \in Gids, fid \in PrintIds \cup {0} : Remove(g, fid)

IdleNext == IdleSleep \/ IdleNavigate \/ IdleWait

AuthNext ==
    \/ AuthInitFails \/ AuthInit \/ AuthWaitFingerDown \/ AuthGetImage
    \/ AuthIdentify \/ AuthWaitFingerLost \/ AuthFinish

EnrollNext ==
    \/ EnrollInitFails \/ EnrollInit \/ EnrollWaitFingerDown \/ EnrollGetImage
    \/ EnrollEnrollStep \/ EnrollWaitFingerLost \/ EnrollFinish

WorkerThread ==
    Start \/ Dispatch \/ IdleAgain \/ IdleNext \/ AuthNext \/ EnrollNext

Next == WorkerThread \/ BinderNext \/ FingerEvent

(* The worker thread is scheduled whenever it can make a step in which    *)
(* nothing fails: a failing trustlet call or epoll_wait is not something  *)
(* the scheduler can be relied on to produce.  The binder's calls and the *)
(* finger are the environment's and need not happen.                      *)
Spec == Init /\ [][Next]_vars /\ WF_vars(WorkerThread /\ faults' = faults)

-----------------------------------------------------------------------------
(* Properties *)

TypeOK ==
    /\ W!TypeOK
    /\ mGid \in Gids \cup {NoGid}
    /\ mNewPrintId \in PrintIds \cup {NoPrint}
    /\ mEnrollChallenge \in Challenges \cup {0}
    /\ mEnrollTimeout \in {-1} \cup {ToInt32(t) : t \in EnrollTimeouts}
    /\ mOperationId \in OpIds \cup {0}
    /\ prints \in [Gids -> SUBSET (PrintIds \cup {NoPrint})]
    /\ hs \in {"none", "Init", "Navigate"} \cup LoopStates
    /\ rc \in {0} \cup Fail
    /\ reImaged \in 0..7
    /\ percentage_done \in {0} \cup Percentages
    /\ faults \in 0..MaxFaults
    /\ terminals \in 0..2

(* The HAL implements the coordinator (Worker.tla with the binder as its  *)
(* one caller): its dispatch, returns and moveToState calls are the        *)
(* coordinator's steps, and its capture loops keep the cooperative-       *)
(* cancellation promise: a running handler returns once a request is      *)
(* pending, so cancel(), enroll() and authenticate() are always taken up. *)
WorkerRefinement == W!Spec

(* Every run of EnrollAsync or AuthenticateAsync ends with exactly one    *)
(* terminal notification (spec.md 7: "every exit path from a capture loop *)
(* results in exactly one terminal Notifier call").                       *)
TerminalNotifiedOnce ==
    [][ (wpc = "run" /\ wpc' = "wait" /\ current \in {"Enroll", "Authenticate"})
          => terminals' = 1 ]_vars

(* Identify, the progress notifications and SaveEnrolledPrint of an       *)
(* operation use the group, print id and operation id that the enroll()   *)
(* or authenticate() call which started it set.                           *)
SessionParamsUsed == lastUse \in {NoUse, sess}

(* An enrollment ends by itself when nobody touches the sensor (spec.md 5: *)
(* the caller's enroll timeout is enforced at WaitFingerDown and           *)
(* WaitFingerLost): every waitForEvent(mEnrollTimeout) of EnrollAsync      *)
(* returns Timeout once the timeout has passed, the loop exits and         *)
(* NotifyError(ERROR_TIMEOUT) is sent.  An enroll running with no finger   *)
(* event pending leads to the worker leaving EnrollAsync, unless a finger  *)
(* touches first.                                                          *)
EnrollEndsUnlessTouched ==
    (current = "Enroll" /\ wpc = "run" /\ ~irq)
        ~> (wpc # "run" \/ irq)


(* A finite enroll timeout is enforced whatever the loop is doing: while   *)
(* mEnrollTimeout is a timeout epoll_wait honours, an enrollment that no   *)
(* finger event interrupts leaves EnrollAsync (through the Timeout of a    *)
(* WaitFingerDown or WaitFingerLost wait, the timeout flag in the while    *)
(* condition and NotifyError(ERROR_TIMEOUT)), across retakes, sensor       *)
(* resets and the SPI-off path.  postEnroll clearing the timeout is the    *)
(* escape that egis_enroll_timeout is about.                               *)
EnrollTimesOut ==
    (current = "Enroll" /\ wpc = "run" /\ ~irq
        /\ ~EpollWaitsForever(mEnrollTimeout))
        ~> (wpc # "run" \/ irq \/ EpollWaitsForever(mEnrollTimeout))

====
