-------------------------------- MODULE Fpc --------------------------------
(***************************************************************************)
(* The HAL for FPC sensors (src/fingerprint/BiometricsFingerprint.cpp) on  *)
(* top of the coordinator of Worker.tla, with the capture of              *)
(* fpc_imp_yoshino_nile_tama.c and common.c.                               *)
(*                                                                         *)
(* Unlike the Egistec HAL, the binder calls block: enroll and authenticate *)
(* take the worker with Pause(), talk to TrustZone while it is paused, and *)
(* then waitForState(); enumerate, remove and setActiveGroup Pause(), work *)
(* and Resume(); cancel is Resume().  The binder thread's position in its *)
(* call is bpc.  EnrollAsync and AuthenticateAsync hold                    *)
(* mClientCallbackMutex for their whole run, so setNotify blocks on it.    *)
(*                                                                         *)
(* A capture loop runs fpc_capture_image in two kinds of step: the wait   *)
(* for the finger to leave (hs = "Lost") and one pass of its finger-down   *)
(* loop (hs = "Down", with its retry count tries).  A step that makes the  *)
(* call return also runs the loop body: the isEventAvailable() cancel      *)
(* check and the handling of the status.  The build (USE_FPC_YOSHINO,      *)
(* _NILE, _TAMA) is chosen once, in Init.                                   *)
(* TrustZone failures are steps of their own, bounded by MaxFaults and     *)
(* left out of the worker's fairness: a command fails when it fails, not   *)
(* because the thread would otherwise wait.                                *)
(***************************************************************************)
EXTENDS Naturals

CONSTANTS
    Binder,      \* the binder thread, the coordinator's one caller
    NoRequest,   \* model value: no pending coordinator request
    NoCaller,    \* model value: nobody holds mEventWriterMutex
    Gids,        \* user groups passed to setActiveGroup
    NoGid,       \* ghost: no result reported yet
    Platforms,   \* the builds: subset of {"yoshino", "nile", "tama"}
    DbIds,       \* nonzero ids FPC_GET_TEMPLATE_ID may report for a database
    MaxFaults    \* bound on failing TrustZone and device calls

ASSUME NoGid \notin Gids /\ 0 \notin DbIds /\ MaxFaults \in Nat

VARIABLES
    current, desired, wpc, cpc, writer, accepted,  \* the coordinator
    platform,        \* the build
    bpc,             \* the binder thread: [op |-> call, at |-> position]
    mClientCallback, \* a client callback is registered
    cbHeld,          \* the worker holds mClientCallbackMutex
    gid,             \* this->gid, written with db_path by setActiveGroup
    irq,             \* the sensor fd is readable: a finger touched
    hs,              \* where the running handler is
    tries,           \* fpc_capture_image's count of capture results 3
    faults,          \* failing calls so far
    authId,          \* ldata->auth_id, the cached id (0: none)
    dbId,            \* the id of the database the TrustZone app holds
    dbRead,          \* getAuthenticatorId's cmd.auth_id, not yet cached
    sessGid,         \* ghost: gid when the running operation started
    usedGid,         \* ghost: the gid its result was reported and stored for
    terminals,       \* ghost: terminal notifications of the running handler
    cancelAsked      \* ghost: cancel() was called during an operation

workerVars == <<current, desired, wpc, cpc, writer, accepted>>
halVars == <<platform, bpc, mClientCallback, cbHeld, gid>>
authVars == <<authId, dbId, dbRead>>
ghostVars == <<sessGid, usedGid, terminals, cancelAsked>>
vars == <<workerVars, halVars, irq, hs, tries, faults, authVars, ghostVars>>

W == INSTANCE Worker WITH Callers <- {Binder}

NoCall == [op |-> "none", at |-> "none"]

Ops == {"Enroll", "Authenticate"}

-----------------------------------------------------------------------------
(* The binder thread *)

(* A new HIDL call starts when the binder has returned from the last one. *)
BinderIdle == bpc = NoCall /\ wpc # "init"

CallFrame == UNCHANGED <<platform, irq, hs, tries, faults, sessGid, usedGid,
                         terminals>>

BinderFrame == CallFrame /\ UNCHANGED authVars

(* setNotify: lock mClientCallbackMutex and store the callback; blocks    *)
(* while a capture loop holds the mutex.                                   *)
SetNotify ==
    /\ BinderIdle
    /\ IF cbHeld
         THEN /\ bpc' = [op |-> "setNotify", at |-> "lock"]
              /\ UNCHANGED mClientCallback
         ELSE /\ mClientCallback' = TRUE
              /\ UNCHANGED bpc
    /\ UNCHANGED <<workerVars, cbHeld, gid, cancelAsked>>
    /\ BinderFrame

SetNotifyLocked ==
    /\ bpc = [op |-> "setNotify", at |-> "lock"]
    /\ ~cbHeld
    /\ mClientCallback' = TRUE
    /\ bpc' = NoCall
    /\ UNCHANGED <<workerVars, cbHeld, gid, cancelAsked>>
    /\ BinderFrame

(* if (!mWt.Pause()) return SYS_EBUSY; otherwise block until paused. *)
PauseFor(op) ==
    /\ W!Pause(Binder)
    /\ bpc' = IF cpc'[Binder] = "pausing" THEN [op |-> op, at |-> "pause"]
                                          ELSE NoCall
    /\ UNCHANGED <<mClientCallback, cbHeld, gid, cancelAsked>>
    /\ BinderFrame

(* enroll(hat, gid, timeoutSec): gid and timeoutSec are unused. *)
Enroll == BinderIdle /\ PauseFor("enroll")

(* authenticate(operation_id, gid) *)
Authenticate == BinderIdle /\ PauseFor("authenticate")

(* enumerate: SYS_EFAULT without a callback, then Pause. *)
Enumerate == BinderIdle /\ mClientCallback /\ PauseFor("enumerate")

(* remove(gid, fid): SYS_EINVAL without a callback, then Pause. *)
Remove == BinderIdle /\ mClientCallback /\ PauseFor("remove")

(* setActiveGroup(gid, storePath), a valid path: db_path and this->gid    *)
(* are written before the Pause.                                           *)
SetActiveGroup(g) ==
    /\ BinderIdle
    /\ gid' = g
    /\ bpc' = [op |-> "setActiveGroup", at |-> "start"]
    /\ UNCHANGED <<workerVars, mClientCallback, cbHeld, cancelAsked>>
    /\ BinderFrame

SetActiveGroupPause ==
    /\ bpc = [op |-> "setActiveGroup", at |-> "start"]
    /\ PauseFor("setActiveGroup")

(* Pause() returns true: the worker is paused. *)
Paused ==
    /\ bpc.at = "pause"
    /\ W!PauseDone(Binder)
    /\ bpc' = [bpc EXCEPT !.at = "held"]
    /\ UNCHANGED <<mClientCallback, cbHeld, gid, cancelAsked>>
    /\ BinderFrame

(* bool success = mWt.waitForState(state); SYS_EAGAIN if refused. *)
WaitFor(state) ==
    /\ W!WaitForState(Binder, state)
    /\ bpc' = IF cpc'[Binder] = "waiting" THEN [bpc EXCEPT !.at = "wait"]
                                          ELSE NoCall

(* enroll: fpc_verify_auth_challenge on the token; a rejected token       *)
(* returns ErrorFilter(rc) at once, still paused.                          *)
EnrollVerify ==
    /\ bpc = [op |-> "enroll", at |-> "held"]
    /\ \/ /\ bpc' = NoCall
          /\ UNCHANGED workerVars
       \/ WaitFor("Enroll")
    /\ UNCHANGED <<mClientCallback, cbHeld, gid, cancelAsked>>
    /\ BinderFrame

(* authenticate: fpc_set_auth_challenge; r < 0 returns SYS_EAGAIN at once, *)
(* still paused.                                                           *)
AuthenticateChallenge ==
    /\ bpc = [op |-> "authenticate", at |-> "held"]
    /\ \/ /\ faults < MaxFaults
          /\ faults' = faults + 1
          /\ bpc' = NoCall
          /\ UNCHANGED workerVars
       \/ /\ WaitFor("Authenticate")
          /\ UNCHANGED faults
    /\ UNCHANGED <<platform, irq, hs, tries, mClientCallback, cbHeld, gid,
                   authVars, ghostVars>>

(* waitForState returned: SYS_OK, or SYS_EAGAIN after its bounded wait. *)
WaitReturned ==
    /\ bpc.at = "wait"
    /\ W!WaitDone(Binder) \/ W!WaitTimeout(Binder)
    /\ bpc' = NoCall
    /\ UNCHANGED <<mClientCallback, cbHeld, gid, cancelAsked>>
    /\ BinderFrame

(* mWt.Resume() at the end of enumerate, remove and setActiveGroup. *)
ResumeAndReturn(op) ==
    /\ bpc = [op |-> op, at |-> "held"]
    /\ W!Resume(Binder)
    /\ bpc' = NoCall
    /\ UNCHANGED <<mClientCallback, cbHeld, gid, cancelAsked, dbRead>>
    /\ CallFrame

(* enumerate while paused: fpc_get_print_index and an onEnumerate per     *)
(* print (fid 0 when there is none). *)
EnumerateDone == ResumeAndReturn("enumerate") /\ UNCHANGED <<authId, dbId>>

(* remove while paused: fpc_del_print_id (every print for fid 0) with      *)
(* onRemoved, or onError(ERROR_UNABLE_TO_REMOVE); fpc_store_user_db.  A   *)
(* fpc_del_print_id whose command reached TrustZone clears ldata->auth_id *)
(* and may change the database's id; with no print to delete, or a failed *)
(* fpc_get_print_index, nothing is deleted.                                *)
RemoveDone ==
    /\ ResumeAndReturn("remove")
    /\ \/ UNCHANGED <<authId, dbId>>
       \/ authId' = 0 /\ dbId' \in DbIds

(* setActiveGroup while paused: __setActiveGroup loads or creates the      *)
(* database at db_path and fpc_set_gid; its result is only returned.  The *)
(* TrustZone app then holds that database, whose id may be any; the        *)
(* cached ldata->auth_id is left as it was.                                *)
SetActiveGroupDone ==
    /\ ResumeAndReturn("setActiveGroup")
    /\ dbId' \in DbIds
    /\ UNCHANGED authId

(* getAuthenticatorId: fpc_load_db_id returns ldata->auth_id when it is   *)
(* set (no step).  Otherwise FPC_GET_TEMPLATE_ID reads the id of the      *)
(* database TrustZone holds (a failed command returns -1, no step).  The *)
(* worker may run between this read and the store into the cache.         *)
GetAuthenticatorId ==
    /\ BinderIdle
    /\ authId = 0
    /\ bpc' = [op |-> "getAuthenticatorId", at |-> "read"]
    /\ dbRead' = dbId
    /\ UNCHANGED <<workerVars, mClientCallback, cbHeld, gid, cancelAsked,
                   authId, dbId>>
    /\ CallFrame

(* ldata->auth_id = cmd.auth_id.  When the worker has reinitialised the    *)
(* TrustZone app meanwhile (fpc_close frees the fpc_data_t this call       *)
(* holds), the store is a use after free: it lands in the new fpc_data_t  *)
(* if malloc placed it in the same block, or in memory nobody reads.       *)
GetAuthenticatorIdCached ==
    /\ bpc.op = "getAuthenticatorId"
    /\ authId' \in IF bpc.at = "freed" THEN {authId, dbRead} ELSE {dbRead}
    /\ bpc' = NoCall
    /\ dbRead' = 0
    /\ UNCHANGED <<workerVars, mClientCallback, cbHeld, gid, cancelAsked,
                   dbId>>
    /\ CallFrame

(* cancel: mWt.Resume(), SYS_UNKNOWN when it refuses. *)
Cancel ==
    /\ BinderIdle
    /\ W!Resume(Binder)
    /\ cancelAsked' = (cancelAsked \/ (wpc = "run" /\ current \in Ops))
    /\ UNCHANGED <<halVars>>
    /\ BinderFrame

(* The sensor raises its interrupt: a finger touches. *)
FingerEvent ==
    /\ ~irq
    /\ irq' = TRUE
    /\ UNCHANGED <<workerVars, halVars, hs, tries, faults, authVars,
                   ghostVars>>

-----------------------------------------------------------------------------
(* The worker thread *)

HalFrame == UNCHANGED <<platform, bpc, mClientCallback, gid>>

WorkerFrame == HalFrame /\ UNCHANGED <<tries, authVars>>

(* The constructor: fpc_init (fatal on failure), then mWt.Start(). *)
Start ==
    /\ W!Start
    /\ UNCHANGED <<halVars, irq, hs, tries, faults, authVars, ghostVars>>

(* RunThread: consume the request and call the state's handler. *)
Dispatch ==
    /\ W!Consume
    /\ hs' = IF desired \in W!Operations THEN "Init" ELSE "none"
    /\ sessGid' = IF desired \in Ops THEN gid ELSE sessGid
    /\ usedGid' = IF desired \in Ops THEN NoGid ELSE usedGid
    /\ terminals' = 0
    /\ UNCHANGED <<halVars, irq, tries, faults, authVars, cancelAsked>>

(* RunThread: no request within its wait while Idle; run IdleAsync again. *)
IdleAgain ==
    /\ W!IdleTimeout
    /\ hs' = "Init"
    /\ terminals' = 0
    /\ UNCHANGED <<halVars, irq, tries, faults, authVars, sessGid, usedGid,
                   cancelAsked>>

(* The handler returns (releasing mClientCallbackMutex) after n more      *)
(* terminal notifications; RunThread goes back to Idle unless a request   *)
(* waits.                                                                  *)
Leave(n) ==
    /\ W!HandlerReturn
    /\ hs' = "none"
    /\ cbHeld' = FALSE
    /\ terminals' = terminals + n
    /\ cancelAsked' = FALSE

Running(state, s) == current = state /\ wpc = "run" /\ hs = s

(* A TrustZone or device call fails. *)
Fails == faults < MaxFaults /\ faults' = faults + 1

-----------------------------------------------------------------------------
(* IdleAsync *)

(* fpc_navi_supported: false on yoshino and nile. *)
NaviSupported == platform = "tama"

(* Without navigation: WorkHandler::IdleAsync(), which returns.  With it:  *)
(* mWt.isEventAvailable(500) returns on a request; otherwise power on and  *)
(* fpc_navi_enter.                                                         *)
IdleStart ==
    /\ Running("Idle", "Init")
    /\ IF ~NaviSupported \/ W!EventAvailable
         THEN Leave(0) /\ UNCHANGED faults
         ELSE /\ hs' = "Navigate"
              /\ UNCHANGED <<workerVars, cbHeld, faults, terminals,
                             cancelAsked>>
    /\ WorkerFrame
    /\ UNCHANGED <<irq, sessGid, usedGid>>

(* fpc_set_power or fpc_navi_enter fails: power off and return. *)
IdleStartFails ==
    /\ Running("Idle", "Init")
    /\ NaviSupported /\ ~W!EventAvailable
    /\ Fails
    /\ Leave(0)
    /\ WorkerFrame
    /\ UNCHANGED <<irq, sessGid, usedGid>>

(* fpc_navi_poll: while (!is_event_available) NAVIGATION_POLL, clicking   *)
(* gestures and waiting in fpc_poll_event; a request ends it, then        *)
(* fpc_navi_exit and power off.                                            *)
IdleNavigate ==
    /\ Running("Idle", "Navigate")
    /\ \/ /\ W!EventAvailable
          /\ Leave(0)
          /\ UNCHANGED irq
       \/ /\ ~W!EventAvailable /\ irq
          /\ irq' = FALSE
          /\ UNCHANGED <<workerVars, hs, cbHeld, terminals, cancelAsked>>
    /\ WorkerFrame
    /\ UNCHANGED <<faults, sessGid, usedGid>>

(* A NAVIGATION_POLL command or fpc_poll_event fails: exit the poll. *)
IdleNavigateFails ==
    /\ Running("Idle", "Navigate")
    /\ Fails
    /\ Leave(0)
    /\ WorkerFrame
    /\ UNCHANGED <<irq, sessGid, usedGid>>

-----------------------------------------------------------------------------
(* The capture loops of EnrollAsync and AuthenticateAsync *)

(* Mutation: the loops never see the request. *)
CancelNeverSeen == FALSE

(* if (mWt.isEventAvailable()): onError(ERROR_CANCELED) and break. *)
CancelRequested == W!EventAvailable

(* Mutation: ERROR_HW_UNAVAILABLE after every loop. *)
HwUnavailableAlways(failed) == TRUE

(* After the loop: if (status < 0) onError(ERROR_HW_UNAVAILABLE). *)
HwUnavailable(failed) == failed

HwNotices(failed) == IF HwUnavailable(failed) THEN 1 ELSE 0

(* Handler entry: lock mClientCallbackMutex; without a callback return at *)
(* once; otherwise fpc_set_power(FPC_PWRON) and, for enroll,              *)
(* fpc_enroll_start (its failure is only logged); fpc_auth_start is a     *)
(* no-op.                                                                  *)
LoopStart(state) ==
    /\ Running(state, "Init")
    /\ IF mClientCallback
         THEN /\ hs' = "Lost"
              /\ cbHeld' = TRUE
              /\ UNCHANGED <<workerVars, terminals, cancelAsked>>
         ELSE Leave(0)
    /\ WorkerFrame
    /\ UNCHANGED <<irq, faults, sessGid, usedGid>>

(* fpc_set_power fails: onError(ERROR_UNABLE_TO_PROCESS) and return. *)
LoopStartFails(state) ==
    /\ Running(state, "Init")
    /\ mClientCallback
    /\ Fails
    /\ Leave(1)
    /\ WorkerFrame
    /\ UNCHANGED <<irq, sessGid, usedGid>>

EnrollStart == LoopStart("Enroll")
EnrollStartFails == LoopStartFails("Enroll")
AuthStart == LoopStart("Authenticate")
AuthStartFails == LoopStartFails("Authenticate")

(* fpc_poll_event: epoll_wait(-1) on the eventfd and the sensor fd.  The   *)
(* eventfd is returned whenever it is among the ready fds; with neither    *)
(* ready the call blocks (a count of 0 cannot come with timeout -1).  A     *)
(* failing epoll_wait is a failure step.                                   *)
PollEvent ==
    IF W!EventAvailable THEN {"Event"} ELSE IF irq THEN {"Finger"} ELSE {}

(* The results fpc_wait_finger_lost can return without failing: on tama   *)
(* FPC_WAIT_FINGER_LOST and then fpc_poll_event, 1 for a finger event and  *)
(* 0 for the eventfd; elsewhere the TrustZone command alone, 1 when the     *)
(* finger is lost and 0 when something still touches the sensor.           *)
FingerLost ==
    IF platform = "tama" THEN {IF w = "Finger" THEN 1 ELSE 0 : w \in PollEvent}
                         ELSE {0, 1}

(* fpc_wait_finger_down: FPC_WAIT_FINGER_DOWN, then fpc_poll_event; 1 for  *)
(* the finger, 0 for the eventfd.                                          *)
FingerDown == {IF w = "Finger" THEN 1 ELSE 0 : w \in PollEvent}

(* The loop goes on to its next fpc_capture_image. *)
Loops == /\ hs' = "Lost"
         /\ UNCHANGED <<workerVars, cbHeld, terminals, cancelAsked, usedGid>>

(* The loop body of EnrollAsync for a status >= 0: the cancel check, then  *)
(* for a good image fpc_enroll_step, which either reports the touches      *)
(* remaining and loops, or (ret 0) ends with fpc_enroll_end,               *)
(* fpc_store_user_db(db_path) and onEnrollResult(print_id, gid, 0).  Any   *)
(* other status is at most an onAcquired.  FPC_END_ENROL gives the        *)
(* database a new id, and fpc_enroll_end clears ldata->auth_id.            *)
EnrollStatus(good) ==
    \/ /\ CancelRequested
       /\ Leave(1 + HwNotices(FALSE))
       /\ UNCHANGED <<usedGid, authVars>>
    \/ /\ ~CancelRequested
       /\ \/ Loops /\ UNCHANGED authVars
          \/ /\ good
             /\ usedGid' = gid
             /\ Leave(1 + HwNotices(FALSE))
             /\ authId' = 0
             /\ dbId' \in DbIds \ {dbId}
             /\ UNCHANGED dbRead

(* The loop body of AuthenticateAsync: a good image goes to fpc_auth_step; *)
(* a match (fpc_update_template and fpc_store_user_db, their failures      *)
(* logged) reports onAuthenticated(print_id, gid, hat) and breaks; no      *)
(* match or -EAGAIN reports onAuthenticated(0) and loops.                  *)
AuthStatus(good) ==
    /\ \/ /\ CancelRequested
          /\ Leave(1 + HwNotices(FALSE))
          /\ UNCHANGED usedGid
       \/ /\ ~CancelRequested
          /\ \/ Loops
             \/ /\ good
                /\ usedGid' = gid
                /\ Leave(1 + HwNotices(FALSE))
    /\ UNCHANGED authVars

LoopStatus(state, good) ==
    IF state = "Enroll" THEN EnrollStatus(good) ELSE AuthStatus(good)

(* fpc_capture_image up to its finger-down loop: fpc_wait_finger_lost;     *)
(* 0 makes the call return 1000 (after a 40 ms keep_awake), which the      *)
(* loop body only checks for a cancel; otherwise fpc_sensor_wake and the   *)
(* finger-down loop with tries = 0.                                        *)
CaptureLost(state) ==
    /\ Running(state, "Lost")
    /\ \E lost \in FingerLost :
          /\ irq' = (irq /\ ~(platform = "tama" /\ lost = 1))
          /\ IF lost = 1
               THEN /\ hs' = "Down" /\ tries' = 0
                    /\ UNCHANGED <<workerVars, cbHeld, terminals, cancelAsked,
                                   usedGid, authVars>>
               ELSE LoopStatus(state, FALSE) /\ UNCHANGED tries
    /\ HalFrame
    /\ UNCHANGED <<faults, sessGid>>

(* One pass of the finger-down loop: fpc_wait_finger_down; the eventfd    *)
(* returns 1001; a finger is followed by FPC_CAPTURE_IMAGE, whose result 3 *)
(* waits 20 ms and tries again until ++tries > 9 turns it into             *)
(* ACQUIRED_INSUFFICIENT.  Any other result is the call's status (on tama  *)
(* after fpc_deep_sleep, whose rc is only logged).                         *)
CaptureDown(state) ==
    /\ Running(state, "Down")
    /\ \E down \in FingerDown :
          \/ /\ down = 0
             /\ LoopStatus(state, FALSE)
             /\ UNCHANGED <<irq, tries>>
          \/ /\ down = 1
             /\ irq' = FALSE
             /\ \E result \in {"Good", "Three", "Other"} :
                   \/ /\ result = "Three" /\ tries + 1 <= 9
                      /\ tries' = tries + 1
                      /\ UNCHANGED <<workerVars, hs, cbHeld, terminals,
                                     cancelAsked, usedGid, authVars>>
                   \/ /\ result # "Three" \/ tries + 1 > 9
                      /\ LoopStatus(state, result = "Good")
                      /\ UNCHANGED tries
    /\ HalFrame
    /\ UNCHANGED <<faults, sessGid>>

EnrollCaptureLost == CaptureLost("Enroll")
EnrollCaptureDown == CaptureDown("Enroll")
AuthCaptureLost == CaptureLost("Authenticate")
AuthCaptureDown == CaptureDown("Authenticate")

(* fpc_capture_image fails (a TrustZone command, fpc_sensor_wake or        *)
(* epoll_wait): the status < 0 ends the loop, ERROR_HW_UNAVAILABLE.        *)
CaptureFails(state) ==
    /\ current = state /\ wpc = "run" /\ hs \in {"Lost", "Down"}
    /\ Fails
    /\ Leave(HwNotices(TRUE))
    /\ HalFrame
    /\ UNCHANGED <<irq, tries, authVars, sessGid, usedGid>>

(* A good image, then fpc_enroll_step or fpc_enroll_end fails:            *)
(* ERROR_UNABLE_TO_PROCESS and break.                                      *)
EnrollStepFails ==
    /\ Running("Enroll", "Down")
    /\ 1 \in FingerDown
    /\ Fails
    /\ irq' = FALSE
    /\ Leave(1 + HwNotices(FALSE))
    /\ HalFrame
    /\ UNCHANGED <<tries, authVars, sessGid, usedGid>>

(* A good image, then fpc_auth_step fails otherwise than -EAGAIN:         *)
(* fpc_close and fpc_init reinitialise the TrustZone app, then on yoshino  *)
(* __setActiveGroup(gid) and loop, elsewhere status = -1 and break.  The   *)
(* new fpc_data_t starts with auth_id 0 and the app holds a database       *)
(* (reloaded on yoshino, none elsewhere) of any id; a getAuthenticatorId  *)
(* in progress still holds the freed one.                                  *)
AuthStepFails ==
    /\ Running("Authenticate", "Down")
    /\ 1 \in FingerDown
    /\ Fails
    /\ irq' = FALSE
    /\ IF platform = "yoshino"
         THEN Loops
         ELSE Leave(HwNotices(TRUE)) /\ UNCHANGED usedGid
    /\ authId' = 0
    /\ dbId' \in DbIds
    /\ bpc' = IF bpc.op = "getAuthenticatorId" THEN [bpc EXCEPT !.at = "freed"]
                                               ELSE bpc
    /\ UNCHANGED <<platform, mClientCallback, gid, tries, dbRead, sessGid>>

-----------------------------------------------------------------------------

Init ==
    /\ W!WorkerInit
    /\ platform \in Platforms
    /\ bpc = NoCall
    /\ mClientCallback = FALSE
    /\ cbHeld = FALSE
    /\ gid \in Gids      \* uninitialised until setActiveGroup
    /\ irq = FALSE
    /\ hs = "none"
    /\ tries = 0
    /\ faults = 0
    /\ authId = 0 /\ dbId \in DbIds /\ dbRead = 0
    /\ sessGid = NoGid /\ usedGid = NoGid
    /\ terminals = 0 /\ cancelAsked = FALSE

(* New calls of the binder thread: the framework's, unconstrained. *)
BinderCalls ==
    \/ SetNotify \/ Enroll \/ Authenticate \/ Enumerate \/ Remove \/ Cancel
    \/ GetAuthenticatorId
    \/ \E g \in Gids : SetActiveGroup(g)

(* The binder thread inside a call: woken, or running on to its return. *)
BinderRuns ==
    \/ SetNotifyLocked \/ SetActiveGroupPause \/ Paused \/ EnrollVerify
    \/ AuthenticateChallenge \/ WaitReturned \/ EnumerateDone
    \/ RemoveDone \/ SetActiveGroupDone \/ GetAuthenticatorIdCached

WorkerProgress ==
    \/ Start \/ Dispatch \/ IdleAgain \/ IdleStart \/ IdleNavigate
    \/ EnrollStart \/ EnrollCaptureLost \/ EnrollCaptureDown
    \/ AuthStart \/ AuthCaptureLost \/ AuthCaptureDown

WorkerFails ==
    \/ IdleStartFails \/ IdleNavigateFails \/ EnrollStartFails
    \/ CaptureFails("Enroll") \/ EnrollStepFails \/ AuthStartFails
    \/ CaptureFails("Authenticate") \/ AuthStepFails

Next == BinderCalls \/ BinderRuns \/ WorkerProgress \/ WorkerFails
        \/ FingerEvent

(* The worker is scheduled whenever it can run, and a binder thread        *)
(* inside a call is woken when its condition holds and runs on.  New       *)
(* calls, the finger and failures need not happen.                         *)
Spec == Init /\ [][Next]_vars /\ WF_vars(WorkerProgress) /\ WF_vars(BinderRuns)

-----------------------------------------------------------------------------
(* Properties *)

(* The HAL implements the coordinator: its Pause, waitForState and Resume  *)
(* calls are the coordinator's, and the capture and navigation loops keep  *)
(* the cooperative-cancellation promise, so a pending request (a Pause of  *)
(* the next call) is always taken up and the binder never stays blocked.   *)
WorkerRefinement == W!Spec

(* Every run of EnrollAsync or AuthenticateAsync that found a callback     *)
(* ends with exactly one terminal notification (onError, the last          *)
(* onEnrollResult or a matching onAuthenticated), spec.md 7; without one   *)
(* it sends none.                                                          *)
TerminalNotifiedOnce ==
    [][ (wpc = "run" /\ wpc' = "wait" /\ current \in Ops)
          => terminals' = IF mClientCallback THEN 1 ELSE 0 ]_vars

(* Once a HIDL call has returned, the binder holds no pause: every call    *)
(* that paused the worker resumed it or handed it a new state.             *)
NoPauseLeftHeld == bpc = NoCall => cpc[Binder] # "holding"

(* cancel() during an enrollment or authentication ends it (spec.md 8:     *)
(* "mid-enroll, the caller requests Idle; the loop observes the control    *)
(* signal and reports exactly one Cancelled").                             *)
CancelStopsOperation == cancelAsked ~> ~cancelAsked

(* getAuthenticatorId returns the id of the database TrustZone holds: the *)
(* id fpc_load_db_id keeps in ldata->auth_id is still that database's,     *)
(* since fpc_enroll_end and fpc_del_print_id clear it when they change the *)
(* database ("remove the cached auth_id value upon enrolling").            *)
CachedIdCurrent == authId # 0 => authId = dbId

(* An operation reports its result and stores the database for the group  *)
(* that was active when it started.                                        *)
SessionGroupUsed == usedGid \in {NoGid, sessGid}

====
