# TLA+ models of the Sony fingerprint HAL

This directory holds TLA+ models of the fingerprint HAL in `src/fingerprint`
(`android.hardware.biometrics.fingerprint@2.1`), together with the TLC
configurations that check them.

## The system

The service (`service.cpp`) creates one HAL and serves it from a binder pool
of **one** thread (`configureRpcThreadpool(1, true)`, line 81). There are
three HALs: FPC, legacy Egistec and current Egistec. Each HAL owns a worker
thread, `SynchronizedWorker::Thread`. The HALs share these parts:

| part | source | role |
|---|---|---|
| Operation coordinator | `SynchronizedWorkerThread.h` | Holds `currentState`/`desiredState` and an eventfd. Binder calls use `moveToState`, `waitForState`, `Pause`, `Resume` and `Stop`. The worker consumes a request and runs `IdleAsync`, `EnrollAsync` or `AuthenticateAsync`. |
| EventMultiplexer | `EventMultiplexer.cpp` | Waits on the control eventfd and the sensor fd. It returns Canceled, Finger or Timeout. |
| Capture loops | `egistec/current/BiometricsFingerprint.cpp` and others | Per-operation state machines: wait for the finger, get an image, identify or enroll, wait for finger-up. Between steps they check for cancellation. |
| Trustlet | `egistec/current/EGISAPTrustlet.cpp`, `QSEETrustlet.cpp` | Commands to the secure world. Return code 99 asks for a sensor reset. |

The binder thread and the worker interact in two places:
- the coordinator's pending request;
- the HAL's member fields (`mGid`, `mNewPrintId`, `mOperationId`, ...). The binder calls write these fields, and the loops read them while they run.

## Modules

**`Worker.tla`** models the coordinator.
- **State.** Variables `current` and `desired` are `currentState` and `desiredState`; `NoRequest` means the eventfd is empty. `wpc` is the worker thread's position. `cpc[c]` says what each caller thread is doing. `writer` is the caller that holds `mEventWriterMutex` while it is blocked.
- **Actions.** There is one action per public operation. A blocking operation has two halves, the request and its completion (`Pause`/`PauseDone`, `WaitForState`/`WaitDone`/`WaitTimeout`, `Stop`/`StopDone`). The worker side is `Consume`, `IdleTimeout` and `HandlerReturn`.
- **Source.** The `.cpp` of the coordinator is not in the repository. The operations are therefore modelled from spec.md §4.2 and the header, and the map marks them `spec_modelled`.
- **Handler bodies.** These are abstract: a handler runs and then returns. Its contract is the fairness condition `WF(EventAvailable /\ HandlerReturn)`: once a request is pending, the handler returns.

**`EgisCurrent.tla`** models the current Egistec HAL on top of the coordinator. It is composed by `W == INSTANCE Worker WITH Callers <- {Binder}`, and its worker variables have the same names.
- **Binder calls.** These are the actions `PreEnroll`, `Enroll`, `PostEnroll`, `Cancel`, `Remove`, `SetActiveGroup` and `Authenticate`. Each is one atomic step, because there is only one binder thread. `Remove` deletes the group's prints one `RemovePrint` at a time and stops at the first failure, so a failing call may leave any strict subset of its targets deleted (`RemovablePrints`).
- **Handlers.** `IdleAsync` is modelled by `IdleSleep`, `IdleNavigate` and `IdleWait`. `AuthenticateAsync` and `EnrollAsync` are modelled by `Auth*` and `Enroll*`, with one action per `switch` case of the loop.
  - Each case action runs from the loop's cancel check through its trustlet calls and notifications, and ends at the `rc == 99` reset at the bottom of the loop.
  - `*Finish` models everything after the loop: the `Finalize*` call, the clear of `mOperationId`, the outcome chain of notifications and the save.
  - `*InitFails` is the early return when `Initialize*` fails.
- **Multiplexer.** `WaitForEvent(timeoutSec)` gives the wakeups that `waitForEvent` may return in the current state:
  - the eventfd has priority;
  - a failing `epoll_wait` reads as Timeout;
  - `1000 * timeoutSec` overflows to a negative number, which means "wait forever" (`EpollWaitsForever`).
- **Trustlet results.** A trustlet command returns 0, an error (1) or 99. A failure spends one unit of the fault budget `MaxFaults`.
- **Environment.** The finger's touch is the environment action `FingerEvent`.
- **Image results and statuses.** The results of the image, identify and enroll commands are chosen nondeterministically from the result classes the code distinguishes (`ImageResults`, `IdentifyStatuses`, `EnrollStatuses`).
- **Ghost variables.** These exist only for the properties:
  - `req`: the parameters of the accepted request;
  - `sess`: the parameters when the worker took up the request;
  - `lastUse`: the group and print or operation id a notification or save last used;
  - `terminals`: the terminal notifications sent in the current run.

**`Fpc.tla`** models the FPC HAL (`BiometricsFingerprint.cpp`) on top of the coordinator, with the capture and navigation code of `fpc_imp_yoshino_nile_tama.c`. It uses the same `INSTANCE` composition as `EgisCurrent`.
- **Binder calls.** These block on the coordinator, so the binder thread has a position, `bpc`: the call it is in and where in it.
  - `Enroll`, `Authenticate`, `Enumerate`, `Remove` and `SetActiveGroupPause` call `Pause()` (`PauseFor`).
  - `Paused` is the return of `Pause()`.
  - `EnrollVerify` and `AuthenticateChallenge` do the TrustZone check and then `waitForState` (`WaitFor`). `WaitReturned` is the return of `waitForState`.
  - `EnumerateDone`, `RemoveDone` and `SetActiveGroupDone` do the paused work and `Resume()`.
  - `SetActiveGroup` writes `gid` and `db_path` before the pause, as the code does.
  - `Cancel` is `Resume()`.
  - `GetAuthenticatorId` and `GetAuthenticatorIdCached` are `fpc_load_db_id` without the pause: when `ldata->auth_id` (`authId`) is 0 the binder reads the id of the database TrustZone holds (`dbId`) into `dbRead`, and a later step stores it in the cache. The worker can run in between. `fpc_enroll_end` (in `EnrollStatus`) and `fpc_del_print_id` (in `RemoveDone`) clear the cache and give the database a new id; `SetActiveGroupDone` loads a database of any id and leaves the cache alone. `AuthStepFails`'s reinitialisation frees the `fpc_data_t` a running `getAuthenticatorId` holds, so its store may land in the new one or nowhere.
  - `SetNotify` blocks (`SetNotifyLocked`) while a loop holds `mClientCallbackMutex` (`cbHeld`).
- **Handlers.**
  - `IdleStart`, `IdleNavigate` and their `*Fails` actions model `IdleAsync`, including `fpc_navi_poll`'s loop until a request arrives.
  - `EnrollStart`/`AuthStart` model the handler entry: the lock, the callback check and power-on.
  - `fpc_capture_image` is two kinds of step. `CaptureLost` is `fpc_wait_finger_lost` (`FingerLost`): on tama a TrustZone wait and then `fpc_poll_event`, elsewhere the TrustZone command alone; a 0 makes the call return 1000. `CaptureDown` is one pass of the finger-down loop: `fpc_wait_finger_down` (`FingerDown`), then `FPC_CAPTURE_IMAGE`, whose result 3 is retried until `++tries > 9` gives ACQUIRED_INSUFFICIENT. `PollEvent` is `common.c`'s `fpc_poll_event`: the eventfd wins whenever it is ready.
  - A step in which the call returns also runs the loop body (`EnrollStatus`/`AuthStatus`): the `isEventAvailable()` cancel check, and for a good image the enroll or identify step, which loops or ends the operation with its result.
  - `*Fails` actions are TrustZone or device failures: `CaptureFails` (status < 0, ERROR_HW_UNAVAILABLE), `EnrollStepFails` (ERROR_UNABLE_TO_PROCESS), and `AuthStepFails`, the reinitialisation after a failed `fpc_auth_step`, which loops on yoshino and gives ERROR_HW_UNAVAILABLE elsewhere.
- **Build.** The build (yoshino, nile, tama) is a variable chosen in `Init`, so one run covers all three.
- **Ghost variables.**
  - `sessGid`/`usedGid`: the group at the start of the operation, and the group its result was reported and stored for;
  - `terminals`: terminal notifications sent by the running handler;
  - `cancelAsked`: a cancel was called while an operation ran.

**`EgisLegacy.tla`** models the legacy Egistec HAL (`egistec/legacy`) on top of the coordinator, composed like the other HALs.
- **The two mutexes.**
  - `bufHeld` is `mBufferMutex` (the trustlet's shared buffer, taken by `GetLockedAPI`). A capture loop takes it after its dispatch, in a step of its own (`TakeBuffer`), so a binder section can still run between the two. It then holds it until its return.
  - `cbHeld` is `mClientCallbackMutex` while `enumerate` holds it across `GetFingerList`.
  - Every `Notify*` takes the callback mutex for one call. So the worker sends each queued notification (`notes`) as a step of its own, `Notify`, which waits while the binder holds that mutex.
- **Binder calls.** Each call that talks to the trustlet is two steps:
  - the call, which waits for the buffer (`BufferCall`);
  - its locked section (`*Done`, `*Locked`).

  `remove` has two sections: the removal, and the new authenticator id. `cancel` is `moveToState(Idle)`. `enroll` stores `mEnrollTimeout` before `CheckAuthToken`, so a call that fails there may leave its timeout behind (`EnrollLocked`).
- **Loops.** One action per pass of each do-while: `EnrollInit`/`EnrollMain`/`EnrollFinalize`/`EnrollAuthId` and `AuthInit`/`AuthMain`/`AuthFinalize`/`AuthFingerWait`. Each pass covers:
  - `CheckAndHandleCancel`;
  - one trustlet command, whose rc class (0, 0x20, 0x27, 0x29, an error) and next step are chosen;
  - `ConvertAndCheckError`, the notifications and the move to the next phase.

  `EnrollFinger`/`AuthFinger` are `HandleMainStep`'s multiplexer wait: the enroll timeout, or none for authenticate.
- **Abstracted data.** Group ids, tokens, the authenticator id and the error codes' values are abstracted away.

**`MCWorker.tla`**, **`MCEgisCurrent.tla`**, **`MCFpc.tla`** and **`MCEgisLegacy.tla`** give the model values and the small sets used by the configurations.

## Runs

| run | cfg | expect | what it shows |
|---|---|---|---|
| worker_two_callers | MCWorker_two.cfg | pass | `CallersEventuallyReturn`: with two callers racing every operation, no caller stays blocked in Pause, waitForState or Stop. |
| egis_current | MCEgisCurrent.cfg | pass | `TypeOK`, `WorkerRefinement` and `EnrollTimesOut`: the Egistec binder calls and capture loops implement `Worker!Spec`, fairness included. So every loop returns once a request is pending, even through sensor resets and retakes, and even when the enroll wait is infinite. And an enrollment nobody touches leaves `EnrollAsync` whenever its timeout is one `epoll_wait` honours: the Timeout flag survives retakes, resets and the SPI-off path until the while condition ends the loop. |
| egis_terminal | MCEgisCurrent_terminal.cfg | violation | `TerminalNotifiedOnce`: a failing trustlet step, followed by a successful `FinalizeEnroll`/`FinalizeIdentify`, ends the loop without a terminal notification (lines 449 and 794). |
| egis_session | MCEgisCurrent_session.cfg | violation | `SessionParamsUsed`: `postEnroll` during a running enrollment makes the loop report progress, and save, under print id -1. |
| egis_enroll_timeout | MCEgisCurrent_timeout.cfg | violation | `EnrollEndsUnlessTouched`: `postEnroll()` while an enrollment is pending or running sets `mEnrollTimeout = -1` (line 139). `EnrollAsync` reads the member at every wait (lines 613, 778), so with no finger the enrollment waits forever and no ERROR_TIMEOUT comes. spec.md §5 says the enroll timeout is enforced. |
| fpc | MCFpc.cfg | pass | `WorkerRefinement` and `TerminalNotifiedOnce`: on every build, the FPC binder calls and loops implement `Worker!Spec`, and every loop that found a callback sends exactly one terminal notification. |
| fpc_pause_leak | MCFpc_pause.cfg | violation | `NoPauseLeftHeld`: `enroll()` with a rejected token (line 124), or `authenticate()` when setting the challenge fails (line 312), returns with the worker still paused. |
| fpc_cancel | MCFpc_cancel.cfg | violation | `CancelStopsOperation`: `cancel()` is `Resume()`, which spec.md §4.2 refuses unless paused. A running operation therefore never sees the cancel (spec gap between §4.2 and §5/§8). |
| fpc_group_race | MCFpc_group.cfg | violation | `SessionGroupUsed`: `setActiveGroup` writes `gid`/`db_path` before it pauses, so a running loop stores the database and reports for the new group. |
| fpc_auth_id | MCFpc_authid.cfg | violation | `CachedIdCurrent`: the id `fpc_load_db_id` caches outlives its database. TLC's shortest trace is `getAuthenticatorId` then `setActiveGroup`, which loads another database without clearing the cache (line 248). An enrollment ending between `getAuthenticatorId`'s TrustZone read and its store (`fpc_imp` line 284) also leaves a stale id. |
| egis_legacy | MCEgisLegacy.cfg | pass | `TerminalAtLeastOnce`: every legacy loop with a callback ends with at least one terminal notification, whichever way it exits (cancel, trustlet error, timeout, no prints, success). `RunCancel` notifies even when the cancel fails. |
| egis_legacy_deadlock | MCEgisLegacy_deadlock.cfg | violation | `NoLockCycle`: `enumerate()` during an enroll or authenticate holds the callback mutex and waits for the buffer. The loop holds the buffer and waits for the callback mutex to notify. No trustlet failure is needed. |

The findings in `PROJECT.json` give the source lines and the counterexample of each violation.

### Bounds

- **Worker.** `worker_two_callers` uses two callers, the case spec.md allows; the HAL modules use the service's one binder thread. The state space is finite without further bounds. With two callers, a second caller's `moveToState` can end a pause that the first holds; the service's one binder thread rules this out, so no run is spent on it.
- **Egistec, one group and one print id.**
  - `PrintCapacity = 1` makes both the "capacity reached" path and the fresh-id path of `GetNewPrintId` reachable.
  - `OpIds = {5}` against the initial 0, and `Challenges = {7}` against 0, tell stale parameters from current ones.
  - The hardware ids {1280, 1536} cover both branches of the no-gesture test.
  - `Percentages = {50, 100}` cover an unfinished and a finished enrollment.
  - `EnrollTimeouts = {60, 2147484}`: 60 s is the framework's value; 2147484 s is the smallest whose `1000 * timeoutSec` wraps negative, an infinite wait. The violation runs use 60 only.
- **Fault budget.** `MaxFaults = 1` lets one trustlet failure (rc 1 or 99) happen anywhere in a behaviour. That is enough for every error path and for the `Finalize*` overwrite.
- **Retake counter.** This counter (`reImaged`, bounded by the code's own `> 6`) is explored in full. The report comes on the eighth consecutive dirty image where spec.md §8 asks for one per seven; that sequential off-by-one is within reach of the unit test spec.md §8 describes, so no run is spent on it.
- **FPC.** The runs use two groups (so the group race is visible) and every build. The passing run allows two failing calls (`MaxFaults = 2`), so a failure can also hit the reinitialised TrustZone app or the next operation after an error exit; it has about 1.1 million states (about 80 s). Two database ids (`DbIds = {1, 2}`) are enough to tell a stale cached id from the current one. The violation runs keep `MaxFaults = 1`, which already reaches each error exit and the paths that leak the pause. The capture retry count `tries` is explored up to the code's own bound: the tenth result 3 of one touch gives ACQUIRED_INSUFFICIENT.
- **Legacy Egistec.** `EnrollTimeouts = {60, 2147484}`, and `MaxFaults = 2` in the passing run (1 in the deadlock run, which needs none). The trustlet's step results range over all the classes the loops tell apart. The passing run has about 69 thousand states. Its cfg turns TLC's deadlock check off, because this HAL really deadlocks. `egis_legacy_deadlock` shows how.
- **Size.** The passing Egistec run takes about 70 s.

### Fairness

- **Worker thread.** This thread is scheduled whenever it can make a step in which nothing fails (`WF_vars(WorkerThread /\ faults' = faults)` in `EgisCurrent`; `WorkerProgress` in `Fpc`). Failing trustlet calls and epoll waits are possible steps. Fairness never forces one: no scheduler makes a call fail so that a blocked loop gets out.
- **Binder caller and finger.** These are the environment. They get no fairness: nobody has to call the HAL or touch the sensor.
- **Blocked writers in `Worker`.** These are woken once their condition holds. `waitForState` has a bounded wait, so `WaitTimeout` is fair too.
- **Why the refinement matters.** In `EgisCurrent`, the abstract fairness of `HandlerReturn` is not assumed. It follows from the loops: every wait on the multiplexer returns Canceled once a request is pending, because the eventfd has priority and every capture step checks for cancellation. The refinement property checks this.

- **`EgisLegacy`.** It has no liveness run and no fairness. Its pass property is a safety property, and its deadlock makes a liveness check report that deadlock first.
- **Failures in `Fpc`.** TrustZone failures are separate actions (`WorkerFails`) with no fairness. A call fails when it fails: the scheduler cannot make it fail so that a blocked loop gets out. The binder thread inside a call (`BinderRuns`) is fair, because a blocked thread is woken once its condition holds and then runs on to its return. New calls are not fair.

## Not modelled (yet)

- **FPC HAL, not as steps.** `preEnroll` and `postEnroll` are not steps: the challenge they set and clear is TrustZone data the model does not keep. Their TrustZone commands, and `getAuthenticatorId`'s, share `ion_sbuffer` with the worker's without a lock; that data race is not modelled, since the commands are abstract. The TrustZone marshalling in `fpc_imp` is out of scope.
- **Legacy Egistec data.** The challenge token that `authenticate()` rewrites before taking the buffer, `mGid`, the authenticator id (-1 when `GetRand64` fails), `ConvertReturnCode`'s values, and the constructor's `Prepare`/`SetMasterKey`. The hazards in `PROJECT.json` list the races on them.
- **Not steps of the current Egistec HAL.** `setNotify` and the read-only `enumerate`/`getAuthenticatorId` are not modelled as steps. The `LOG_ALWAYS_FATAL` paths (which abort the process) are taken as succeeding.
- **Out of scope.** The QSEE library loading, the ion buffers, the keymaster trustlet and `UInput` are I/O with no control of their own.

## Further work

1. **Legacy Egistec data.** Add group and challenge ids to `EgisLegacy`, for the `mGid` race and the `mCurrentChallenge` race, and a ghost for the timeout of the accepted `enroll()`, whose property a failing later call breaks (`EgisOperationLoops.cpp:588`). Each is a violation run of its own. A liveness property of the binder thread would report the `NoLockCycle` deadlock first.
2. **Current Egistec save failure.** A property that a completed enrollment is reported only for a stored print (line 807). The code violates it through one failing `SaveEnrolledPrint`; it needs a run of its own.
3. **FPC TrustZone side calls.** `preEnroll` against a running loop and the reinitialisation (the shared ion buffer, the freed handle).
