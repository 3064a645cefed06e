------------------------------- MODULE Worker -------------------------------
(***************************************************************************)
(* The operation coordinator: SynchronizedWorker::Thread                   *)
(* (src/fingerprint/SynchronizedWorkerThread.h).  One dedicated worker     *)
(* thread owns the sensor and runs at most one handler at a time; caller   *)
(* (binder) threads move it between states through a pending request that *)
(* the worker consumes.                                                    *)
(*                                                                         *)
(* The header declares the state enumeration, the two mutexes and the      *)
(* public operations; the implementation file is not part of the           *)
(* repository, so the operations are modelled from the specification       *)
(* (spec.md 4.2) together with the header's comment on its two mutexes:   *)
(* mEventWriterMutex serialises the writers (moveToState, waitForState,    *)
(* Pause, Resume, Stop) and a blocking writer keeps it until it returns.   *)
(*                                                                         *)
(* A handler body is abstract here: it runs and, at some point, returns.   *)
(* Its one promise (cooperative cancellation, spec.md 5) is the fairness   *)
(* condition: once a request is pending, the running handler returns.      *)
(* EgisCurrent.tla replaces the abstract body by the Egistec capture loops *)
(* and shows that they keep this promise.                                  *)
(***************************************************************************)
EXTENDS Naturals, FiniteSets

CONSTANTS
    Callers,     \* caller (binder) threads
    NoRequest,   \* model value: the event fd holds no pending state
    NoCaller     \* model value: nobody holds mEventWriterMutex

ASSUME NoCaller \notin Callers

VARIABLES
    current,     \* currentState: the state the worker has consumed
    desired,     \* desiredState: the pending request, or NoRequest
    wpc,         \* worker thread: "init", "wait", "run" (a handler), "exited"
    cpc,         \* cpc[c]: what caller c is doing (blocked, holding a pause)
    writer,      \* the caller blocked inside a writer, holding mEventWriterMutex
    accepted     \* the worker consumed the blocked writer's request

workerVars == <<current, desired, wpc, cpc, writer, accepted>>

(* AsyncState, SynchronizedWorkerThread.h *)
AsyncState == {"Invalid", "Idle", "Pause", "Authenticate", "Enroll", "Stop"}

(* The states whose consumption dispatches a WorkHandler method. *)
Operations == {"Idle", "Authenticate", "Enroll"}

CallerStates == {"idle", "pausing", "holding", "waiting", "stopping"}

(* The event fd is readable: isEventAvailable() and the multiplexer see it. *)
EventAvailable == desired # NoRequest

(* A caller may issue a call when it is not blocked in one; a caller that  *)
(* holds a pause gives it up with its next call.                           *)
CanCall(c) == cpc[c] \in {"idle", "holding"} /\ writer = NoCaller

Rejected == current \in {"Invalid", "Stop"} \/ desired = "Stop"

WorkerInit ==
    /\ current = "Invalid"
    /\ desired = NoRequest
    /\ wpc = "init"
    /\ cpc = [c \in Callers |-> "idle"]
    /\ writer = NoCaller
    /\ accepted = FALSE

(* Thread::Start: spawn the worker and enter Idle. *)
Start ==
    /\ wpc = "init"
    /\ current' = "Idle"
    /\ wpc' = "wait"
    /\ UNCHANGED <<desired, cpc, writer, accepted>>

(* Thread::moveToState(target): record the request and wake the worker;    *)
(* false once stopping.  Non-blocking.                                      *)
MoveToState(c, target) ==
    /\ CanCall(c)
    /\ current # "Invalid"
    /\ target \in Operations
    /\ desired' = IF Rejected THEN desired ELSE target
    /\ cpc' = [cpc EXCEPT ![c] = "idle"]
    /\ UNCHANGED <<current, wpc, writer, accepted>>

(* Thread::Resume: request Idle; false unless currently paused. *)
Resume(c) ==
    /\ CanCall(c)
    /\ current # "Invalid"
    /\ desired' = IF current = "Pause" /\ ~Rejected THEN "Idle" ELSE desired
    /\ cpc' = [cpc EXCEPT ![c] = "idle"]
    /\ UNCHANGED <<current, wpc, writer, accepted>>

(* Thread::Pause, first half: false when stopping or already paused (the   *)
(* pause another caller holds); otherwise request Pause and block, keeping *)
(* the writer mutex, until the worker has entered it.                      *)
Pause(c) ==
    /\ CanCall(c)
    /\ current # "Invalid"
    /\ IF Rejected \/ current = "Pause"
         THEN /\ cpc' = [cpc EXCEPT ![c] = "idle"]
              /\ UNCHANGED <<desired, writer, accepted>>
         ELSE /\ desired' = "Pause"
              /\ writer' = c
              /\ accepted' = FALSE
              /\ cpc' = [cpc EXCEPT ![c] = "pausing"]
    /\ UNCHANGED <<current, wpc>>

(* Thread::Pause, second half: the worker acknowledged; Pause returns true *)
(* and the caller holds the exclusion until its next call.                 *)
PauseDone(c) ==
    /\ cpc[c] = "pausing"
    /\ current = "Pause"
    /\ cpc' = [cpc EXCEPT ![c] = "holding"]
    /\ writer' = NoCaller
    /\ UNCHANGED <<current, desired, wpc, accepted>>

(* Thread::waitForState(target), first half: record the request and block *)
(* until the worker has begun the handler.                                 *)
WaitForState(c, target) ==
    /\ CanCall(c)
    /\ current # "Invalid"
    /\ target \in Operations
    /\ IF Rejected
         THEN /\ cpc' = [cpc EXCEPT ![c] = "idle"]
              /\ UNCHANGED <<desired, writer, accepted>>
         ELSE /\ desired' = target
              /\ writer' = c
              /\ accepted' = FALSE
              /\ cpc' = [cpc EXCEPT ![c] = "waiting"]
    /\ UNCHANGED <<current, wpc>>

(* waitForState returns true: the worker consumed the request. *)
WaitDone(c) ==
    /\ cpc[c] = "waiting"
    /\ accepted
    /\ cpc' = [cpc EXCEPT ![c] = "idle"]
    /\ writer' = NoCaller
    /\ UNCHANGED <<current, desired, wpc, accepted>>

(* waitForState returns false: the bounded wait elapsed first.  The       *)
(* request stays pending.                                                  *)
WaitTimeout(c) ==
    /\ cpc[c] = "waiting"
    /\ ~accepted
    /\ cpc' = [cpc EXCEPT ![c] = "idle"]
    /\ writer' = NoCaller
    /\ UNCHANGED <<current, desired, wpc, accepted>>

(* Thread::Stop: request Stop, wake the worker and join it. *)
Stop(c) ==
    /\ CanCall(c)
    /\ current # "Invalid"
    /\ wpc # "exited"
    /\ desired # "Stop"
    /\ desired' = "Stop"
    /\ writer' = c
    /\ cpc' = [cpc EXCEPT ![c] = "stopping"]
    /\ UNCHANGED <<current, wpc, accepted>>

StopDone(c) ==
    /\ cpc[c] = "stopping"
    /\ wpc = "exited"
    /\ cpc' = [cpc EXCEPT ![c] = "idle"]
    /\ writer' = NoCaller
    /\ UNCHANGED <<current, desired, wpc, accepted>>

(* Mutation: RunThread does not leave its loop on Stop, so Stop() never   *)
(* joins the thread.                                                       *)
ConsumeStopKeepsRunning ==
    /\ wpc = "wait"
    /\ EventAvailable
    /\ current' = desired
    /\ desired' = NoRequest
    /\ accepted' = (writer # NoCaller)
    /\ wpc' = IF desired \in Operations THEN "run" ELSE "wait"
    /\ UNCHANGED <<cpc, writer>>

(* Thread::consumeState and the dispatch of RunThread: take the pending    *)
(* request, make it current, wake the blocked writer, and run the handler  *)
(* of an operation; Pause runs nothing, Stop ends the thread.             *)
Consume ==
    /\ wpc = "wait"
    /\ EventAvailable
    /\ current' = desired
    /\ desired' = NoRequest
    /\ accepted' = (writer # NoCaller)
    /\ wpc' = CASE desired \in Operations -> "run"
                [] desired = "Stop"       -> "exited"
                [] OTHER                  -> "wait"
    /\ UNCHANGED <<cpc, writer>>

(* RunThread: no request within the idle wait (~500 ms) while Idle: run   *)
(* IdleAsync again.                                                        *)
IdleTimeout ==
    /\ wpc = "wait"
    /\ ~EventAvailable
    /\ current = "Idle"
    /\ wpc' = "run"
    /\ UNCHANGED <<current, desired, cpc, writer, accepted>>

(* RunThread after the handler returned: back to Idle unless a new request *)
(* is already pending.                                                     *)
HandlerReturn ==
    /\ wpc = "run"
    /\ wpc' = "wait"
    /\ current' = IF EventAvailable THEN current ELSE "Idle"
    /\ UNCHANGED <<desired, cpc, writer, accepted>>

CallerNext(c) ==
    \/ \E t \in Operations : MoveToState(c, t) \/ WaitForState(c, t)
    \/ Pause(c) \/ PauseDone(c) \/ Resume(c)
    \/ WaitDone(c) \/ WaitTimeout(c)
    \/ Stop(c) \/ StopDone(c)

WorkerNext == Start \/ Consume \/ IdleTimeout \/ HandlerReturn

Next == WorkerNext \/ \E c \in Callers : CallerNext(c)

(* The worker thread is always scheduled; a blocked caller is woken once  *)
(* its condition holds, and waitForState's wait is bounded, so it returns *)
(* false if nothing else wakes it; a running handler returns once a       *)
(* request is pending (the cooperative-cancellation contract).  Callers   *)
(* are not obliged to call anything.                                       *)
Fairness ==
    /\ WF_workerVars(Start)
    /\ WF_workerVars(Consume)
    /\ WF_workerVars(EventAvailable /\ HandlerReturn)
    /\ \A c \in Callers : WF_workerVars(PauseDone(c))
                          /\ WF_workerVars(WaitDone(c))
                          /\ WF_workerVars(WaitTimeout(c))
                          /\ WF_workerVars(StopDone(c))

Spec == WorkerInit /\ [][Next]_workerVars /\ Fairness

-----------------------------------------------------------------------------

TypeOK ==
    /\ current \in AsyncState
    /\ desired \in AsyncState \cup {NoRequest}
    /\ wpc \in {"init", "wait", "run", "exited"}
    /\ cpc \in [Callers -> CallerStates]
    /\ writer \in Callers \cup {NoCaller}
    /\ accepted \in BOOLEAN

(* No caller blocks forever inside Pause, waitForState or Stop: the worker *)
(* always gets to acknowledge what a blocked writer asked for.             *)
CallersEventuallyReturn ==
    \A c \in Callers :
        cpc[c] \in {"pausing", "waiting", "stopping"} ~> cpc[c] \in {"idle", "holding"}

=============================================================================
