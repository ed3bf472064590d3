------------------------- MODULE OverlappedOperation -------------------------
(***************************************************************************)
(* An operation of a socket or a file of cppcoro, that can be cancelled or *)
(* not.  The call that starts it, its completion on an I/O thread and a    *)
(* request to cancel it race, and its state settles which of them resumes  *)
(* the coroutine and which of them may ask the system to cancel it.        *)
(***************************************************************************)
EXTENDS IoTimers

VARIABLES opState,      \* m_state, which only the cancellable kind has
          errorCode,    \* m_errorCode
          kernel        \* what the operating system holds of the operation

opVars == <<opState, errorCode, kernel>>
outside == <<countVars, loopVars, overflow, requested, cancellable, now, dueTime, sharedVars,
             shutDown, threadVars>>

Done(c, e) == <<"done", c, e>>
ErrorCodes == {"success", "failure", "aborted"}

OpInit ==
    /\ opState = [c \in Coros |-> "notStarted"]
    /\ errorCode = [c \in Coros |-> "aborted"]
    /\ kernel = [c \in Coros |-> "idle"]

-----------------------------------------------------------------------------
(* The operation is made and awaited.                                      *)

\* The constructor and await_ready.
AwaitOperation(t, c) ==
    /\ Top(t, c, "overlapped")
    /\ IF cancellable[c] /\ requested
       THEN opState' = [opState EXCEPT ![c] = "completed"] /\ Goto(c, "resumed")
       ELSE Goto(c, "registerOp") /\ UNCHANGED opState
    /\ UNCHANGED <<port, outside, registered, running, errorCode, kernel>>

\* The callback is registered first.  It is called at once when cancellation
\* has been requested since, and finds an operation that is not started yet.
RegisterOperation(t, c) ==
    /\ Top(t, c, "registerOp")
    /\ Goto(c, "start")
    /\ IF ~cancellable[c]
       THEN opState' = [opState EXCEPT ![c] = "started"] /\ UNCHANGED registered
       ELSE IF requested
            THEN opState' = [opState EXCEPT ![c] = "cancellationRequested"] /\ UNCHANGED registered
            ELSE registered' = registered \cup {c} /\ UNCHANGED opState
    /\ UNCHANGED <<port, outside, running, errorCode, kernel>>

\* try_start: done at once, or pending, or done with a packet all the same.
\* Nothing of the operation is used after the call that starts it.
TryStart(t, c) ==
    /\ Top(t, c, "start")
    /\ \/ /\ \E e \in {"success", "failure"} : errorCode' = [errorCode EXCEPT ![c] = e]
          /\ Goto(c, "resumed")
          /\ UNCHANGED kernel
       \/ /\ kernel' = [kernel EXCEPT ![c] = "pending"]
          /\ IF cancellable[c] THEN Goto(c, "flagStarted") ELSE Suspend(t, c, "suspended")
          /\ UNCHANGED errorCode
    /\ UNCHANGED <<port, outside, registered, running, opState>>

\* The operation is announced as started, unless it has completed, or somebody
\* left its cancellation to be done from here.
FlagStarted(t, c) ==
    /\ Top(t, c, "flagStarted")
    /\ \/ /\ opState[c] = "notStarted"
          /\ opState' = [opState EXCEPT ![c] = "started"]
          /\ Suspend(t, c, "suspended")
       \/ /\ opState[c] = "cancellationRequested"
          /\ Goto(c, "cancel") /\ UNCHANGED opState
       \/ /\ opState[c] = "completed"
          /\ Goto(c, "resumed") /\ UNCHANGED opState
    /\ UNCHANGED <<port, outside, registered, running, errorCode, kernel>>

\* CancelIoEx: what is still pending completes as aborted.
CancelIo(c) ==
    IF kernel[c] = "pending"
    THEN kernel' = [kernel EXCEPT ![c] = "packet"] /\ port' = Append(port, Done(c, "aborted"))
    ELSE UNCHANGED <<kernel, port>>

Cancel(t, c) ==
    /\ Top(t, c, "cancel")
    /\ CancelIo(c)
    /\ Goto(c, "flagAgain")
    /\ UNCHANGED <<outside, registered, running, opState, errorCode>>

FlagAgain(t, c) ==
    /\ Top(t, c, "flagAgain")
    /\ \/ /\ opState[c] = "cancellationRequested"
          /\ opState' = [opState EXCEPT ![c] = "started"]
          /\ Suspend(t, c, "suspended")
       \/ /\ opState[c] = "completed"
          /\ Goto(c, "resumed") /\ UNCHANGED opState
    /\ UNCHANGED <<port, outside, registered, running, errorCode, kernel>>

-----------------------------------------------------------------------------
(* Its completion.                                                         *)

KernelCompletes(c) ==
    /\ kernel[c] = "pending"
    /\ kernel' = [kernel EXCEPT ![c] = "packet"]
    /\ \E e \in {"success", "failure"} : port' = Append(port, Done(c, e))
    /\ UNCHANGED <<stackVars, outside, registered, running, opState, errorCode>>

\* Mutant: whoever completes it resumes the coroutine.
OnCompletedAlways(t, c, e) ==
    /\ loop[t] = "wait" /\ port # <<>> /\ Head(port) = Done(c, e)
    /\ port' = Tail(port)
    /\ kernel' = [kernel EXCEPT ![c] = "idle"]
    /\ errorCode' = [errorCode EXCEPT ![c] = e]
    /\ opState' = [opState EXCEPT ![c] = "completed"]
    /\ ResumeOn(t, c, "resumed")
    /\ At(t, "run")
    /\ UNCHANGED <<countVars, mode, batch, overflow, tokenVars, now, dueTime, sharedVars,
                   shutDown, threadVars>>

\* on_operation_completed, on an I/O thread: resumes a coroutine that has
\* suspended, and leaves it to go on by itself when it has not.
OnCompleted(t, c, e) ==
    /\ loop[t] = "wait" /\ port # <<>> /\ Head(port) = Done(c, e)
    /\ port' = Tail(port)
    /\ kernel' = [kernel EXCEPT ![c] = "idle"]
    /\ errorCode' = [errorCode EXCEPT ![c] = e]
    /\ opState' = [opState EXCEPT ![c] = "completed"]
    /\ IF opState[c] = "started" THEN ResumeOn(t, c, "resumed") ELSE UNCHANGED stackVars
    /\ At(t, "run")
    /\ UNCHANGED <<countVars, mode, batch, overflow, tokenVars, now, dueTime, sharedVars,
                   shutDown, threadVars>>

OperationAwait(t, c) ==
    \/ AwaitOperation(t, c) \/ RegisterOperation(t, c) \/ TryStart(t, c)
    \/ FlagStarted(t, c) \/ Cancel(t, c) \/ FlagAgain(t, c)
=============================================================================
