--------------------------- MODULE MCWorkerRuntime ---------------------------
(* Small instances of WorkerRuntime for TLC. *)
EXTENDS WorkerRuntime, TLC

LightOnly == <<"light">>
TwoLight == <<"light", "light">>
HeavyAndTwoLight == <<"heavy", "light", "light">>

\* One kind whose outcome is announced, with a lease of one time unit, with a
\* retry and without; both lanes, the light one's lease as short as can be.
RetryKinds ==
    [k \in {"response"} |-> [lane |-> "light", lease_seconds |-> 1, retry_in_seconds |-> 1]]

NoRetryKinds ==
    [k \in {"response"} |-> [lane |-> "light", lease_seconds |-> 1, retry_in_seconds |-> NoRetry]]

TwoKinds ==
    [k \in {"response", "refresh"} |->
       IF k = "response"
       THEN [lane |-> "light", lease_seconds |-> 0, retry_in_seconds |-> NoRetry]
       ELSE [lane |-> "heavy", lease_seconds |-> 1, retry_in_seconds |-> 0]]

\* Processes are only ever compared, and all have the same slots and kinds.
ProcSymmetry == Permutations(Procs)

AllRegistered == [p \in Procs |-> Kinds]
=============================================================================
