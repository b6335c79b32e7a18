\* One slot for two tasks and a user who retries failures for ever
\* and pauses, resumes and retries one task at a time, but only when the worker
\* that ran it has unwound; connections need up to two attempts.  Three
\* worker slots: a spawned worker and two threads inside schedule() never wait
\* for one another, as tokio tasks do not.
SPECIFICATION FairSpec
CONSTANTS
  NumTasks = 2
  UI = UI
  Workers = {w1, w2, w3}
  MaxLimit = 1
  DialAttempts = 2
  Isolated = {1}
  Preexisting = {}
  UserOps = {"pauseTask", "resumeTask", "retry", "setMax"}
  AwaitUnwind = TRUE
INVARIANTS PatienceIsSafe
PROPERTIES QueuedIsServed QueueSettles
CHECK_DEADLOCK FALSE
