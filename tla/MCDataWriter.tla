---------------------------- MODULE MCDataWriter ----------------------------
(***************************************************************************)
(* Small instances of DataWriter.                                          *)
(***************************************************************************)
EXTENDS DataWriter

CONSTANTS t1, t2    \* model values for the tasks

\* One thread that only makes blocking calls.
OneThread ==
    [tasks |-> {t1}, ops |-> {"write", "dispose", "wait"}, capacity |-> 2,
     numbers |-> 5, disconnects |-> TRUE]

\* Two tasks that poll futures and wait.
TwoFutures ==
    [tasks |-> {t1, t2}, ops |-> {"async_write", "wait", "async_wait"},
     capacity |-> 2, numbers |-> 2, disconnects |-> TRUE]

\* Two threads whose writes may time out.
TwoThreads ==
    [tasks |-> {t1, t2}, ops |-> {"write"}, capacity |-> 1, numbers |-> 4,
     disconnects |-> FALSE]

SoundApplications == {OneThread, TwoFutures}
ThreadApplications == {TwoThreads}

=============================================================================
