----------------------------- MODULE DataWriter -----------------------------
(***************************************************************************)
(* A DataWriter shared by the threads and futures of an application        *)
(* (dds/with_key/datawriter.rs), the bounded command channel to its RTPS   *)
(* Writer, and the Writer's receiving end (rtps/writer.rs:542).            *)
(*                                                                         *)
(* A task is a thread (blocking calls) or an executor's task (futures).    *)
(* Between taking a sequence number, putting the command into the channel, *)
(* storing the waker and giving the number back, any other task or the     *)
(* event loop may run.  A future is polled when it starts and after its    *)
(* waker was woken, as executors promise; nothing else polls it.           *)
(***************************************************************************)
EXTENDS SequenceNumber, Sequences, FiniteSets

CONSTANTS
    Tasks,
    NoTask,          \* an empty waker slot, nobody waiting
    Applications     \* what the application may be like, see below

AllOps == {"write", "async_write", "dispose", "wait", "async_wait"}

\* An application: its tasks, the operations they use, the capacity of the
\* command channel (16 in the code), the bound on the numbers taken, and
\* whether the event loop may drop the Writer.
ASSUME DataWriterAssumption ==
    /\ NoTask \notin Tasks
    /\ IsFiniteSet(Tasks)
    /\ Applications \subseteq
          [tasks : SUBSET Tasks, ops : SUBSET AllOps, capacity : Nat \ {0},
           numbers : SN, disconnects : BOOLEAN]

VARIABLES
    app,               \* the application, fixed by Init
    available_sequence_number,
    cc_upload,         \* commands in the channel
    cc_upload_waker,   \* the one waker slot DataWriter and Writer share
    connected,         \* the Writer still holds the receiving end
    op, pc, sn,        \* per task: operation, where in it, number taken
    notified,          \* per task: woken since it was last polled
    chan,              \* per task: the status channel of its wait
    status_waker,      \* per task: waker registered in that channel
    result,            \* per task: what its last wait returned
    ack_waiter,        \* Writer: whose wait is pending
    added,             \* Writer: the numbers added to its history, in order
    mine,              \* ghost, per task: numbers it was told are written
    covered            \* ghost, per task: last_seq its wait was checked against

channelVars == <<cc_upload, cc_upload_waker, connected>>
waitVars    == <<chan, status_waker, ack_waiter, covered>>
vars == <<app, available_sequence_number, channelVars, op, pc, sn, notified,
          waitVars, result, added, mine>>

DataCommand(n) == [kind |-> "data", sn |-> n]
WaitCommand(t) == [kind |-> "wait", by |-> t]

TypeOK ==
    /\ app \in Applications
    /\ available_sequence_number \in 1 .. MaxSN + 1
    /\ \A i \in DOMAIN cc_upload :
          cc_upload[i] \in [kind : {"data"}, sn : SN]
                \cup [kind : {"wait"}, by : Tasks \cup {NoTask}]
    /\ Len(cc_upload) <= app.capacity
    /\ cc_upload_waker \in Tasks \cup {NoTask}
    /\ connected \in BOOLEAN
    /\ op \in [Tasks -> AllOps \cup {"none"}]
    /\ pc \in [Tasks -> {"idle", "send", "undo", "full", "asleep", "waiting"}]
    /\ sn \in [Tasks -> 0 .. MaxSN]
    /\ notified \in [Tasks -> BOOLEAN]
    /\ chan \in [Tasks -> {"none", "open", "token", "closed"}]
    /\ status_waker \in [Tasks -> BOOLEAN]
    /\ result \in [Tasks -> {"none", "acked", "timeout", "spurious"}]
    /\ ack_waiter \in Tasks \cup {NoTask}
    /\ added \in Seq(SN)
    /\ mine \in [Tasks -> SUBSET SN]
    /\ covered \in [Tasks -> 0 .. MaxSN]

Init ==
    /\ app \in Applications
    /\ available_sequence_number = 1
    /\ cc_upload = <<>>
    /\ cc_upload_waker = NoTask
    /\ connected = TRUE
    /\ op = [t \in Tasks |-> "none"]
    /\ pc = [t \in Tasks |-> "idle"]
    /\ sn = [t \in Tasks |-> 0]
    /\ notified = [t \in Tasks |-> FALSE]
    /\ chan = [t \in Tasks |-> "none"]
    /\ status_waker = [t \in Tasks |-> FALSE]
    /\ result = [t \in Tasks |-> "none"]
    /\ ack_waiter = NoTask
    /\ added = <<>>
    /\ mine = [t \in Tasks |-> {}]
    /\ covered = [t \in Tasks |-> 0]

Room == connected /\ Len(cc_upload) < app.capacity
Full == connected /\ Len(cc_upload) >= app.capacity

\* HistoryBuffer's last_seq: the largest number added.
last_seq ==
    CHOOSE n \in 0 .. MaxSN :
        /\ n = 0 \/ \E i \in DOMAIN added : added[i] = n
        /\ \A i \in DOMAIN added : added[i] <= n

GoTo(t, where) == pc' = [pc EXCEPT ![t] = where]

\* An operation starts in some poll of its task, which may or may not have
\* been the one that an earlier wake-up caused.
StartedInPoll(t) ==
    notified' = notified \/ notified' = [notified EXCEPT ![t] = FALSE]

-----------------------------------------------------------------------------
(* write, async_write, dispose *)

Writes == {"write", "async_write", "dispose"}

\* next_sequence_number: one atomic fetch_add, before anything is sent.
BeginWrite(t, o) ==
    /\ pc[t] = "idle"
    /\ o \in app.ops \cap Writes
    /\ available_sequence_number <= app.numbers
    /\ op' = [op EXCEPT ![t] = o]
    /\ sn' = [sn EXCEPT ![t] = available_sequence_number]
    /\ available_sequence_number' = available_sequence_number + 1
    /\ GoTo(t, "send")
    /\ StartedInPoll(t)
    /\ UNCHANGED <<channelVars, waitVars, result, added, mine>>

\* Fault: the channel's capacity is not respected.
SendOkUnbounded(t) ==
    /\ pc[t] = "send"
    /\ op[t] \in Writes
    /\ connected
    /\ cc_upload' = Append(cc_upload, DataCommand(sn[t]))
    /\ mine' = [mine EXCEPT ![t] = @ \cup {sn[t]}]
    /\ GoTo(t, "idle")
    /\ UNCHANGED <<available_sequence_number, cc_upload_waker, connected, op,
                   sn, notified, waitVars, result, added>>

\* The command goes into the channel and the call returns Ok.
SendOk(t) ==
    /\ pc[t] = "send"
    /\ op[t] \in Writes
    /\ Room
    /\ cc_upload' = Append(cc_upload, DataCommand(sn[t]))
    /\ mine' = [mine EXCEPT ![t] = @ \cup {sn[t]}]
    /\ GoTo(t, "idle")
    /\ UNCHANGED <<available_sequence_number, cc_upload_waker, connected, op,
                   sn, notified, waitVars, result, added>>

\* Fault: a closed channel is not told from a full one.
SendFailsWhenFull(t) ==
    /\ pc[t] = "send"
    /\ Full /\ op[t] = "write"
    /\ GoTo(t, "undo")
    /\ UNCHANGED <<available_sequence_number, channelVars, op, sn, notified,
                   waitVars, result, added, mine>>

\* The last attempt of try_send_timeout finds the channel full, or the
\* Writer is gone: the number is to be given back.  dispose has no timeout.
SendFails(t) ==
    /\ pc[t] = "send"
    /\ op[t] \in Writes
    /\ ~connected \/ (Full /\ op[t] = "write")
    /\ GoTo(t, "undo")
    /\ UNCHANGED <<available_sequence_number, channelVars, op, sn, notified,
                   waitVars, result, added, mine>>

\* Fault: the number is not given back.
UndoForgotten(t) ==
    /\ pc[t] = "undo"
    /\ GoTo(t, "idle")
    /\ UNCHANGED <<available_sequence_number, channelVars, op, sn, notified,
                   waitVars, result, added, mine>>

\* undo_sequence_number, and the call returns an error.
Undo(t) ==
    /\ pc[t] = "undo"
    /\ available_sequence_number' = available_sequence_number - 1
    /\ GoTo(t, "idle")
    /\ UNCHANGED <<channelVars, op, sn, notified, waitVars, result, added, mine>>

\* AsyncWrite::poll: try_send said Full.
AsyncFull(t) ==
    /\ pc[t] = "send"
    /\ op[t] = "async_write"
    /\ Full
    /\ GoTo(t, "full")
    /\ UNCHANGED <<available_sequence_number, channelVars, op, sn, notified,
                   waitVars, result, added, mine>>

\* AsyncWrite::poll goes on: it stores its waker over any other, then returns
\* Pending, or WouldBlock when its time is up.  No number is given back.
AsyncPark(t) ==
    /\ pc[t] = "full"
    /\ cc_upload_waker' = t
    /\ GoTo(t, "asleep") \/ GoTo(t, "idle")
    /\ UNCHANGED <<available_sequence_number, cc_upload, connected, op, sn,
                   notified, waitVars, result, added, mine>>

-----------------------------------------------------------------------------
(* wait_for_acknowledgments and async_wait_for_acknowledgments *)

\* t stops listening: whatever the Writer makes of its command reaches nobody.
Abandon(t, commands) ==
    [i \in DOMAIN commands |->
        IF commands[i] = WaitCommand(t) THEN WaitCommand(NoTask) ELSE commands[i]]

\* Fault: the wait overtakes the samples in the channel.
BeginWaitUrgent(t) ==
    /\ pc[t] = "idle"
    /\ "wait" \in app.ops
    /\ Room
    /\ op' = [op EXCEPT ![t] = "wait"]
    /\ cc_upload' = <<WaitCommand(t)>> \o cc_upload
    /\ chan' = [chan EXCEPT ![t] = "open"]
    /\ GoTo(t, "waiting")
    /\ UNCHANGED <<available_sequence_number, cc_upload_waker, connected, sn,
                   notified, status_waker, ack_waiter, covered, result, added,
                   mine>>

\* A blocking wait: when the command does not fit, the sender of the status
\* channel is dropped with it.
BeginWait(t) ==
    /\ pc[t] = "idle"
    /\ "wait" \in app.ops
    /\ op' = [op EXCEPT ![t] = "wait"]
    /\ IF Room
       THEN /\ cc_upload' = Append(cc_upload, WaitCommand(t))
            /\ chan' = [chan EXCEPT ![t] = "open"]
       ELSE /\ chan' = [chan EXCEPT ![t] = "closed"]
            /\ UNCHANGED cc_upload
    /\ result' = [result EXCEPT ![t] = "none"]
    /\ GoTo(t, "waiting")
    /\ UNCHANGED <<available_sequence_number, cc_upload_waker, connected, sn,
                   notified, status_waker, ack_waiter, covered, added, mine>>

\* The poll returns: with a token (Ok(true)), because the sender is gone, or
\* because max_wait elapsed (Ok(false) both).
EndWait(t) ==
    /\ pc[t] = "waiting"
    /\ result' = [result EXCEPT ![t] =
                    CASE chan[t] = "token"  -> "acked"
                      [] chan[t] = "closed" -> "spurious"
                      [] chan[t] = "open"   -> "timeout"]
    /\ chan' = [chan EXCEPT ![t] = "none"]
    /\ cc_upload' = Abandon(t, cc_upload)
    /\ ack_waiter' = IF ack_waiter = t THEN NoTask ELSE ack_waiter
    /\ GoTo(t, "idle")
    /\ UNCHANGED <<available_sequence_number, cc_upload_waker, connected, op,
                   sn, notified, status_waker, covered, added, mine>>

\* async_wait_for_acknowledgments makes the future and polls it.
BeginAsyncWait(t) ==
    /\ pc[t] = "idle"
    /\ "async_wait" \in app.ops
    /\ op' = [op EXCEPT ![t] = "async_wait"]
    /\ result' = [result EXCEPT ![t] = "none"]
    /\ GoTo(t, "send")
    /\ StartedInPoll(t)
    /\ UNCHANGED <<available_sequence_number, channelVars, sn, waitVars, added,
                   mine>>

\* poll in WaitingSendCommand: sent or not, Pending without storing a waker.
PollSendWait(t) ==
    /\ pc[t] = "send"
    /\ op[t] = "async_wait"
    /\ chan[t] = "none"
    /\ IF Room
       THEN /\ cc_upload' = Append(cc_upload, WaitCommand(t))
            /\ chan' = [chan EXCEPT ![t] = "open"]
       ELSE UNCHANGED <<cc_upload, chan>>
    /\ IF connected THEN GoTo(t, "asleep") ELSE GoTo(t, "idle")
    /\ UNCHANGED <<available_sequence_number, cc_upload_waker, connected, op,
                   sn, notified, status_waker, ack_waiter, covered, result,
                   added, mine>>

\* poll in Waiting: the status stream registers the waker when it is empty.
PollWaiting(t) ==
    /\ pc[t] = "send"
    /\ op[t] = "async_wait"
    /\ chan[t] # "none"
    /\ IF chan[t] = "open"
       THEN /\ status_waker' = [status_waker EXCEPT ![t] = TRUE]
            /\ GoTo(t, "asleep")
            /\ UNCHANGED <<chan, result>>
       ELSE /\ result' = [result EXCEPT ![t] =
                            IF chan[t] = "token" THEN "acked" ELSE "spurious"]
            /\ chan' = [chan EXCEPT ![t] = "none"]
            /\ GoTo(t, "idle")
            /\ UNCHANGED status_waker
    /\ UNCHANGED <<available_sequence_number, channelVars, op, sn, notified,
                   ack_waiter, covered, added, mine>>

-----------------------------------------------------------------------------
(* The executor *)

\* A woken future is polled again.
Poll(t) ==
    /\ pc[t] = "asleep"
    /\ notified[t]
    /\ notified' = [notified EXCEPT ![t] = FALSE]
    /\ GoTo(t, "send")
    /\ UNCHANGED <<available_sequence_number, channelVars, op, sn, waitVars,
                   result, added, mine>>

-----------------------------------------------------------------------------
(* The Writer's end: process_writer_command, update_ack_waiters *)

\* A sample: its sender's slot is free, so the waker in the slot is woken (it
\* stays there), and the sample joins the history.
ReceiveData ==
    /\ connected
    /\ cc_upload # <<>>
    /\ Head(cc_upload).kind = "data"
    /\ cc_upload' = Tail(cc_upload)
    /\ notified' = [t \in Tasks |-> notified[t] \/ t = cc_upload_waker]
    /\ added' = Append(added, Head(cc_upload).sn)
    /\ UNCHANGED <<available_sequence_number, cc_upload_waker, connected, op,
                   pc, sn, waitVars, result, mine>>

\* A wait: answered at once when every reliable Reader has acknowledged
\* (acked, up to the Readers), else kept.  Either way an earlier wait that is
\* still pending is dropped, and the sender of its status channel with it.
ReceiveWait(acked) ==
    LET t == Head(cc_upload).by
    IN  /\ connected
        /\ cc_upload # <<>>
        /\ Head(cc_upload).kind = "wait"
        /\ cc_upload' = Tail(cc_upload)
        /\ ack_waiter' = IF acked THEN NoTask ELSE t
        /\ chan' = [u \in Tasks |->
                      CASE u = t /\ acked -> "token"
                        [] u = ack_waiter /\ u # t -> "closed"
                        [] OTHER -> chan[u]]
        /\ covered' = [u \in Tasks |-> IF u = t THEN last_seq ELSE covered[u]]
        /\ notified' = [u \in Tasks |->
                          notified[u] \/ (u = t /\ acked /\ status_waker[u])]
        /\ status_waker' = [u \in Tasks |->
                              status_waker[u] /\ ~(u = t /\ acked)]
        /\ UNCHANGED <<available_sequence_number, cc_upload_waker, connected,
                       op, pc, sn, result, added, mine>>

\* The last pending Reader acknowledged: notify_wait_complete.
WaitComplete ==
    /\ connected
    /\ ack_waiter # NoTask
    /\ chan' = [chan EXCEPT ![ack_waiter] = "token"]
    /\ notified' = [t \in Tasks |->
                      notified[t] \/ (t = ack_waiter /\ status_waker[t])]
    /\ status_waker' = [status_waker EXCEPT ![ack_waiter] = FALSE]
    /\ ack_waiter' = NoTask
    /\ UNCHANGED <<available_sequence_number, channelVars, op, pc, sn, result,
                   covered, added, mine>>

\* The Writer is removed: commands and the pending wait are dropped.
Disconnect ==
    /\ app.disconnects
    /\ connected
    /\ connected' = FALSE
    /\ cc_upload' = <<>>
    /\ chan' = [t \in Tasks |-> IF chan[t] = "open" THEN "closed" ELSE chan[t]]
    /\ ack_waiter' = NoTask
    /\ UNCHANGED <<available_sequence_number, cc_upload_waker, op, pc, sn,
                   notified, status_waker, covered, result, added, mine>>

-----------------------------------------------------------------------------

TaskStep(t) ==
    /\ \/ SendOk(t) \/ SendFails(t) \/ Undo(t)
       \/ AsyncFull(t) \/ AsyncPark(t)
       \/ EndWait(t) \/ PollSendWait(t) \/ PollWaiting(t) \/ Poll(t)
    /\ UNCHANGED app

Begin(t) ==
    /\ \/ \E o \in app.ops : BeginWrite(t, o)
       \/ BeginWait(t)
       \/ BeginAsyncWait(t)
    /\ UNCHANGED app

Receive ==
    /\ ReceiveData \/ \E acked \in BOOLEAN : ReceiveWait(acked)
    /\ UNCHANGED app

Next ==
    \/ \E t \in app.tasks : Begin(t) \/ TaskStep(t)
    \/ Receive
    \/ WaitComplete /\ UNCHANGED app
    \/ Disconnect /\ UNCHANGED app

Spec == Init /\ [][Next]_vars

\* The event loop keeps serving the channel; a thread or a future that can
\* run does run (woken futures are polled, poll functions come to an end).
FairSpec ==
    /\ Spec
    /\ WF_vars(Receive)
    /\ \A t \in Tasks : WF_vars(TaskStep(t))

-----------------------------------------------------------------------------

\* Every change has a number of its own: "Uniquely identifies the change"
\* (messages/submessages/data.rs:32), also when several tasks write, time
\* out and give numbers back.
NumbersUnique ==
    \A i, j \in DOMAIN added : i # j => added[i] # added[j]

\* Numbers are unique, and one thread skips none: "Each change gets a consecutive sequence number"
\* (data.rs:33-34), whichever writes time out.
NumbersConsecutive ==
    /\ NumbersUnique
    /\ "async_write" \notin app.ops /\ Cardinality(app.tasks) = 1
        => \A i \in DOMAIN added : added[i] = i

\* A wait for acknowledgments is about everything its caller wrote before:
\* all of it was in the Writer's history, within last_seq, when the wait was
\* looked at (writer.rs:621-660).
WaitCoversOwnWrites ==
    \A t \in Tasks : chan[t] = "token" =>
        \A s \in mine[t] : s <= covered[t] /\ \E i \in DOMAIN added : added[i] = s

\* Every blocking call comes back: none waits for something nobody will do,
\* also when the Writer is dropped under it (datawriter.rs:365-441, 1107-1180).
CallsReturn ==
    \A t \in Tasks :
        (pc[t] # "idle" /\ op[t] \in {"write", "dispose", "wait"})
            ~> pc[t] = "idle"
=============================================================================
