-------------------------- MODULE DataWriterProofs --------------------------
(***************************************************************************)
(* The safety of DataWriter for any tasks, applications, channel capacity  *)
(* and numbers: the invariant IInv is inductive and implies the invariants *)
(* that the run checks.                                                    *)
(***************************************************************************)
EXTENDS DataWriter, SequenceTheorems, FiniteSetTheorems, TLAPS

----------------------------------------------------------------------------
(***************************************************************************)
(* The inductive invariant behind the safety of DataWriter.                *)
(*                                                                         *)
(* A task that has taken a number and not yet sent it or given it back is  *)
(* in flight; the counter is always ahead of their number.  A wait travels *)
(* through the channel behind everything its task has written, and its     *)
(* task writes nothing until the wait is over.                             *)
(***************************************************************************)

Command ==
    [kind : {"data"}, sn : SN] \cup [kind : {"wait"}, by : Tasks \cup {NoTask}]

\* t holds a number that is neither in the channel nor given back.
InFlight(t) == op[t] \in Writes /\ pc[t] \in {"send", "undo", "full", "asleep"}

InFlightTasks == {t \in Tasks : InFlight(t)}

\* Where a task is tells what it is doing.
ControlInv ==
    \A t \in Tasks :
        /\ pc[t] # "idle" => t \in app.tasks /\ op[t] \in app.ops
        /\ pc[t] = "send" => op[t] \in Writes \cup {"async_wait"}
        /\ pc[t] = "undo" => op[t] \in Writes
        /\ pc[t] = "full" => op[t] = "async_write"
        /\ pc[t] = "asleep" => op[t] \in {"async_write", "async_wait"}
        /\ pc[t] = "waiting" => op[t] = "wait" /\ chan[t] # "none"
        /\ chan[t] # "none" =>
              \/ pc[t] = "waiting"
              \/ op[t] = "async_wait" /\ pc[t] \in {"send", "asleep"}
        /\ InFlight(t) => sn[t] \in SN

\* Whoever gives a number back has taken one.
CounterInv ==
    Cardinality(InFlightTasks) < available_sequence_number

ChannelInv ==
    /\ cc_upload \in Seq(Command)
    /\ ~connected => cc_upload = <<>> /\ ack_waiter = NoTask

InHistory(s) == \E i \in DOMAIN added : added[i] = s

\* The history has a last number, 0 when it is empty.
IsLast(n) ==
    /\ n = 0 \/ InHistory(n)
    /\ \A i \in DOMAIN added : added[i] <= n

HistoryInv == \E n \in 0 .. MaxSN : IsLast(n)

QueuedBefore(i, s) ==
    \E j \in DOMAIN cc_upload : j < i /\ cc_upload[j] = DataCommand(s)

\* What t wrote was looked at by the wait it was looked at for.
Covered(t) == \A s \in mine[t] : s <= covered[t] /\ InHistory(s)

\* Everything written is in the history or on its way, and a wait comes after.
WaitInv ==
    /\ connected =>
          \A t \in Tasks : \A s \in mine[t] :
              InHistory(s) \/ QueuedBefore(Len(cc_upload) + 1, s)
    /\ \A i \in DOMAIN cc_upload : \A t \in Tasks :
          cc_upload[i] = WaitCommand(t) =>
              /\ chan[t] = "open"
              /\ ack_waiter # t
              /\ \A j \in DOMAIN cc_upload : cc_upload[j] = WaitCommand(t) => j = i
              /\ \A s \in mine[t] : InHistory(s) \/ QueuedBefore(i, s)
    /\ \A t \in Tasks : ack_waiter = t => chan[t] = "open"
    /\ \A t \in Tasks : ack_waiter = t \/ chan[t] = "token" => Covered(t)

-----------------------------------------------------------------------------

\* An application that cannot meet undo_sequence_number's flaw: its writes do
\* not time out, or there is nobody to take a number in between.
SoundApplication ==
    "write" \notin app.ops \/ \A t, u \in app.tasks : t = u

IsData(i) == cc_upload[i].kind = "data"

\* No number is in two places: the history, a place in the channel, or the
\* hands of a task.
HistoryFresh == \A i \in DOMAIN added : added[i] < available_sequence_number

ChannelFresh ==
    \A i \in DOMAIN cc_upload : IsData(i) =>
        /\ cc_upload[i].sn < available_sequence_number
        /\ \A j \in DOMAIN added : added[j] # cc_upload[i].sn
        /\ \A j \in DOMAIN cc_upload :
              IsData(j) /\ i # j => cc_upload[i].sn # cc_upload[j].sn

InFlightFresh ==
    \A t \in InFlightTasks :
        /\ sn[t] < available_sequence_number
        /\ \A j \in DOMAIN added : added[j] # sn[t]
        /\ \A i \in DOMAIN cc_upload : IsData(i) => cc_upload[i].sn # sn[t]
        /\ \A u \in InFlightTasks : t # u => sn[t] # sn[u]
        /\ (\A u \in app.tasks : t = u) => sn[t] = available_sequence_number - 1

\* While the Writer listens, numbers are in one place, and only the task that
\* took the latest number gives one back.
UniqueInv ==
    SoundApplication =>
        /\ NumbersUnique
        /\ connected =>
            /\ HistoryFresh
            /\ ChannelFresh
            /\ InFlightFresh
            /\ \A t \in Tasks : pc[t] = "undo" => "write" \in app.ops

\* One task that abandons no write.
OneWriter == "async_write" \notin app.ops /\ \A t, u \in app.tasks : t = u

\* The first number that is neither in the history nor in the channel.
Unsent ==
    IF InFlightTasks = {} THEN available_sequence_number
    ELSE available_sequence_number - 1

\* While the Writer listens, history and channel hold 1 .. Unsent - 1 in order.
ConsecutiveInv ==
    OneWriter =>
        /\ \A i \in DOMAIN added : added[i] = i
        /\ connected =>
            /\ Len(added) < Unsent
            /\ \A i \in DOMAIN cc_upload : IsData(i) =>
                  /\ Len(added) < cc_upload[i].sn /\ cc_upload[i].sn < Unsent
                  /\ \A j \in DOMAIN cc_upload :
                        IsData(j) /\ i < j => cc_upload[i].sn < cc_upload[j].sn
            /\ \A n \in Len(added) + 1 .. Unsent - 1 :
                  QueuedBefore(Len(cc_upload) + 1, n)

\* The conjunction is inductive: each part needs those before it.
IInv ==
    /\ TypeOK
    /\ ControlInv
    /\ CounterInv
    /\ ChannelInv
    /\ HistoryInv
    /\ WaitInv
    /\ UniqueInv
    /\ ConsecutiveInv

-----------------------------------------------------------------------------
(* Sequences and commands *)

\* What send does to the channel, and add_change to the history.
LEMMA AppendFacts ==
    ASSUME NEW S, NEW q \in Seq(S), NEW e \in S
    PROVE  /\ Append(q, e) \in Seq(S)
           /\ Len(q) \in Nat /\ DOMAIN q = 1 .. Len(q)
           /\ Len(Append(q, e)) = Len(q) + 1
           /\ DOMAIN Append(q, e) = 1 .. Len(q) + 1
           /\ \A i \in DOMAIN q : Append(q, e)[i] = q[i]
           /\ Append(q, e)[Len(q) + 1] = e
BY AppendProperties, LenProperties

\* What the Writer's try_recv does to the channel.
LEMMA TailFacts ==
    ASSUME NEW S, NEW q \in Seq(S), q # <<>>
    PROVE  /\ Tail(q) \in Seq(S)
           /\ Len(q) \in Nat \ {0} /\ DOMAIN q = 1 .. Len(q)
           /\ Len(Tail(q)) = Len(q) - 1
           /\ DOMAIN Tail(q) = 1 .. Len(q) - 1
           /\ \A i \in DOMAIN Tail(q) : Tail(q)[i] = q[i + 1]
           /\ Head(q) = q[1] /\ q[1] \in S
BY HeadTailProperties, LenProperties, EmptySeq, ElementOfSeq

\* The two kinds of commands are told apart.
LEMMA Commands ==
    /\ \A n \in SN : DataCommand(n) \in Command /\ DataCommand(n).kind = "data"
                     /\ DataCommand(n).sn = n
    /\ \A t \in Tasks \cup {NoTask} :
          WaitCommand(t) \in Command /\ WaitCommand(t).kind = "wait"
          /\ WaitCommand(t).by = t
    /\ \A c \in Command :
          /\ c.kind \in {"data", "wait"}
          /\ c.kind = "data" => c.sn \in SN /\ c = DataCommand(c.sn)
          /\ c.kind = "wait" => c.by \in Tasks \cup {NoTask} /\ c = WaitCommand(c.by)
BY DEF Command, DataCommand, WaitCommand

\* A wait that nobody listens to any more changes nothing else in the channel.
LEMMA AbandonFacts ==
    ASSUME NEW t \in Tasks, NEW q \in Seq(Command)
    PROVE  /\ Abandon(t, q) \in Seq(Command)
           /\ Len(Abandon(t, q)) = Len(q)
           /\ DOMAIN Abandon(t, q) = DOMAIN q
           /\ \A i \in DOMAIN q :
                 /\ q[i] = WaitCommand(t) => Abandon(t, q)[i] = WaitCommand(NoTask)
                 /\ q[i] # WaitCommand(t) => Abandon(t, q)[i] = q[i]
<1>1. Len(q) \in Nat /\ DOMAIN q = 1 .. Len(q)  BY LenProperties
<1>2. \A i \in 1 .. Len(q) : q[i] \in Command  BY ElementOfSeq
<1>3. WaitCommand(NoTask) \in Command  BY Commands
<1>4. Abandon(t, q) \in [1 .. Len(q) -> Command]  BY <1>1, <1>2, <1>3 DEF Abandon
<1>5. Abandon(t, q) \in Seq(Command)  BY <1>1, <1>4
<1>6. DOMAIN Abandon(t, q) = DOMAIN q  BY DEF Abandon
<1>7. Len(Abandon(t, q)) = Len(q)  BY <1>1, <1>5, <1>6, LenProperties
<1> QED  BY <1>5, <1>6, <1>7 DEF Abandon

\* last_seq is a number of the history, or 0, and none is larger.
LEMMA LastSeqIsLast ==
    ASSUME HistoryInv
    PROVE  last_seq \in 0 .. MaxSN /\ IsLast(last_seq)
BY DEF HistoryInv, IsLast, InHistory, last_seq

-----------------------------------------------------------------------------
(* What a step that leaves a part of the state alone leaves true *)

\* The numbers in flight can be counted.
LEMMA InFlightFinite ==
    IsFiniteSet(InFlightTasks) /\ Cardinality(InFlightTasks) \in Nat
<1>1. IsFiniteSet(Tasks) /\ InFlightTasks \subseteq Tasks
      BY DataWriterAssumption DEF InFlightTasks
<1> QED  BY <1>1, FS_Subset, FS_CardinalityType

\* The counter stays ahead when nobody takes a number or gives one back.
LEMMA CounterFrame ==
    ASSUME CounterInv, available_sequence_number \in Nat,
           InFlightTasks' \subseteq InFlightTasks, UNCHANGED available_sequence_number
    PROVE  CounterInv'
<1>1. Cardinality(InFlightTasks') <= Cardinality(InFlightTasks)
      BY InFlightFinite, FS_Subset
<1>2. Cardinality(InFlightTasks') \in Nat
      BY InFlightFinite, FS_Subset, FS_CardinalityType
<1> QED  BY <1>1, <1>2, InFlightFinite DEF CounterInv

\* Waits are about the channel, the history and what was written.
LEMMA WaitFrame ==
    ASSUME WaitInv, UNCHANGED <<connected, mine, added, cc_upload, chan, ack_waiter, covered>>
    PROVE  WaitInv'
BY DEF WaitInv, InHistory, QueuedBefore, Covered

\* Numbers stay unique when tasks only leave their operations.
LEMMA UniqueFrame ==
    ASSUME UniqueInv, UNCHANGED <<app, added, connected, cc_upload, sn, available_sequence_number>>,
           InFlightTasks' \subseteq InFlightTasks,
           connected /\ SoundApplication =>
               \A t \in Tasks : pc'[t] = "undo" => pc[t] = "undo" \/ "write" \in app.ops
    PROVE  UniqueInv'
BY DEF UniqueInv, HistoryFresh, ChannelFresh, InFlightFresh, NumbersUnique, IsData,
   SoundApplication

\* Numbers stay consecutive when the same tasks hold a number.
LEMMA ConsecutiveFrame ==
    ASSUME ConsecutiveInv, UNCHANGED <<app, added, connected, cc_upload, available_sequence_number>>,
           InFlightTasks' = InFlightTasks \/ ~OneWriter
    PROVE  ConsecutiveInv'
BY DEF ConsecutiveInv, OneWriter, Unsent, IsData, QueuedBefore

-----------------------------------------------------------------------------
(* Initial states *)

\* Nothing was taken, sent or waited for.
LEMMA InvariantInit == Init => IInv
<1> SUFFICES ASSUME Init PROVE IInv  OBVIOUS
<1> USE DEF Init
<1>1. TypeOK  BY MaxSNAssumption, DataWriterAssumption DEF TypeOK, SN, AllOps
<1>2. ControlInv  BY DEF ControlInv, InFlight
<1>3. CounterInv
      <2>1. InFlightTasks = {}  BY DEF InFlightTasks, InFlight
      <2> QED  BY <2>1, FS_EmptySet DEF CounterInv
<1>4. ChannelInv  BY DEF ChannelInv
<1>5. HistoryInv  BY MaxSNAssumption DEF HistoryInv, IsLast
<1>6. WaitInv  BY DataWriterAssumption DEF WaitInv
<1>7. InFlightTasks = {}  BY DEF InFlightTasks, InFlight
<1>8. UniqueInv
      BY <1>7 DEF UniqueInv, NumbersUnique, HistoryFresh, ChannelFresh, InFlightFresh
<1>9. ConsecutiveInv  BY <1>7 DEF ConsecutiveInv, Unsent
<1> QED  BY <1>1, <1>2, <1>3, <1>4, <1>5, <1>6, <1>8, <1>9 DEF IInv

-----------------------------------------------------------------------------
(* Steps *)

\* What an application may be like.
LEMMA ApplicationFacts ==
    ASSUME TypeOK
    PROVE  /\ app.tasks \subseteq Tasks /\ app.ops \subseteq AllOps
           /\ app.capacity \in Nat \ {0} /\ app.numbers \in SN
BY DataWriterAssumption DEF TypeOK

\* What the channel and the history hold.
LEMMA ChannelFacts ==
    ASSUME TypeOK, ChannelInv
    PROVE  /\ Len(cc_upload) \in Nat /\ DOMAIN cc_upload = 1 .. Len(cc_upload)
           /\ Len(added) \in Nat /\ DOMAIN added = 1 .. Len(added)
           /\ \A i \in DOMAIN added : added[i] \in SN
           /\ \A i \in DOMAIN cc_upload :
                 /\ cc_upload[i] \in Command
                 /\ IsData(i) => /\ cc_upload[i].sn \in SN
                                 /\ cc_upload[i] = DataCommand(cc_upload[i].sn)
                 /\ \A n \in SN : cc_upload[i] = DataCommand(n) =>
                        IsData(i) /\ cc_upload[i].sn = n
                 /\ \A t : cc_upload[i] = WaitCommand(t) => ~IsData(i)
<1>1. cc_upload \in Seq(Command) /\ added \in Seq(SN)  BY DEF TypeOK, ChannelInv
<1>2. /\ Len(cc_upload) \in Nat /\ DOMAIN cc_upload = 1 .. Len(cc_upload)
      /\ Len(added) \in Nat /\ DOMAIN added = 1 .. Len(added)
      BY <1>1, LenProperties
<1>3. /\ \A i \in 1 .. Len(cc_upload) : cc_upload[i] \in Command
      /\ \A i \in 1 .. Len(added) : added[i] \in SN
      BY <1>1, ElementOfSeq
<1>4. \A t : WaitCommand(t).kind = "wait"  BY DEF WaitCommand
<1> QED  BY <1>2, <1>3, <1>4, Commands DEF IsData

\* Commands that are no samples may come, and lose their listener.
LEMMA SameDataFrame ==
    ASSUME IInv, ChannelInv', TypeOK',
           UNCHANGED <<app, added, connected, sn, available_sequence_number>>,
           InFlightTasks' = InFlightTasks,
           \A t \in Tasks : pc'[t] = "undo" => pc[t] = "undo",
           Len(cc_upload') >= Len(cc_upload),
           \A i \in DOMAIN cc_upload :
               i \in DOMAIN cc_upload' /\ (IsData(i) => cc_upload'[i] = cc_upload[i]),
           \A i \in DOMAIN cc_upload' :
               cc_upload'[i].kind = "data" =>
                   i \in DOMAIN cc_upload /\ cc_upload'[i] = cc_upload[i]
    PROVE  UniqueInv' /\ ConsecutiveInv'
<1> USE DEF IInv
<1>1. \A i \in DOMAIN cc_upload' : IsData(i)' =>
          i \in DOMAIN cc_upload /\ IsData(i) /\ cc_upload'[i] = cc_upload[i]
      BY DEF IsData
<1>2. UniqueInv'
      <2> SUFFICES ASSUME SoundApplication, connected PROVE UniqueInv'
          BY DEF UniqueInv, NumbersUnique, SoundApplication
      <2>1. NumbersUnique' /\ HistoryFresh'
            BY DEF UniqueInv, NumbersUnique, HistoryFresh
      <2>2. ChannelFresh'  BY <1>1 DEF UniqueInv, ChannelFresh
      <2>3. InFlightFresh'  BY <1>1 DEF UniqueInv, InFlightFresh
      <2> QED  BY <2>1, <2>2, <2>3 DEF UniqueInv
<1>3. ConsecutiveInv'
      <2> SUFFICES ASSUME OneWriter PROVE ConsecutiveInv'
          BY DEF ConsecutiveInv, OneWriter
      <2>1. Unsent' = Unsent  BY DEF Unsent
      <2>2. ASSUME connected, NEW n \in Len(added) + 1 .. Unsent - 1
            PROVE  QueuedBefore(Len(cc_upload) + 1, n)'
            <3>1. PICK j \in DOMAIN cc_upload : cc_upload[j] = DataCommand(n)
                  BY <2>2 DEF ConsecutiveInv, QueuedBefore
            <3>2. IsData(j)  BY <3>1 DEF IsData, DataCommand
            <3>3. j \in DOMAIN cc_upload' /\ cc_upload'[j] = cc_upload[j]  BY <3>2
            <3>4. j < Len(cc_upload') + 1
                  BY <3>3, LenProperties DEF ChannelInv
            <3> QED  BY <3>1, <3>3, <3>4 DEF QueuedBefore, DataCommand
      <2>3. ASSUME connected
            PROVE  \A i \in DOMAIN cc_upload' : IsData(i)' =>
                     /\ Len(added) < cc_upload'[i].sn /\ cc_upload'[i].sn < Unsent
                     /\ \A j \in DOMAIN cc_upload' :
                           IsData(j)' /\ i < j => cc_upload'[i].sn < cc_upload'[j].sn
            BY <1>1, <2>3 DEF ConsecutiveInv
      <2> QED  BY <2>1, <2>2, <2>3 DEF ConsecutiveInv
<1> QED  BY <1>2, <1>3

\* The command of a wait goes into the channel.
LEMMA WaitQueued ==
    ASSUME IInv, NEW t \in Tasks, Room, chan[t] = "none",
           cc_upload' = Append(cc_upload, WaitCommand(t)),
           chan' = [chan EXCEPT ![t] = "open"],
           UNCHANGED <<app, connected, mine, added, ack_waiter, covered>>
    PROVE  /\ ChannelInv' /\ WaitInv'
           /\ Len(cc_upload') <= app.capacity
           /\ Len(cc_upload') = Len(cc_upload) + 1
           /\ \A i \in DOMAIN cc_upload : i \in DOMAIN cc_upload' /\ cc_upload'[i] = cc_upload[i]
           /\ \A i \in DOMAIN cc_upload' : cc_upload'[i] \in Command /\
                 (cc_upload'[i].kind = "data" =>
                     i \in DOMAIN cc_upload /\ cc_upload'[i] = cc_upload[i])
<1> USE DEF IInv
<1>1. WaitCommand(t) \in Command /\ WaitCommand(t).kind = "wait" /\ cc_upload \in Seq(Command)
      BY Commands DEF ChannelInv
<1>2. /\ cc_upload' \in Seq(Command)
      /\ Len(cc_upload) \in Nat /\ DOMAIN cc_upload = 1 .. Len(cc_upload)
      /\ Len(cc_upload') = Len(cc_upload) + 1
      /\ DOMAIN cc_upload' = 1 .. Len(cc_upload) + 1
      /\ \A i \in DOMAIN cc_upload : cc_upload'[i] = cc_upload[i]
      /\ cc_upload'[Len(cc_upload) + 1] = WaitCommand(t)
      BY <1>1, AppendFacts
<1>3. ChannelInv'  BY <1>2 DEF ChannelInv, Room, Command
<1>4. Len(cc_upload') <= app.capacity
      BY <1>2, ApplicationFacts DEF Room
<1>5. \A i \in DOMAIN cc_upload' :
          i \in DOMAIN cc_upload \/ i = Len(cc_upload) + 1
      BY <1>2
<1>6. \A i \in DOMAIN cc_upload' : cc_upload'[i] \in Command
      BY <1>2, ElementOfSeq, LenProperties
<1>7. \A i, s : QueuedBefore(i, s) => QueuedBefore(i, s)'
      BY <1>2 DEF QueuedBefore, DataCommand
<1>8. ack_waiter # t /\ chan'[t] = "open" /\ \A u \in Tasks : u # t => chan'[u] = chan[u]
      BY DEF WaitInv, TypeOK
<1>9. \A i \in DOMAIN cc_upload : cc_upload[i] # WaitCommand(t)
      BY DEF WaitInv
<1>10. \A u : WaitCommand(u) = WaitCommand(t) => u = t
      <2>1. \A u : WaitCommand(u).by = u  BY DEF WaitCommand
      <2> QED  BY <2>1
<1>11. WaitInv'
      <2>1. ASSUME NEW u \in Tasks, NEW s \in mine[u]
            PROVE  InHistory(s)' \/ QueuedBefore(Len(cc_upload) + 1, s)'
            BY <1>2, <1>7 DEF WaitInv, Room, InHistory, QueuedBefore, DataCommand
      <2>2. ASSUME NEW i \in DOMAIN cc_upload', NEW u \in Tasks, cc_upload'[i] = WaitCommand(u)
            PROVE  /\ chan'[u] = "open" /\ ack_waiter # u
                   /\ \A j \in DOMAIN cc_upload' : cc_upload'[j] = WaitCommand(u) => j = i
                   /\ \A s \in mine[u] : InHistory(s)' \/ QueuedBefore(i, s)'
            <3>1. CASE i = Len(cc_upload) + 1
                  <4>1. u = t  BY <1>2, <1>10, <2>2, <3>1
                  <4>2. ASSUME NEW s \in mine[u] PROVE InHistory(s)' \/ QueuedBefore(i, s)'
                        BY <1>2, <3>1 DEF WaitInv, Room, InHistory, QueuedBefore, DataCommand
                  <4> QED  BY <1>2, <1>5, <1>8, <1>9, <3>1, <4>1, <4>2
            <3>2. CASE i \in DOMAIN cc_upload
                  <4>1. cc_upload[i] = WaitCommand(u)  BY <1>2, <2>2, <3>2
                  <4>2. u # t  BY <1>9, <3>2, <4>1
                  <4>3. ASSUME NEW s \in mine[u] PROVE InHistory(s)' \/ QueuedBefore(i, s)'
                        BY <1>2, <3>2, <4>1 DEF WaitInv, InHistory, QueuedBefore, DataCommand
                  <4>4. \A j \in DOMAIN cc_upload' : cc_upload'[j] = WaitCommand(u) => j = i
                        BY <1>2, <1>5, <1>10, <3>2, <4>1, <4>2 DEF WaitInv
                  <4> QED  BY <1>8, <3>2, <4>1, <4>2, <4>3, <4>4 DEF WaitInv
            <3> QED  BY <1>5, <3>1, <3>2
      <2>3. \A u \in Tasks : /\ ack_waiter = u => chan'[u] = "open"
                             /\ ack_waiter = u \/ chan'[u] = "token" => Covered(u)
            BY <1>8 DEF WaitInv
      <2>4. \A u \in Tasks : Covered(u) => Covered(u)'  BY DEF Covered, InHistory
      <2> QED  BY <1>2, <2>1, <2>2, <2>3, <2>4 DEF WaitInv, WaitCommand
<1>12. \A i \in DOMAIN cc_upload' : cc_upload'[i].kind = "data" => i \in DOMAIN cc_upload
      BY <1>1, <1>2, <1>5
<1> QED  BY <1>2, <1>3, <1>4, <1>6, <1>11, <1>12

\* Steps of a task that neither sends, takes a number nor ends a wait.
LEMMA QuietStep ==
    ASSUME IInv, NEW t \in app.tasks, UNCHANGED app,
           BeginAsyncWait(t) \/ SendFails(t) \/ AsyncFull(t) \/ AsyncPark(t) \/ Poll(t)
    PROVE  IInv'
<1> USE DEF IInv
<1>1. t \in Tasks /\ "async_wait" \in AllOps  BY ApplicationFacts DEF AllOps
<1>2. /\ UNCHANGED <<app, available_sequence_number, cc_upload, connected, sn, added, mine,
                    chan, status_waker, ack_waiter, covered>>
      /\ \A u \in Tasks : u # t => pc'[u] = pc[u] /\ op'[u] = op[u]
      BY <1>1 DEF BeginAsyncWait, SendFails, AsyncFull, AsyncPark, Poll, GoTo,
                  channelVars, waitVars, TypeOK
<1>3. TypeOK'
      <2> USE DEF BeginAsyncWait, SendFails, AsyncFull, AsyncPark, Poll, channelVars
      <2>1. pc' \in [Tasks -> {"idle", "send", "undo", "full", "asleep", "waiting"}]
            <3>1. \E w \in {"idle", "send", "undo", "full", "asleep"} : pc' = [pc EXCEPT ![t] = w]
                  BY DEF GoTo
            <3> QED  BY <1>1, <3>1 DEF TypeOK
      <2>2. op' \in [Tasks -> AllOps \cup {"none"}]  BY <1>1 DEF TypeOK
      <2>3. notified' \in [Tasks -> BOOLEAN]  BY <1>1 DEF TypeOK, StartedInPoll
      <2>4. cc_upload_waker' \in Tasks \cup {NoTask}  BY <1>1 DEF TypeOK
      <2>5. result' \in [Tasks -> {"none", "acked", "timeout", "spurious"}]
            BY <1>1 DEF TypeOK
      <2> QED  BY <1>2, <2>1, <2>2, <2>3, <2>4, <2>5 DEF TypeOK
<1>4. \/ /\ op'[t] = op[t] /\ pc[t] \in {"send", "full", "asleep"}
         /\ \/ pc'[t] \in {"send", "undo", "full", "asleep"}
            \/ pc[t] = "full" /\ pc'[t] = "idle"
      \/ op'[t] = "async_wait" /\ pc[t] = "idle" /\ pc'[t] = "send" /\ "async_wait" \in app.ops
      BY <1>1 DEF BeginAsyncWait, SendFails, AsyncFull, AsyncPark, Poll, GoTo, TypeOK
<1>5. ControlInv'
      BY <1>1, <1>2, <1>4 DEF BeginAsyncWait, SendFails, AsyncFull, AsyncPark, Poll, GoTo, TypeOK,
         ControlInv, InFlight, Writes
<1>6. InFlightTasks' \subseteq InFlightTasks
      BY <1>1, <1>2, <1>4 DEF InFlightTasks, InFlight, Writes
<1>7. CounterInv'  BY <1>2, <1>6, CounterFrame DEF TypeOK
<1>8. ChannelInv' /\ HistoryInv'
      BY <1>2 DEF ChannelInv, Command, HistoryInv, IsLast, InHistory
<1>9. WaitInv'  BY <1>2, WaitFrame
<1>10. UniqueInv'
      <2>1. \A u \in Tasks : pc'[u] = "undo" /\ pc[u] # "undo" => ~connected \/ "write" \in app.ops
            BY <1>1, <1>2, <1>4 DEF BeginAsyncWait, SendFails, AsyncFull, AsyncPark, Poll, GoTo,
               TypeOK, ControlInv
      <2> QED  BY <1>2, <1>6, <2>1, UniqueFrame
<1>11. ConsecutiveInv'
      <2>1. CASE pc[t] = "full"
            BY <1>1, <1>2, <2>1, ConsecutiveFrame DEF ControlInv, OneWriter
      <2>2. CASE pc[t] # "full"
            <3>1. InFlightTasks' = InFlightTasks
                  BY <1>1, <1>2, <1>4, <2>2 DEF InFlightTasks, InFlight, Writes
            <3> QED  BY <1>2, <3>1, ConsecutiveFrame
      <2> QED  BY <2>1, <2>2
<1> QED  BY <1>3, <1>5, <1>7, <1>8, <1>9, <1>10, <1>11

\* A number is taken: it is above every number there is.
LEMMA BeginWriteStep ==
    ASSUME IInv, NEW t \in app.tasks, UNCHANGED app, NEW o, BeginWrite(t, o)
    PROVE  IInv'
<1> USE DEF IInv
<1>1. t \in Tasks /\ o \in AllOps /\ available_sequence_number \in SN
      BY ApplicationFacts, MaxSNAssumption DEF BeginWrite, TypeOK, SN
<1>2. /\ UNCHANGED <<app, cc_upload, cc_upload_waker, connected, added, mine, chan, status_waker,
                    ack_waiter, covered, result>>
      /\ op' = [op EXCEPT ![t] = o] /\ o \in Writes /\ o \in app.ops
      /\ pc[t] = "idle" /\ pc' = [pc EXCEPT ![t] = "send"]
      /\ sn' = [sn EXCEPT ![t] = available_sequence_number]
      /\ available_sequence_number' = available_sequence_number + 1
      BY DEF BeginWrite, GoTo, channelVars, waitVars
<1>3. TypeOK'
      <2>1. notified' \in [Tasks -> BOOLEAN]
            BY <1>1 DEF TypeOK, BeginWrite, StartedInPoll
      <2>2. pc' \in [Tasks -> {"idle", "send", "undo", "full", "asleep", "waiting"}]
            BY <1>1, <1>2 DEF TypeOK
      <2>3. op' \in [Tasks -> AllOps \cup {"none"}]  BY <1>1, <1>2 DEF TypeOK
      <2>4. /\ sn' \in [Tasks -> 0 .. MaxSN]
            /\ available_sequence_number' \in 1 .. MaxSN + 1
            BY <1>1, <1>2, MaxSNAssumption DEF TypeOK, SN
      <2> QED  BY <1>2, <2>1, <2>2, <2>3, <2>4 DEF TypeOK
<1>4. ControlInv'
      BY <1>1, <1>2 DEF TypeOK, ControlInv, InFlight, Writes
<1>5. t \notin InFlightTasks /\ InFlightTasks' = InFlightTasks \cup {t}
      BY <1>1, <1>2 DEF TypeOK, InFlightTasks, InFlight
<1>6. CounterInv'
      <2>1. Cardinality(InFlightTasks') = Cardinality(InFlightTasks) + 1
            BY <1>5, InFlightFinite, FS_AddElement
      <2> QED  BY <1>2, <2>1, InFlightFinite DEF CounterInv, TypeOK
<1>7. ChannelInv' /\ HistoryInv'
      BY <1>2 DEF ChannelInv, Command, HistoryInv, IsLast, InHistory
<1>8. WaitInv'  BY <1>2, WaitFrame
<1>9. sn'[t] = available_sequence_number /\ \A u \in InFlightTasks : sn'[u] = sn[u] /\ u # t
      BY <1>1, <1>2, <1>5 DEF TypeOK, InFlightTasks
<1>10. UniqueInv'
      <2> SUFFICES ASSUME SoundApplication, connected
                   PROVE  UniqueInv'
          BY <1>2 DEF UniqueInv, NumbersUnique, SoundApplication
      <2> USE DEF SN
      <2>1. NumbersUnique /\ HistoryFresh /\ ChannelFresh /\ InFlightFresh
            BY DEF UniqueInv
      <2>2. /\ \A i \in DOMAIN added : added[i] \in SN
            /\ \A i \in DOMAIN cc_upload : IsData(i) => cc_upload[i].sn \in SN
            BY ChannelFacts
      <2>3. \A u \in InFlightTasks : sn[u] \in SN /\ u \in app.tasks
            BY DEF InFlightTasks, InFlight, ControlInv
      <2>4. HistoryFresh'
            BY <1>1, <1>2, <2>1, <2>2 DEF HistoryFresh
      <2>5. ChannelFresh'
            BY <1>1, <1>2, <2>1, <2>2 DEF ChannelFresh, IsData
      <2>6. InFlightFresh'
            <3>1. ASSUME NEW u \in InFlightTasks'
                  PROVE  /\ sn'[u] < available_sequence_number + 1
                         /\ \A j \in DOMAIN added : added[j] # sn'[u]
                         /\ \A i \in DOMAIN cc_upload : IsData(i) => cc_upload[i].sn # sn'[u]
                         /\ u # t => u \in InFlightTasks /\ sn'[u] < available_sequence_number
                         /\ u # t => ~ \A v \in app.tasks : u = v
                  <4>1. CASE u = t
                        BY <4>1, <1>1, <1>9, <2>1, <2>2 DEF HistoryFresh, ChannelFresh
                  <4>2. CASE u # t
                        <5>1. u \in InFlightTasks  BY <4>2, <1>5
                        <5> QED  BY <4>2, <5>1, <1>1, <1>9, <2>1, <2>3 DEF InFlightFresh
                  <4> QED  BY <4>1, <4>2
            <3>2. ASSUME NEW u \in InFlightTasks', NEW v \in InFlightTasks', u # v
                  PROVE  sn'[u] # sn'[v]
                  BY <3>1, <3>2, <1>1, <1>9, <2>1, <2>3 DEF InFlightFresh
            <3> QED  BY <3>1, <3>2, <1>1, <1>2, <1>9 DEF InFlightFresh, IsData
      <2>7. \A u \in Tasks : pc'[u] = "undo" => "write" \in app.ops
            BY <1>1, <1>2 DEF UniqueInv, TypeOK
      <2>8. NumbersUnique'  BY <1>2, <2>1 DEF NumbersUnique
      <2> QED  BY <1>2, <2>4, <2>5, <2>6, <2>7, <2>8 DEF UniqueInv
<1>11. ConsecutiveInv'
      <2> SUFFICES ASSUME OneWriter PROVE ConsecutiveInv'
          BY <1>2 DEF ConsecutiveInv, OneWriter
      <2>1. InFlightTasks = {}
            BY <1>2, <1>5 DEF InFlightTasks, InFlight, ControlInv, OneWriter
      <2>2. Unsent' = Unsent  BY <1>1, <1>2, <1>5, <2>1 DEF Unsent, SN
      <2> QED  BY <1>2, <2>2 DEF ConsecutiveInv, OneWriter, IsData, QueuedBefore
<1> QED  BY <1>3, <1>4, <1>6, <1>7, <1>8, <1>10, <1>11

\* The number goes into the channel, and with it out of its task's hands.
LEMMA SendOkStep ==
    ASSUME IInv, NEW t \in app.tasks, UNCHANGED app, SendOk(t)
    PROVE  IInv'
<1> USE DEF IInv
<1>1. t \in Tasks  BY ApplicationFacts
<1>2. /\ UNCHANGED <<app, available_sequence_number, cc_upload_waker, connected, op, sn, notified,
                    chan, status_waker, ack_waiter, covered, result, added>>
      /\ pc[t] = "send" /\ op[t] \in Writes /\ connected
      /\ Len(cc_upload) < app.capacity
      /\ cc_upload' = Append(cc_upload, DataCommand(sn[t]))
      /\ mine' = [mine EXCEPT ![t] = @ \cup {sn[t]}]
      /\ pc' = [pc EXCEPT ![t] = "idle"]
      BY DEF SendOk, GoTo, Room, waitVars
<1>3. t \in InFlightTasks /\ sn[t] \in SN /\ chan[t] = "none"
      BY <1>1, <1>2 DEF InFlightTasks, InFlight, ControlInv, Writes
<1>4. InFlightTasks' = InFlightTasks \ {t}
      BY <1>1, <1>2 DEF InFlightTasks, InFlight, TypeOK
<1>5. /\ cc_upload' \in Seq(Command)
      /\ Len(cc_upload) \in Nat /\ DOMAIN cc_upload = 1 .. Len(cc_upload)
      /\ Len(cc_upload') = Len(cc_upload) + 1
      /\ DOMAIN cc_upload' = 1 .. Len(cc_upload) + 1
      /\ \A i \in DOMAIN cc_upload : cc_upload'[i] = cc_upload[i]
      /\ cc_upload'[Len(cc_upload) + 1] = DataCommand(sn[t])
      BY <1>2, <1>3, Commands, AppendFacts DEF ChannelInv
<1>6. \A i \in DOMAIN cc_upload' : i \in DOMAIN cc_upload \/ i = Len(cc_upload) + 1
      BY <1>5
<1>7. TypeOK'
      <2>1. \A i \in DOMAIN cc_upload' : cc_upload'[i] \in Command
            BY <1>5, ElementOfSeq, LenProperties
      <2>2. Len(cc_upload') <= app.capacity  BY <1>2, <1>5, ApplicationFacts
      <2>3. pc' \in [Tasks -> {"idle", "send", "undo", "full", "asleep", "waiting"}]
            BY <1>1, <1>2 DEF TypeOK
      <2>4. mine' \in [Tasks -> SUBSET SN]  BY <1>1, <1>2, <1>3 DEF TypeOK
      <2> QED  BY <1>2, <2>1, <2>2, <2>3, <2>4 DEF TypeOK, Command
<1>8. ControlInv'
      BY <1>1, <1>2, <1>3 DEF TypeOK, ControlInv, InFlight, Writes
<1>9. CounterInv'
      BY <1>2, <1>4, CounterFrame DEF TypeOK
<1>10. ChannelInv' /\ HistoryInv'
      <2>1. ChannelInv'  BY <1>2, <1>5 DEF ChannelInv, Command
      <2>2. HistoryInv'  BY <1>2 DEF HistoryInv, IsLast, InHistory
      <2> QED  BY <2>1, <2>2
<1>11. WaitInv'
      <2>1. \A s : InHistory(s)' <=> InHistory(s)  BY <1>2 DEF InHistory
      <2>2. \A u \in Tasks : u # t => mine'[u] = mine[u]  BY <1>1, <1>2 DEF TypeOK
      <2>3. ASSUME NEW u \in Tasks, NEW s \in mine'[u]
            PROVE  InHistory(s)' \/ QueuedBefore(Len(cc_upload) + 1, s)'
            <3>1. CASE s \in mine[u]
                  BY <1>2, <1>5, <3>1 DEF WaitInv, InHistory, QueuedBefore, DataCommand
            <3>2. CASE s \notin mine[u]
                  <4>1. s = sn[t]  BY <1>1, <1>2, <3>2, <2>2 DEF TypeOK
                  <4> QED  BY <1>5, <4>1 DEF QueuedBefore, DataCommand
            <3> QED  BY <3>1, <3>2
      <2>4. ASSUME NEW i \in DOMAIN cc_upload', NEW u \in Tasks, cc_upload'[i] = WaitCommand(u)
            PROVE  /\ chan[u] = "open" /\ ack_waiter # u
                   /\ \A j \in DOMAIN cc_upload' : cc_upload'[j] = WaitCommand(u) => j = i
                   /\ \A s \in mine'[u] : InHistory(s)' \/ QueuedBefore(i, s)'
            <3>1. DataCommand(sn[t]) # WaitCommand(u)  BY <1>3, Commands
            <3>2. i \in DOMAIN cc_upload /\ cc_upload[i] = WaitCommand(u)
                  BY <1>5, <1>6, <2>4, <3>1
            <3>3. chan[u] = "open" /\ ack_waiter # u  BY <3>2 DEF WaitInv
            <3>4. \A j \in DOMAIN cc_upload' : cc_upload'[j] = WaitCommand(u) => j = i
                  BY <1>5, <1>6, <3>1, <3>2 DEF WaitInv
            <3>5. mine'[u] = mine[u]  BY <1>3, <2>2, <3>3
            <3>6. ASSUME NEW s \in mine[u] PROVE InHistory(s)' \/ QueuedBefore(i, s)'
                  BY <1>2, <1>5, <3>2 DEF WaitInv, InHistory, QueuedBefore, DataCommand
            <3> QED  BY <3>3, <3>4, <3>5, <3>6
      <2>5. \A u \in Tasks : ack_waiter = u => chan[u] = "open"
            BY DEF WaitInv
      <2>6. ASSUME NEW u \in Tasks, ack_waiter = u \/ chan[u] = "token" PROVE Covered(u)'
            <3>1. u # t /\ Covered(u)  BY <1>3, <2>6 DEF WaitInv
            <3> QED  BY <1>2, <2>2, <3>1 DEF Covered, InHistory
      <2> QED  BY <1>2, <2>3, <2>4, <2>5, <2>6 DEF WaitInv, WaitCommand
<1>12. cc_upload'[Len(cc_upload) + 1].sn = sn[t]
      BY <1>5 DEF IsData, DataCommand
<1>13. \A i \in DOMAIN cc_upload : (IsData(i)' <=> IsData(i)) /\ cc_upload'[i].sn = cc_upload[i].sn
      BY <1>5 DEF IsData
<1>14. UniqueInv'
      <2> SUFFICES ASSUME SoundApplication PROVE UniqueInv'
          BY <1>2 DEF UniqueInv, SoundApplication
      <2>1. NumbersUnique /\ HistoryFresh /\ ChannelFresh /\ InFlightFresh
            BY <1>2 DEF UniqueInv
      <2>2. NumbersUnique' /\ HistoryFresh'  BY <1>2, <2>1 DEF NumbersUnique, HistoryFresh
      <2>3. ChannelFresh'
            <3> SUFFICES ASSUME NEW i \in DOMAIN cc_upload', IsData(i)'
                         PROVE  /\ cc_upload'[i].sn < available_sequence_number
                                /\ \A j \in DOMAIN added : added[j] # cc_upload'[i].sn
                                /\ \A j \in DOMAIN cc_upload' :
                                     IsData(j)' /\ i # j => cc_upload'[i].sn # cc_upload'[j].sn
                BY <1>2 DEF ChannelFresh
            <3>1. CASE i = Len(cc_upload) + 1
                  BY <1>3, <1>6, <1>12, <1>13, <2>1, <3>1 DEF InFlightFresh
            <3>2. CASE i \in DOMAIN cc_upload
                  BY <1>3, <1>6, <1>12, <1>13, <2>1, <3>2 DEF InFlightFresh, ChannelFresh
            <3> QED  BY <1>6, <3>1, <3>2
      <2>4. InFlightFresh'
            <3> SUFFICES ASSUME NEW u \in InFlightTasks'
                         PROVE  /\ sn[u] < available_sequence_number
                                /\ \A j \in DOMAIN added : added[j] # sn[u]
                                /\ \A i \in DOMAIN cc_upload' : IsData(i)' => cc_upload'[i].sn # sn[u]
                                /\ \A v \in InFlightTasks' : u # v => sn[u] # sn[v]
                                /\ (\A v \in app.tasks : u = v) => sn[u] = available_sequence_number - 1
                BY <1>2 DEF InFlightFresh
            <3>1. u \in InFlightTasks /\ u # t  BY <1>4
            <3>2. ASSUME NEW i \in DOMAIN cc_upload', IsData(i)' PROVE cc_upload'[i].sn # sn[u]
                  BY <1>3, <1>6, <1>12, <1>13, <2>1, <3>1, <3>2 DEF InFlightFresh
            <3> QED  BY <1>4, <2>1, <3>1, <3>2 DEF InFlightFresh
      <2>5. \A u \in Tasks : pc'[u] = "undo" => "write" \in app.ops
            BY <1>1, <1>2 DEF UniqueInv, TypeOK
      <2> QED  BY <1>2, <2>2, <2>3, <2>4, <2>5 DEF UniqueInv
<1>15. ConsecutiveInv'
      <2> SUFFICES ASSUME OneWriter PROVE ConsecutiveInv'
          BY <1>2 DEF ConsecutiveInv, OneWriter
      <2>1. InFlightTasks = {t}
            BY <1>3 DEF InFlightTasks, InFlight, ControlInv, OneWriter
      <2>2. available_sequence_number \in Nat  BY DEF TypeOK
      <2>3. sn[t] = available_sequence_number - 1
            BY <1>2, <2>1 DEF UniqueInv, InFlightFresh, OneWriter, SoundApplication
      <2>4. Unsent = sn[t] /\ Unsent' = sn[t] + 1
            BY <1>2, <1>4, <2>1, <2>2, <2>3 DEF Unsent
      <2>5. sn[t] \in Nat /\ Len(added) \in Nat
            /\ \A i \in DOMAIN cc_upload : IsData(i) => cc_upload[i].sn \in Nat
            BY <1>3, ChannelFacts DEF SN
      <2>6. ASSUME NEW n \in Len(added) + 1 .. Unsent' - 1
            PROVE  QueuedBefore(Len(cc_upload) + 1, n)'
            <3>1. CASE n = sn[t]  BY <1>5, <3>1 DEF QueuedBefore, DataCommand
            <3>2. CASE n # sn[t]
                  <4>1. n \in Len(added) + 1 .. Unsent - 1  BY <2>4, <2>5, <3>2
                  <4> QED  BY <1>2, <1>5, <4>1 DEF ConsecutiveInv, QueuedBefore, DataCommand
            <3> QED  BY <3>1, <3>2
      <2>7. ASSUME NEW i \in DOMAIN cc_upload', IsData(i)'
            PROVE  Len(added) < cc_upload'[i].sn /\ cc_upload'[i].sn < Unsent'
            BY <1>2, <1>6, <1>12, <1>13, <2>4, <2>5, <2>7 DEF ConsecutiveInv
      <2>8. ASSUME NEW i \in DOMAIN cc_upload', IsData(i)',
                   NEW j \in DOMAIN cc_upload', IsData(j)', i < j
            PROVE  cc_upload'[i].sn < cc_upload'[j].sn
            <3>1. i \in DOMAIN cc_upload  BY <1>5, <2>8
            <3> QED  BY <1>2, <1>6, <1>12, <1>13, <2>4, <2>5, <2>8, <3>1 DEF ConsecutiveInv
      <2>9. Len(added) < Unsent'  BY <1>2, <2>4, <2>5 DEF ConsecutiveInv
      <2> QED  BY <1>2, <2>6, <2>7, <2>8, <2>9 DEF ConsecutiveInv
<1> QED  BY <1>7, <1>8, <1>9, <1>10, <1>11, <1>14, <1>15

\* A number is given back: the latest, or to a Writer that is gone.
LEMMA UndoStep ==
    ASSUME IInv, NEW t \in app.tasks, UNCHANGED app, Undo(t)
    PROVE  IInv'
<1> USE DEF IInv
<1>1. t \in Tasks  BY ApplicationFacts
<1>2. /\ UNCHANGED <<app, cc_upload, cc_upload_waker, connected, op, sn, notified,
                    chan, status_waker, ack_waiter, covered, result, added, mine>>
      /\ pc[t] = "undo" /\ pc' = [pc EXCEPT ![t] = "idle"]
      /\ available_sequence_number' = available_sequence_number - 1
      BY DEF Undo, GoTo, waitVars, channelVars
<1>3. t \in InFlightTasks /\ chan[t] = "none" /\ InFlightTasks' = InFlightTasks \ {t}
      BY <1>1, <1>2 DEF InFlightTasks, InFlight, ControlInv, Writes, TypeOK
<1>4. /\ Cardinality(InFlightTasks') = Cardinality(InFlightTasks) - 1
      /\ Cardinality(InFlightTasks') \in Nat
      BY <1>3, InFlightFinite, FS_RemoveElement, FS_CardinalityType
<1>5. available_sequence_number \in 2 .. MaxSN + 1 /\ CounterInv'
      BY <1>2, <1>4, InFlightFinite, MaxSNAssumption DEF CounterInv, TypeOK
<1>6. TypeOK'
      <2>1. pc' \in [Tasks -> {"idle", "send", "undo", "full", "asleep", "waiting"}]
            BY <1>1, <1>2 DEF TypeOK
      <2>2. available_sequence_number' \in 1 .. MaxSN + 1  BY <1>2, <1>5, MaxSNAssumption
      <2> QED  BY <1>2, <2>1, <2>2 DEF TypeOK
<1>7. ControlInv'
      BY <1>1, <1>2, <1>3 DEF TypeOK, ControlInv, InFlight, Writes
<1>8. ChannelInv' /\ HistoryInv'
      BY <1>2 DEF ChannelInv, Command, HistoryInv, IsLast, InHistory
<1>9. WaitInv'  BY <1>2, WaitFrame
<1>10. ASSUME SoundApplication, connected
      PROVE  InFlightTasks = {t} /\ sn[t] = available_sequence_number - 1
      <2>1. \A u, v \in app.tasks : u = v
            BY <1>1, <1>2, <1>10 DEF UniqueInv, SoundApplication
      <2>2. InFlightTasks = {t}
            BY <1>3, <2>1 DEF InFlightTasks, InFlight, ControlInv
      <2> QED  BY <1>10, <2>1, <2>2 DEF UniqueInv, InFlightFresh
<1>11. UniqueInv'
      <2> SUFFICES ASSUME SoundApplication, connected PROVE UniqueInv'
          BY <1>2 DEF UniqueInv, NumbersUnique, SoundApplication
      <2>1. NumbersUnique /\ HistoryFresh /\ ChannelFresh /\ InFlightFresh
            BY DEF UniqueInv
      <2>2. InFlightTasks' = {}  BY <1>3, <1>10
      <2>3. InFlightFresh'  BY <2>2 DEF InFlightFresh
      <2>4. available_sequence_number \in Nat
            /\ (\A i \in DOMAIN added : added[i] \in Nat)
            /\ \A i \in DOMAIN cc_upload : IsData(i) => cc_upload[i].sn \in Nat
            BY <1>5, ChannelFacts, MaxSNAssumption DEF SN
      <2>5. HistoryFresh'
            BY <1>2, <1>10, <2>1, <2>4 DEF HistoryFresh, InFlightFresh
      <2>6. ChannelFresh'
            BY <1>2, <1>10, <2>1, <2>4 DEF ChannelFresh, InFlightFresh, IsData
      <2>7. NumbersUnique'  BY <1>2, <2>1 DEF NumbersUnique
      <2>8. \A u \in Tasks : pc'[u] = "undo" => "write" \in app.ops
            BY <1>1, <1>2 DEF UniqueInv, TypeOK
      <2> QED  BY <1>2, <2>3, <2>5, <2>6, <2>7, <2>8 DEF UniqueInv
<1>12. ConsecutiveInv'
      <2> SUFFICES ASSUME OneWriter, connected PROVE ConsecutiveInv'
          BY <1>2 DEF ConsecutiveInv, OneWriter
      <2>1. SoundApplication  BY DEF SoundApplication, OneWriter
      <2>2. InFlightTasks = {t} /\ InFlightTasks' = {}  BY <1>3, <1>10, <2>1
      <2>3. Unsent' = Unsent  BY <1>2, <2>2 DEF Unsent
      <2> QED  BY <1>2, <2>3 DEF ConsecutiveInv, OneWriter, IsData, QueuedBefore
<1> QED  BY <1>5, <1>6, <1>7, <1>8, <1>9, <1>11, <1>12

\* A wait begins: its command goes behind all that its task has written.
LEMMA BeginWaitStep ==
    ASSUME IInv, NEW t \in app.tasks, UNCHANGED app, BeginWait(t) \/ PollSendWait(t)
    PROVE  IInv'
<1> USE DEF IInv
<1>1. t \in Tasks /\ "wait" \in AllOps  BY ApplicationFacts DEF AllOps
<1>2. /\ UNCHANGED <<app, available_sequence_number, cc_upload_waker, connected, sn, notified,
                    status_waker, ack_waiter, covered, added, mine>>
      /\ \A u \in Tasks : u # t => pc'[u] = pc[u] /\ op'[u] = op[u]
      BY <1>1 DEF BeginWait, PollSendWait, GoTo, TypeOK
<1>3. /\ chan[t] = "none" /\ chan' \in [Tasks -> {"none", "open", "token", "closed"}]
      /\ \A u \in Tasks : u # t => chan'[u] = chan[u]
      /\ \/ Room /\ cc_upload' = Append(cc_upload, WaitCommand(t))
                 /\ chan' = [chan EXCEPT ![t] = "open"]
         \/ cc_upload' = cc_upload /\ chan'[t] \in {"none", "closed"}
      <2>1. CASE BeginWait(t)
            <3>1. pc[t] = "idle" /\ chan[t] = "none"
                  BY <1>1, <2>1 DEF BeginWait, ControlInv
            <3> QED  BY <1>1, <2>1, <3>1 DEF BeginWait, TypeOK
      <2>2. CASE PollSendWait(t)  BY <1>1, <2>2 DEF PollSendWait, TypeOK
      <2> QED  BY <2>1, <2>2
<1>4. \/ op'[t] = "wait" /\ "wait" \in app.ops /\ pc[t] = "idle" /\ pc'[t] = "waiting" /\ chan'[t] # "none"
      \/ /\ op'[t] = "async_wait" /\ op[t] = "async_wait" /\ pc[t] = "send"
         /\ pc'[t] = "asleep" \/ (pc'[t] = "idle" /\ chan'[t] = "none")
      <2>1. CASE BeginWait(t)  BY <1>1, <2>1 DEF BeginWait, GoTo, TypeOK
      <2>2. CASE PollSendWait(t)  BY <1>1, <2>2 DEF PollSendWait, GoTo, TypeOK, Room
      <2> QED  BY <2>1, <2>2
<1>5. \A u \in Tasks : ~InFlight(t) /\ ~InFlight(t)' /\ (u # t => (InFlight(u)' <=> InFlight(u)))
      BY <1>1, <1>2, <1>4 DEF InFlight, Writes
<1>6. InFlightTasks' = InFlightTasks  BY <1>5 DEF InFlightTasks
<1>7. ControlInv'
      BY <1>1, <1>2, <1>3, <1>4, <1>5 DEF ControlInv, Writes, Room
<1>8. CounterInv'  BY <1>2, <1>6, CounterFrame DEF TypeOK
<1>9. HistoryInv'  BY <1>2 DEF HistoryInv, IsLast, InHistory
<1>10. /\ pc' \in [Tasks -> {"idle", "send", "undo", "full", "asleep", "waiting"}]
       /\ op' \in [Tasks -> AllOps \cup {"none"}]
       /\ result' \in [Tasks -> {"none", "acked", "timeout", "spurious"}]
      <2>1. CASE BeginWait(t)  BY <1>1, <2>1 DEF BeginWait, GoTo, TypeOK
      <2>2. CASE PollSendWait(t)  BY <1>1, <2>2 DEF PollSendWait, GoTo, TypeOK
      <2> QED  BY <2>1, <2>2
<1>11. \A u \in Tasks : pc'[u] = "undo" => pc[u] = "undo"
      BY <1>2, <1>4
<1>12. CASE Room /\ cc_upload' = Append(cc_upload, WaitCommand(t))
                 /\ chan' = [chan EXCEPT ![t] = "open"]
      <2>1. /\ ChannelInv' /\ WaitInv'
            /\ Len(cc_upload') <= app.capacity
            /\ Len(cc_upload') = Len(cc_upload) + 1
            /\ \A i \in DOMAIN cc_upload :
                  i \in DOMAIN cc_upload' /\ cc_upload'[i] = cc_upload[i]
            /\ \A i \in DOMAIN cc_upload' : cc_upload'[i] \in Command /\
                 (cc_upload'[i].kind = "data" =>
                     i \in DOMAIN cc_upload /\ cc_upload'[i] = cc_upload[i])
            BY <1>1, <1>2, <1>3, <1>12, WaitQueued
      <2>2. TypeOK'  BY <1>2, <1>3, <1>10, <2>1 DEF TypeOK, Command
      <2>3. Len(cc_upload') >= Len(cc_upload)  BY <2>1, ChannelFacts
      <2>4. UniqueInv' /\ ConsecutiveInv'
            BY <1>2, <1>6, <1>11, <2>1, <2>2, <2>3, SameDataFrame
      <2> QED  BY <1>7, <1>8, <1>9, <2>1, <2>2, <2>4
<1>13. CASE cc_upload' = cc_upload /\ chan'[t] \in {"none", "closed"}
      <2>1. TypeOK'  BY <1>2, <1>3, <1>10, <1>13 DEF TypeOK
      <2>2. ChannelInv'  BY <1>2, <1>13 DEF ChannelInv, Command
      <2>3. UniqueInv'  BY <1>2, <1>6, <1>11, <1>13, UniqueFrame
      <2>4. ConsecutiveInv'  BY <1>2, <1>6, <1>13, ConsecutiveFrame
      <2>5. WaitInv'
            <3>1. \A i, s : QueuedBefore(i, s)' <=> QueuedBefore(i, s)
                  BY <1>13 DEF QueuedBefore, DataCommand
            <3>2. \A s : InHistory(s)' <=> InHistory(s)  BY <1>2 DEF InHistory
            <3>3. \A u : Covered(u)' <=> Covered(u)  BY <1>2 DEF Covered, InHistory
            <3>4. \A u \in Tasks : chan[u] \in {"open", "token"} => chan'[u] = chan[u]
                  BY <1>3
            <3>5. \A u \in Tasks : chan'[u] = "token" => chan[u] = "token"
                  BY <1>3, <1>13
            <3>6. ASSUME NEW i \in DOMAIN cc_upload, NEW u \in Tasks, cc_upload[i] = WaitCommand(u)
                  PROVE  /\ chan'[u] = "open" /\ ack_waiter # u
                         /\ \A j \in DOMAIN cc_upload : cc_upload[j] = WaitCommand(u) => j = i
                         /\ \A s \in mine[u] : InHistory(s)' \/ QueuedBefore(i, s)'
                  BY <3>1, <3>2, <3>4, <3>6 DEF WaitInv
            <3>7. ASSUME connected, NEW u \in Tasks, NEW s \in mine[u]
                  PROVE  InHistory(s)' \/ QueuedBefore(Len(cc_upload) + 1, s)'
                  BY <1>2, <1>13, <3>7 DEF WaitInv, InHistory, QueuedBefore, DataCommand
            <3>8. \A u \in Tasks : /\ ack_waiter = u => chan'[u] = "open"
                                   /\ ack_waiter = u \/ chan'[u] = "token" => Covered(u)'
                  BY <3>3, <3>4, <3>5 DEF WaitInv
            <3> QED  BY <1>2, <1>13, <3>6, <3>7, <3>8 DEF WaitInv, WaitCommand
      <2> QED  BY <1>7, <1>8, <1>9, <2>1, <2>2, <2>3, <2>4, <2>5
<1> QED  BY <1>3, <1>12, <1>13

\* A wait is over: nobody listens to what the Writer makes of it.
LEMMA EndWaitStep ==
    ASSUME IInv, NEW t \in app.tasks, UNCHANGED app, EndWait(t)
    PROVE  IInv'
<1> USE DEF IInv
<1>1. t \in Tasks  BY ApplicationFacts
<1>2. /\ UNCHANGED <<app, available_sequence_number, cc_upload_waker, connected, op, sn, notified,
                    status_waker, covered, added, mine>>
      /\ pc[t] = "waiting" /\ op[t] = "wait" /\ chan[t] \in {"token", "closed", "open"}
      /\ pc' = [pc EXCEPT ![t] = "idle"]
      /\ chan' = [chan EXCEPT ![t] = "none"]
      /\ cc_upload' = Abandon(t, cc_upload)
      /\ ack_waiter' = IF ack_waiter = t THEN NoTask ELSE ack_waiter
      BY <1>1 DEF EndWait, GoTo, TypeOK, ControlInv
<1>3. result' \in [Tasks -> {"none", "acked", "timeout", "spurious"}]
      BY <1>1, <1>2 DEF EndWait, TypeOK
<1>4. /\ cc_upload' \in Seq(Command)
      /\ Len(cc_upload') = Len(cc_upload)
      /\ DOMAIN cc_upload' = DOMAIN cc_upload
      /\ \A i \in DOMAIN cc_upload :
            /\ cc_upload[i] = WaitCommand(t) => cc_upload'[i] = WaitCommand(NoTask)
            /\ cc_upload[i] # WaitCommand(t) => cc_upload'[i] = cc_upload[i]
      BY <1>1, <1>2, AbandonFacts DEF ChannelInv
<1>5. TypeOK'
      <2>1. \A i \in DOMAIN cc_upload' : cc_upload'[i] \in Command
            BY <1>4, ElementOfSeq, LenProperties
      <2>2. pc' \in [Tasks -> {"idle", "send", "undo", "full", "asleep", "waiting"}]
            /\ chan' \in [Tasks -> {"none", "open", "token", "closed"}]
            BY <1>1, <1>2 DEF TypeOK
      <2>3. ack_waiter' \in Tasks \cup {NoTask}  BY <1>2 DEF TypeOK
      <2> QED  BY <1>2, <1>3, <1>4, <2>1, <2>2, <2>3 DEF TypeOK, Command
<1>6. InFlightTasks' = InFlightTasks
      BY <1>1, <1>2 DEF InFlightTasks, InFlight, TypeOK
<1>7. ControlInv'
      BY <1>1, <1>2 DEF TypeOK, ControlInv, InFlight, Writes
<1>8. CounterInv'  BY <1>2, <1>6, CounterFrame DEF TypeOK
<1>9. ChannelInv'
      <2>1. ~connected => cc_upload' = <<>>
            BY <1>4, EmptySeq, LenProperties DEF ChannelInv
      <2> QED  BY <1>2, <1>4, <2>1 DEF ChannelInv, Command
<1>10. HistoryInv'  BY <1>2 DEF HistoryInv, IsLast, InHistory
<1>11. UniqueInv' /\ ConsecutiveInv'
      <2>1. \A i \in DOMAIN cc_upload : IsData(i) => cc_upload'[i] = cc_upload[i]
            BY <1>4, ChannelFacts
      <2>2. \A i \in DOMAIN cc_upload' : cc_upload'[i].kind = "data" => cc_upload'[i] = cc_upload[i]
            BY <1>4, Commands
      <2>3. Len(cc_upload') >= Len(cc_upload)  BY <1>4, ChannelFacts
      <2>4. \A u \in Tasks : pc'[u] = "undo" => pc[u] = "undo"
            BY <1>1, <1>2 DEF TypeOK
      <2> QED  BY <1>2, <1>4, <1>5, <1>6, <1>9, <2>1, <2>2, <2>3, <2>4, SameDataFrame
<1>12. WaitInv'
      <2>1. \A i \in DOMAIN cc_upload : \A u \in Tasks :
               cc_upload'[i] = WaitCommand(u) => u # t /\ cc_upload[i] = WaitCommand(u)
            <3>1. \A u \in Tasks : WaitCommand(NoTask) # WaitCommand(u)
                  BY Commands, DataWriterAssumption
            <3> QED  BY <1>4, <3>1
      <2>2. \A i \in DOMAIN cc_upload : \A s :
               cc_upload[i] = DataCommand(s) => cc_upload'[i] = DataCommand(s)
            <3>1. \A s : DataCommand(s) # WaitCommand(t)
                  <4>1. \A s : DataCommand(s).kind = "data"  BY DEF DataCommand
                  <4>2. WaitCommand(t).kind = "wait"  BY DEF WaitCommand
                  <4> QED  BY <4>1, <4>2
            <3> QED  BY <1>4, <3>1
      <2>3. \A i, s : QueuedBefore(i, s) => QueuedBefore(i, s)'
            BY <1>4, <2>2 DEF QueuedBefore, DataCommand
      <2>4. \A s : InHistory(s)' <=> InHistory(s)  BY <1>2 DEF InHistory
      <2>5. \A u : Covered(u)' <=> Covered(u)  BY <1>2 DEF Covered, InHistory
      <2>6. \A u \in Tasks : u # t => chan'[u] = chan[u]  BY <1>1, <1>2 DEF TypeOK
      <2>7. chan'[t] = "none"  BY <1>1, <1>2 DEF TypeOK
      <2>8. \A u \in Tasks : ack_waiter' = u => ack_waiter = u /\ u # t
            BY <1>2, DataWriterAssumption
      <2>9. ASSUME NEW i \in DOMAIN cc_upload', NEW u \in Tasks, cc_upload'[i] = WaitCommand(u)
            PROVE  /\ chan'[u] = "open" /\ ack_waiter' # u
                   /\ \A j \in DOMAIN cc_upload' : cc_upload'[j] = WaitCommand(u) => j = i
                   /\ \A s \in mine[u] : InHistory(s)' \/ QueuedBefore(i, s)'
            BY <1>4, <2>1, <2>3, <2>4, <2>6, <2>8, <2>9 DEF WaitInv
      <2>10. ASSUME connected, NEW u \in Tasks, NEW s \in mine[u]
            PROVE  InHistory(s)' \/ QueuedBefore(Len(cc_upload) + 1, s)'
            BY <1>2, <1>4, <2>2, <2>10 DEF WaitInv, InHistory, QueuedBefore, DataCommand
      <2>11. \A u \in Tasks : /\ ack_waiter' = u => chan'[u] = "open"
                              /\ ack_waiter' = u \/ chan'[u] = "token" => Covered(u)'
            BY <2>5, <2>6, <2>7, <2>8 DEF WaitInv
      <2> QED  BY <1>2, <2>9, <2>10, <2>11 DEF WaitInv, WaitCommand
<1> QED  BY <1>5, <1>7, <1>8, <1>9, <1>10, <1>11, <1>12

\* A future looks at the answer to its wait.
LEMMA PollWaitingStep ==
    ASSUME IInv, NEW t \in app.tasks, UNCHANGED app, PollWaiting(t)
    PROVE  IInv'
<1> USE DEF IInv
<1>1. t \in Tasks  BY ApplicationFacts
<1>2. /\ UNCHANGED <<app, available_sequence_number, cc_upload, cc_upload_waker, connected, op, sn,
                    notified, ack_waiter, covered, added, mine>>
      /\ pc[t] = "send" /\ op[t] = "async_wait" /\ chan[t] # "none"
      /\ \/ chan[t] = "open" /\ pc' = [pc EXCEPT ![t] = "asleep"] /\ chan' = chan
         \/ chan[t] # "open" /\ pc' = [pc EXCEPT ![t] = "idle"] /\ chan' = [chan EXCEPT ![t] = "none"]
      BY DEF PollWaiting, GoTo, channelVars
<1>3. TypeOK'
      <2>1. pc' \in [Tasks -> {"idle", "send", "undo", "full", "asleep", "waiting"}]
            /\ chan' \in [Tasks -> {"none", "open", "token", "closed"}]
            BY <1>1, <1>2 DEF TypeOK
      <2>2. status_waker' \in [Tasks -> BOOLEAN]  BY <1>1 DEF PollWaiting, TypeOK
      <2>3. result' \in [Tasks -> {"none", "acked", "timeout", "spurious"}]
            BY <1>1 DEF PollWaiting, TypeOK
      <2> QED  BY <1>2, <2>1, <2>2, <2>3 DEF TypeOK
<1>4. InFlightTasks' = InFlightTasks
      BY <1>1, <1>2 DEF InFlightTasks, InFlight, TypeOK, Writes
<1>5. ControlInv'
      BY <1>1, <1>2 DEF TypeOK, ControlInv, InFlight, Writes
<1>6. CounterInv'  BY <1>2, <1>4, CounterFrame DEF TypeOK
<1>7. ChannelInv' /\ HistoryInv'
      BY <1>2 DEF ChannelInv, Command, HistoryInv, IsLast, InHistory
<1>8. \A u \in Tasks : pc'[u] = "undo" => pc[u] = "undo"
      BY <1>1, <1>2 DEF TypeOK
<1>9. UniqueInv'  BY <1>2, <1>4, <1>8, UniqueFrame
<1>10. ConsecutiveInv'  BY <1>2, <1>4, ConsecutiveFrame
<1>11. WaitInv'
      <2>1. \A u \in Tasks : /\ chan[u] = "open" => chan'[u] = "open"
                             /\ chan'[u] = "token" => chan[u] = "token"
            BY <1>1, <1>2 DEF TypeOK
      <2> QED  BY <1>2, <2>1 DEF WaitInv, InHistory, QueuedBefore, Covered, DataCommand, WaitCommand
<1> QED  BY <1>3, <1>5, <1>6, <1>7, <1>9, <1>10, <1>11

\* The Writer takes a command: the others move up.
LEMMA ReceiveFacts ==
    ASSUME IInv, cc_upload # <<>>, cc_upload' = Tail(cc_upload), UNCHANGED app
    PROVE  /\ cc_upload' \in Seq(Command)
           /\ Len(cc_upload) \in Nat \ {0} /\ DOMAIN cc_upload = 1 .. Len(cc_upload)
           /\ Len(cc_upload') = Len(cc_upload) - 1
           /\ DOMAIN cc_upload' = 1 .. Len(cc_upload) - 1
           /\ \A i \in DOMAIN cc_upload' :
                 i + 1 \in DOMAIN cc_upload /\ cc_upload'[i] = cc_upload[i + 1]
           /\ \A j \in DOMAIN cc_upload : j # 1 => j - 1 \in DOMAIN cc_upload'
           /\ Head(cc_upload) = cc_upload[1] /\ cc_upload[1] \in Command
           /\ \A i \in DOMAIN cc_upload' : cc_upload'[i] \in Command
           /\ Len(cc_upload') <= app.capacity
<1>1. /\ cc_upload' \in Seq(Command)
      /\ Len(cc_upload) \in Nat \ {0} /\ DOMAIN cc_upload = 1 .. Len(cc_upload)
      /\ Len(cc_upload') = Len(cc_upload) - 1
      /\ DOMAIN cc_upload' = 1 .. Len(cc_upload) - 1
      /\ \A i \in DOMAIN cc_upload' : cc_upload'[i] = cc_upload[i + 1]
      /\ Head(cc_upload) = cc_upload[1] /\ cc_upload[1] \in Command
      BY TailFacts DEF IInv, ChannelInv
<1>2. \A i \in DOMAIN cc_upload' : cc_upload'[i] \in Command
      BY <1>1, ElementOfSeq
<1>3. Len(cc_upload') <= app.capacity
      BY <1>1, ApplicationFacts DEF IInv, TypeOK
<1> QED  BY <1>1, <1>2, <1>3

\* A sample leaves the channel for the history.
LEMMA ReceiveDataStep ==
    ASSUME IInv, ReceiveData, UNCHANGED app
    PROVE  IInv'
<1> USE DEF IInv
<1>1. /\ UNCHANGED <<app, available_sequence_number, cc_upload_waker, connected, op, pc, sn,
                    chan, status_waker, ack_waiter, covered, result, mine>>
      /\ connected /\ cc_upload # <<>> /\ cc_upload' = Tail(cc_upload)
      /\ notified' = [t \in Tasks |-> notified[t] \/ t = cc_upload_waker]
      BY DEF ReceiveData, waitVars
<1>2. /\ cc_upload' \in Seq(Command)
      /\ Len(cc_upload) \in Nat \ {0} /\ DOMAIN cc_upload = 1 .. Len(cc_upload)
      /\ Len(cc_upload') = Len(cc_upload) - 1
      /\ DOMAIN cc_upload' = 1 .. Len(cc_upload) - 1
      /\ \A i \in DOMAIN cc_upload' :
            i + 1 \in DOMAIN cc_upload /\ cc_upload'[i] = cc_upload[i + 1]
      /\ \A j \in DOMAIN cc_upload : j # 1 => j - 1 \in DOMAIN cc_upload'
      /\ Head(cc_upload) = cc_upload[1]
      /\ \A i \in DOMAIN cc_upload' : cc_upload'[i] \in Command
      /\ Len(cc_upload') <= app.capacity
      BY <1>1, ReceiveFacts
<1>3. 1 \in DOMAIN cc_upload /\ IsData(1) /\ added' = Append(added, cc_upload[1].sn)
      BY <1>2 DEF ReceiveData, IsData
<1>4. PICK n \in SN : cc_upload[1].sn = n /\ cc_upload[1] = DataCommand(n)
      BY <1>3, ChannelFacts
<1>5. /\ added' \in Seq(SN)
      /\ Len(added) \in Nat /\ DOMAIN added = 1 .. Len(added)
      /\ Len(added') = Len(added) + 1
      /\ DOMAIN added' = 1 .. Len(added) + 1
      /\ \A i \in DOMAIN added : added'[i] = added[i] /\ i \in DOMAIN added'
      /\ added'[Len(added) + 1] = n
      /\ \A i \in DOMAIN added' : i \in DOMAIN added \/ i = Len(added) + 1
      BY <1>3, <1>4, AppendFacts DEF TypeOK
<1>6. TypeOK'
      <2>1. notified' \in [Tasks -> BOOLEAN]  BY <1>1 DEF TypeOK
      <2> QED  BY <1>1, <1>2, <1>5, <2>1 DEF TypeOK, Command
<1>7. InFlightTasks' = InFlightTasks  BY <1>1 DEF InFlightTasks, InFlight
<1>8. ControlInv'  BY <1>1 DEF ControlInv, InFlight
<1>9. CounterInv'  BY <1>1, <1>7, CounterFrame DEF TypeOK
<1>10. ChannelInv'  BY <1>1, <1>2 DEF ChannelInv, Command
<1>11. \A s : InHistory(s)' <=> InHistory(s) \/ s = n
      <2>1. \A s : InHistory(s) => InHistory(s)'  BY <1>5 DEF InHistory
      <2>2. InHistory(n)'
            <3>1. Len(added) + 1 \in DOMAIN added'  BY <1>5
            <3>2. \E i \in DOMAIN added' : added'[i] = n  BY <1>5, <3>1
            <3> QED  BY <3>2 DEF InHistory
      <2> QED  BY <1>5, <2>1, <2>2 DEF InHistory
<1>12. HistoryInv'
      <2>1. PICK m \in 0 .. MaxSN : IsLast(m)  BY DEF HistoryInv
      <2>2. PICK k \in 0 .. MaxSN : m <= k /\ n <= k /\ (k = m \/ k = n)
            BY <1>4, MaxSNAssumption DEF SN
      <2>3. k = 0 \/ InHistory(k)'  BY <1>11, <2>1, <2>2 DEF IsLast
      <2>4. \A i \in DOMAIN added' : added'[i] <= k
            BY <1>4, <1>5, <2>1, <2>2, ChannelFacts DEF IsLast, SN
      <2> QED  BY <2>2, <2>3, <2>4 DEF HistoryInv, IsLast
<1>13. WaitInv'
      <2>1. ASSUME NEW i \in Int, NEW s, QueuedBefore(i, s)
            PROVE  s = n \/ QueuedBefore(i - 1, s)'
            <3>1. PICK j \in DOMAIN cc_upload : j < i /\ cc_upload[j] = DataCommand(s)
                  BY <2>1 DEF QueuedBefore
            <3>2. CASE j = 1
                  <4>1. DataCommand(s).sn = s /\ DataCommand(n).sn = n  BY DEF DataCommand
                  <4> QED  BY <1>4, <3>1, <3>2, <4>1
            <3>3. CASE j # 1
                  <4>1. j - 1 \in DOMAIN cc_upload' /\ j - 1 < i - 1 /\ cc_upload'[j - 1] = DataCommand(s)
                        BY <1>2, <3>1, <3>3
                  <4> QED  BY <4>1 DEF QueuedBefore, DataCommand
            <3> QED  BY <3>2, <3>3
      <2>3. ASSUME NEW t \in Tasks, NEW s \in mine[t]
            PROVE  InHistory(s)' \/ QueuedBefore(Len(cc_upload) + 1, s)'
            <3>1. InHistory(s) \/ s = n \/ \E j \in DOMAIN cc_upload' : cc_upload'[j] = DataCommand(s)
                  <4>1. InHistory(s) \/ QueuedBefore(Len(cc_upload) + 1, s)  BY <1>1 DEF WaitInv
                  <4>2. ASSUME QueuedBefore(Len(cc_upload) + 1, s), s # n
                        PROVE  \E j \in DOMAIN cc_upload' : cc_upload'[j] = DataCommand(s)
                        <5>1. Len(cc_upload) + 1 \in Int  BY <1>2
                        <5> QED  BY <2>1, <4>2, <5>1 DEF QueuedBefore, DataCommand
                  <4> QED  BY <4>1, <4>2
            <3>2. \A j \in DOMAIN cc_upload' : j < Len(cc_upload') + 1  BY <1>2
            <3> QED  BY <1>11, <3>1, <3>2 DEF QueuedBefore, DataCommand
      <2>4. ASSUME NEW i \in DOMAIN cc_upload', NEW t \in Tasks, cc_upload'[i] = WaitCommand(t)
            PROVE  /\ chan[t] = "open" /\ ack_waiter # t
                   /\ \A j \in DOMAIN cc_upload' : cc_upload'[j] = WaitCommand(t) => j = i
                   /\ \A s \in mine[t] : InHistory(s)' \/ QueuedBefore(i, s)'
            <3>1. i + 1 \in DOMAIN cc_upload /\ cc_upload[i + 1] = WaitCommand(t) /\ i \in Int
                  BY <1>2, <2>4
            <3>2. \A j \in DOMAIN cc_upload' : cc_upload'[j] = WaitCommand(t) => j + 1 = i + 1 /\ j \in Int
                  BY <1>2, <3>1 DEF WaitInv
            <3>3. ASSUME NEW s \in mine[t] PROVE InHistory(s)' \/ QueuedBefore(i, s)'
                  <4>1. InHistory(s) \/ QueuedBefore(i + 1, s)  BY <3>1 DEF WaitInv
                  <4>2. QueuedBefore(i + 1, s) => s = n \/ QueuedBefore(i + 1 - 1, s)'
                        BY <2>1, <3>1
                  <4>3. i + 1 - 1 = i  BY <3>1
                  <4> QED  BY <1>11, <4>1, <4>2, <4>3
            <3> QED  BY <3>1, <3>2, <3>3 DEF WaitInv
      <2>5. \A t \in Tasks : Covered(t) => Covered(t)'
            BY <1>1, <1>11 DEF Covered
      <2> QED  BY <1>1, <2>3, <2>4, <2>5 DEF WaitInv, WaitCommand
<1>14. UniqueInv'
      <2> SUFFICES ASSUME SoundApplication PROVE UniqueInv'
          BY <1>1 DEF UniqueInv, SoundApplication
      <2>1. /\ NumbersUnique /\ HistoryFresh /\ ChannelFresh /\ InFlightFresh
            /\ \A t \in Tasks : pc[t] = "undo" => "write" \in app.ops
            BY <1>1 DEF UniqueInv
      <2>2. n < available_sequence_number /\ \A j \in DOMAIN added : added[j] # n
            BY <1>3, <2>1, <1>4 DEF ChannelFresh
      <2>3. NumbersUnique'  BY <1>5, <2>1, <2>2 DEF NumbersUnique
      <2>4. HistoryFresh'  BY <1>1, <1>5, <2>1, <2>2 DEF HistoryFresh
      <2>5. \A i \in DOMAIN cc_upload' : IsData(i)' =>
               /\ i + 1 \in DOMAIN cc_upload /\ i + 1 # 1 /\ i \in Nat
               /\ IsData(i + 1) /\ cc_upload'[i].sn = cc_upload[i + 1].sn
            BY <1>2 DEF IsData
      <2>6. \A i \in DOMAIN cc_upload' : IsData(i)' =>
               /\ cc_upload'[i].sn # n
               /\ cc_upload'[i].sn < available_sequence_number
               /\ \A j \in DOMAIN added : added[j] # cc_upload'[i].sn
            BY <1>3, <2>1, <2>5, <1>4 DEF ChannelFresh
      <2>7. ASSUME NEW i \in DOMAIN cc_upload', IsData(i)',
                   NEW j \in DOMAIN cc_upload', IsData(j)', i # j
            PROVE  cc_upload'[i].sn # cc_upload'[j].sn
            <3>1. i + 1 # j + 1  BY <2>5, <2>7
            <3> QED  BY <2>1, <2>5, <2>7, <3>1 DEF ChannelFresh
      <2>8. ChannelFresh'  BY <1>1, <1>5, <2>6, <2>7 DEF ChannelFresh
      <2>9. InFlightFresh'
            <3>1. \A t \in InFlightTasks : sn[t] # n
                  BY <1>3, <2>1, <1>4 DEF InFlightFresh
            <3> QED  BY <1>1, <1>5, <1>7, <2>1, <2>5, <3>1 DEF InFlightFresh
      <2> QED  BY <1>1, <2>1, <2>3, <2>4, <2>8, <2>9 DEF UniqueInv
<1>15. ConsecutiveInv'
      <2> SUFFICES ASSUME OneWriter PROVE ConsecutiveInv'
          BY <1>1 DEF ConsecutiveInv, OneWriter
      <2>1. Unsent' = Unsent /\ Unsent \in Int
            BY <1>1, <1>7 DEF Unsent, TypeOK
      <2>2. /\ \A i \in DOMAIN added : added[i] = i
            /\ Len(added) < Unsent
            /\ \A i \in DOMAIN cc_upload : IsData(i) =>
                  /\ Len(added) < cc_upload[i].sn /\ cc_upload[i].sn < Unsent
                  /\ \A j \in DOMAIN cc_upload :
                        IsData(j) /\ i < j => cc_upload[i].sn < cc_upload[j].sn
            /\ \A m \in Len(added) + 1 .. Unsent - 1 : QueuedBefore(Len(cc_upload) + 1, m)
            BY <1>1 DEF ConsecutiveInv
      <2>3. n \in Nat /\ Len(added) < n /\ n < Unsent
            BY <1>3, <1>4, <2>2 DEF SN
      <2>4. Len(added) + 1 \in Len(added) + 1 .. Unsent - 1
            BY <1>5, <2>1, <2>3
      <2>5. PICK j \in DOMAIN cc_upload : cc_upload[j] = DataCommand(Len(added) + 1)
            BY <2>2, <2>4 DEF QueuedBefore
      <2>6. IsData(j) /\ cc_upload[j].sn = Len(added) + 1
            BY <2>5 DEF IsData, DataCommand
      <2>7. n = Len(added) + 1
            <3>1. CASE j = 1  BY <1>4, <2>6, <3>1
            <3>2. CASE j # 1
                  <4>1. 1 < j  BY <1>2, <3>2
                  <4>2. n < Len(added) + 1  BY <1>4, <1>3, <2>2, <2>6, <4>1
                  <4> QED  BY <1>5, <2>3, <4>2
            <3> QED  BY <3>1, <3>2
      <2>8. \A i \in DOMAIN added' : added'[i] = i  BY <1>5, <2>2, <2>7
      <2>9. Len(added') < Unsent'  BY <1>5, <2>1, <2>3, <2>7
      <2>10. \A i \in DOMAIN cc_upload' : IsData(i)' =>
                /\ i + 1 \in DOMAIN cc_upload /\ 1 < i + 1 /\ i \in Nat
                /\ IsData(i + 1) /\ cc_upload'[i].sn = cc_upload[i + 1].sn
            BY <1>2 DEF IsData
      <2>11. ASSUME NEW i \in DOMAIN cc_upload', IsData(i)'
             PROVE  /\ Len(added') < cc_upload'[i].sn /\ cc_upload'[i].sn < Unsent'
                    /\ \A m \in DOMAIN cc_upload' :
                          IsData(m)' /\ i < m => cc_upload'[i].sn < cc_upload'[m].sn
            <3>1. n < cc_upload[i + 1].sn
                  BY <1>4, <1>3, <2>2, <2>10, <2>11
            <3>2. ASSUME NEW m \in DOMAIN cc_upload', IsData(m)', i < m
                  PROVE  cc_upload'[i].sn < cc_upload'[m].sn
                  <4>1. i + 1 < m + 1  BY <2>10, <2>11, <3>2
                  <4> QED  BY <2>2, <2>10, <2>11, <3>2, <4>1
            <3> QED  BY <1>5, <2>1, <2>2, <2>7, <2>10, <2>11, <3>1, <3>2
      <2>12. ASSUME NEW m \in Len(added') + 1 .. Unsent' - 1
             PROVE  QueuedBefore(Len(cc_upload) + 1, m)'
            <3>1. m \in Len(added) + 1 .. Unsent - 1 /\ m # n
                  BY <1>5, <2>1, <2>7
            <3>2. PICK k \in DOMAIN cc_upload : cc_upload[k] = DataCommand(m)
                  BY <2>2, <3>1 DEF QueuedBefore
            <3>3. k # 1
                  <4>1. DataCommand(m).sn = m  BY DEF DataCommand
                  <4> QED  BY <1>4, <3>1, <3>2, <4>1
            <3>4. k - 1 \in DOMAIN cc_upload' /\ cc_upload'[k - 1] = DataCommand(m)
                     /\ k - 1 < Len(cc_upload') + 1
                  BY <1>2, <3>2, <3>3
            <3> QED  BY <3>4 DEF QueuedBefore, DataCommand
      <2> QED  BY <2>8, <2>9, <2>11, <2>12 DEF ConsecutiveInv
<1> QED  BY <1>6, <1>8, <1>9, <1>10, <1>12, <1>13, <1>14, <1>15

\* Samples that stay in the channel, one place further on.
LEMMA ShiftFrame ==
    ASSUME IInv, connected, cc_upload # <<>>, cc_upload' = Tail(cc_upload),
           ~IsData(1), InFlightTasks' = InFlightTasks,
           UNCHANGED <<app, added, connected, sn, pc, available_sequence_number>>
    PROVE  UniqueInv' /\ ConsecutiveInv'
<1> USE DEF IInv
<1>1. /\ Len(cc_upload) \in Nat \ {0} /\ DOMAIN cc_upload = 1 .. Len(cc_upload)
      /\ Len(cc_upload') = Len(cc_upload) - 1
      /\ DOMAIN cc_upload' = 1 .. Len(cc_upload) - 1
      /\ \A i \in DOMAIN cc_upload' :
            i + 1 \in DOMAIN cc_upload /\ cc_upload'[i] = cc_upload[i + 1]
      /\ \A j \in DOMAIN cc_upload : j # 1 => j - 1 \in DOMAIN cc_upload'
      BY ReceiveFacts
<1>2. \A i \in DOMAIN cc_upload' : IsData(i)' =>
          /\ i + 1 \in DOMAIN cc_upload /\ i \in Nat
          /\ IsData(i + 1) /\ cc_upload'[i].sn = cc_upload[i + 1].sn
      BY <1>1 DEF IsData
<1>3. UniqueInv'
      <2> SUFFICES ASSUME SoundApplication PROVE UniqueInv'
          BY DEF UniqueInv, SoundApplication
      <2>1. NumbersUnique /\ HistoryFresh /\ ChannelFresh /\ InFlightFresh
            BY DEF UniqueInv
      <2>2. NumbersUnique' /\ HistoryFresh'  BY <2>1 DEF NumbersUnique, HistoryFresh
      <2>3. ASSUME NEW i \in DOMAIN cc_upload', IsData(i)',
                   NEW j \in DOMAIN cc_upload', IsData(j)', i # j
            PROVE  cc_upload'[i].sn # cc_upload'[j].sn
            <3>1. i + 1 # j + 1  BY <1>2, <2>3
            <3> QED  BY <1>2, <2>1, <2>3, <3>1 DEF ChannelFresh
      <2>4. ChannelFresh'  BY <1>2, <2>1, <2>3 DEF ChannelFresh
      <2>5. InFlightFresh'  BY <1>2, <2>1 DEF InFlightFresh
      <2> QED  BY <2>2, <2>4, <2>5 DEF UniqueInv
<1>4. ConsecutiveInv'
      <2> SUFFICES ASSUME OneWriter PROVE ConsecutiveInv'
          BY DEF ConsecutiveInv, OneWriter
      <2>1. Unsent' = Unsent  BY DEF Unsent
      <2>2. ASSUME NEW i \in DOMAIN cc_upload', IsData(i)',
                   NEW m \in DOMAIN cc_upload', IsData(m)', i < m
            PROVE  cc_upload'[i].sn < cc_upload'[m].sn
            <3>1. i + 1 < m + 1  BY <1>2, <2>2
            <3> QED  BY <1>2, <2>2, <3>1 DEF ConsecutiveInv
      <2>3. ASSUME NEW m \in Len(added) + 1 .. Unsent - 1
            PROVE  QueuedBefore(Len(cc_upload) + 1, m)'
            <3>1. PICK k \in DOMAIN cc_upload : cc_upload[k] = DataCommand(m)
                  BY <2>3 DEF ConsecutiveInv, QueuedBefore
            <3>2. k # 1  BY <3>1 DEF IsData, DataCommand
            <3>3. k - 1 \in DOMAIN cc_upload' /\ cc_upload'[k - 1] = DataCommand(m)
                     /\ k - 1 < Len(cc_upload') + 1
                  BY <1>1, <3>1, <3>2
            <3> QED  BY <3>3 DEF QueuedBefore, DataCommand
      <2> QED  BY <1>2, <2>1, <2>2, <2>3 DEF ConsecutiveInv
<1> QED  BY <1>3, <1>4

\* A wait reaches the Writer: what its task wrote is in the history by then.
LEMMA ReceiveWaitStep ==
    ASSUME IInv, NEW acked \in BOOLEAN, ReceiveWait(acked), UNCHANGED app
    PROVE  IInv'
<1> USE DEF IInv
<1>1. /\ UNCHANGED <<app, available_sequence_number, cc_upload_waker, connected, op, pc, sn,
                    result, added, mine>>
      /\ connected /\ cc_upload # <<>> /\ cc_upload' = Tail(cc_upload)
      BY DEF ReceiveWait
<1>2. /\ cc_upload' \in Seq(Command)
      /\ Len(cc_upload) \in Nat \ {0} /\ DOMAIN cc_upload = 1 .. Len(cc_upload)
      /\ Len(cc_upload') = Len(cc_upload) - 1
      /\ DOMAIN cc_upload' = 1 .. Len(cc_upload) - 1
      /\ \A i \in DOMAIN cc_upload' :
            i + 1 \in DOMAIN cc_upload /\ cc_upload'[i] = cc_upload[i + 1]
      /\ \A j \in DOMAIN cc_upload : j # 1 => j - 1 \in DOMAIN cc_upload'
      /\ Head(cc_upload) = cc_upload[1] /\ cc_upload[1] \in Command
      /\ \A i \in DOMAIN cc_upload' : cc_upload'[i] \in Command
      /\ Len(cc_upload') <= app.capacity
      BY <1>1, ReceiveFacts
<1>3. 1 \in DOMAIN cc_upload /\ cc_upload[1].kind = "wait" /\ ~IsData(1)
      BY <1>2 DEF ReceiveWait, IsData
<1>4. PICK t \in Tasks \cup {NoTask} : t = Head(cc_upload).by /\ cc_upload[1] = WaitCommand(t)
      BY <1>2, <1>3, Commands
<1>5. /\ ack_waiter' = IF acked THEN NoTask ELSE t
      /\ chan' = [u \in Tasks |->
                    CASE u = t /\ acked -> "token"
                      [] u = ack_waiter /\ u # t -> "closed"
                      [] OTHER -> chan[u]]
      /\ covered' = [u \in Tasks |-> IF u = t THEN last_seq ELSE covered[u]]
      /\ notified' = [u \in Tasks |-> notified[u] \/ (u = t /\ acked /\ status_waker[u])]
      /\ status_waker' = [u \in Tasks |-> status_waker[u] /\ ~(u = t /\ acked)]
      BY <1>4 DEF ReceiveWait
<1>6. last_seq \in 0 .. MaxSN /\ IsLast(last_seq)  BY LastSeqIsLast
<1>7. \A u \in Tasks :
          \/ u = t /\ acked /\ chan'[u] = "token"
          \/ u = ack_waiter /\ u # t /\ chan'[u] = "closed"
          \/ ~(u = t /\ acked) /\ ~(u = ack_waiter /\ u # t) /\ chan'[u] = chan[u]
      BY <1>5
<1>8. TypeOK'
      <2>1. chan' \in [Tasks -> {"none", "open", "token", "closed"}]  BY <1>5, <1>7 DEF TypeOK
      <2>2. covered' \in [Tasks -> 0 .. MaxSN]  BY <1>5, <1>6 DEF TypeOK
      <2>3. notified' \in [Tasks -> BOOLEAN] /\ status_waker' \in [Tasks -> BOOLEAN]
            BY <1>5 DEF TypeOK
      <2>4. ack_waiter' \in Tasks \cup {NoTask}  BY <1>4, <1>5
      <2> QED  BY <1>1, <1>2, <2>1, <2>2, <2>3, <2>4 DEF TypeOK, Command
<1>9. t \in Tasks => chan[t] = "open" /\ ack_waiter # t
      BY <1>3, <1>4 DEF WaitInv
<1>10. ControlInv'
      <2>1. \A u \in Tasks : chan'[u] # "none" <=> chan[u] # "none"
            BY <1>7, <1>9 DEF WaitInv
      <2> QED  BY <1>1, <2>1 DEF ControlInv, InFlight
<1>11. InFlightTasks' = InFlightTasks  BY <1>1 DEF InFlightTasks, InFlight
<1>12. CounterInv'  BY <1>1, <1>11, CounterFrame DEF TypeOK
<1>13. ChannelInv'  BY <1>1, <1>2 DEF ChannelInv, Command
<1>14. HistoryInv'  BY <1>1 DEF HistoryInv, IsLast, InHistory
<1>15. UniqueInv' /\ ConsecutiveInv'
      BY <1>1, <1>3, <1>11, ShiftFrame
<1>16. WaitInv'
      <2>1. \A s : InHistory(s)' <=> InHistory(s)  BY <1>1 DEF InHistory
      <2>2. ASSUME NEW i \in Int, NEW s, QueuedBefore(i, s)
            PROVE  QueuedBefore(i - 1, s)'
            <3>1. PICK j \in DOMAIN cc_upload : j < i /\ cc_upload[j] = DataCommand(s)
                  BY <2>2 DEF QueuedBefore
            <3>2. j # 1  BY <1>3, <3>1 DEF DataCommand
            <3>3. j - 1 \in DOMAIN cc_upload' /\ j - 1 < i - 1 /\ cc_upload'[j - 1] = DataCommand(s)
                  BY <1>2, <3>1, <3>2
            <3> QED  BY <3>3 DEF QueuedBefore, DataCommand
      <2>3. ASSUME NEW u \in Tasks, NEW s \in mine[u]
            PROVE  InHistory(s)' \/ QueuedBefore(Len(cc_upload) + 1, s)'
            <3>1. InHistory(s) \/ QueuedBefore(Len(cc_upload) + 1, s)  BY <1>1 DEF WaitInv
            <3>2. ASSUME QueuedBefore(Len(cc_upload) + 1, s)
                  PROVE  \E j \in DOMAIN cc_upload' : cc_upload'[j] = DataCommand(s)
                  <4>1. Len(cc_upload) + 1 \in Int  BY <1>2
                  <4> QED  BY <2>2, <3>2, <4>1 DEF QueuedBefore, DataCommand
            <3>3. \A j \in DOMAIN cc_upload' : j < Len(cc_upload') + 1  BY <1>2
            <3> QED  BY <2>1, <3>1, <3>2, <3>3 DEF QueuedBefore, DataCommand
      <2>4. ASSUME NEW i \in DOMAIN cc_upload', NEW u \in Tasks, cc_upload'[i] = WaitCommand(u)
            PROVE  /\ chan'[u] = "open" /\ ack_waiter' # u
                   /\ \A j \in DOMAIN cc_upload' : cc_upload'[j] = WaitCommand(u) => j = i
                   /\ \A s \in mine[u] : InHistory(s)' \/ QueuedBefore(i, s)'
            <3>1. /\ i + 1 \in DOMAIN cc_upload /\ i + 1 # 1
                  /\ cc_upload[i + 1] = WaitCommand(u) /\ i \in Int
                  BY <1>2, <2>4
            <3>2. u # t  BY <1>3, <1>4, <3>1 DEF WaitInv
            <3>3. chan[u] = "open" /\ ack_waiter # u  BY <3>1 DEF WaitInv
            <3>4. chan'[u] = "open" /\ ack_waiter' # u
                  BY <1>5, <1>7, <3>2, <3>3, DataWriterAssumption
            <3>5. \A j \in DOMAIN cc_upload' : cc_upload'[j] = WaitCommand(u) => j + 1 = i + 1 /\ j \in Int
                  BY <1>2, <3>1 DEF WaitInv
            <3>6. ASSUME NEW s \in mine[u] PROVE InHistory(s)' \/ QueuedBefore(i, s)'
                  <4>1. InHistory(s) \/ QueuedBefore(i + 1, s)  BY <3>1 DEF WaitInv
                  <4>2. QueuedBefore(i + 1, s) => QueuedBefore(i + 1 - 1, s)'
                        BY <2>2, <3>1
                  <4>3. i + 1 - 1 = i  BY <3>1
                  <4> QED  BY <2>1, <4>1, <4>2, <4>3
            <3> QED  BY <3>1, <3>4, <3>5, <3>6
      <2>5. t \in Tasks => Covered(t)'
            <3>1. ASSUME t \in Tasks, NEW s \in mine[t] PROVE s <= last_seq /\ InHistory(s)
                  <4>1. ~QueuedBefore(1, s)  BY <1>2 DEF QueuedBefore
                  <4>2. InHistory(s)  BY <1>3, <1>4, <3>1, <4>1 DEF WaitInv
                  <4> QED  BY <1>6, <4>2 DEF IsLast, InHistory
            <3> QED  BY <1>1, <1>5, <2>1, <3>1 DEF Covered
      <2>6. \A u \in Tasks : u # t /\ Covered(u) => Covered(u)'
            BY <1>1, <1>5, <2>1 DEF Covered
      <2>7. \A u \in Tasks : ack_waiter' = u => u = t /\ chan'[u] = "open"
            BY <1>5, <1>7, <1>9, DataWriterAssumption
      <2>8. \A u \in Tasks : chan'[u] = "token" => u = t \/ Covered(u)
            BY <1>7 DEF WaitInv
      <2>9. \A u \in Tasks : ack_waiter' = u \/ chan'[u] = "token" => Covered(u)'
            BY <2>5, <2>6, <2>7, <2>8
      <2> QED  BY <1>1, <2>3, <2>4, <2>7, <2>9 DEF WaitInv, WaitCommand
<1> QED  BY <1>8, <1>10, <1>12, <1>13, <1>14, <1>15, <1>16

\* The Writer answers the pending wait, or is dropped with all it was sent.
LEMMA WriterStep ==
    ASSUME IInv, WaitComplete \/ Disconnect, UNCHANGED app
    PROVE  IInv'
<1> USE DEF IInv
<1>1. /\ UNCHANGED <<app, available_sequence_number, cc_upload_waker, op, pc, sn, covered, result,
                    added, mine>>
      /\ ack_waiter' = NoTask /\ connected
      /\ \/ cc_upload' = cc_upload /\ connected' /\ WaitComplete
         \/ cc_upload' = <<>> /\ connected' = FALSE
      BY DEF WaitComplete, Disconnect, channelVars
<1>2. /\ chan' \in [Tasks -> {"none", "open", "token", "closed"}]
      /\ notified' \in [Tasks -> BOOLEAN]
      /\ status_waker' \in [Tasks -> BOOLEAN]
      /\ \A u \in Tasks : /\ chan'[u] # "none" <=> chan[u] # "none"
                          /\ chan'[u] = "token" => chan[u] = "token" \/ u = ack_waiter
                          /\ WaitComplete /\ chan[u] = "open" /\ u # ack_waiter => chan'[u] = "open"
      <2>1. CASE WaitComplete
            <3>1. ack_waiter \in Tasks /\ chan[ack_waiter] = "open"
                  BY <2>1 DEF WaitComplete, TypeOK, WaitInv
            <3>2. /\ chan' = [chan EXCEPT ![ack_waiter] = "token"]
                  /\ notified' = [t \in Tasks |-> notified[t] \/ (t = ack_waiter /\ status_waker[t])]
                  /\ status_waker' = [status_waker EXCEPT ![ack_waiter] = FALSE]
                  BY <2>1 DEF WaitComplete
            <3> QED  BY <3>1, <3>2 DEF TypeOK
      <2>2. CASE Disconnect
            <3>1. ~WaitComplete  BY <2>2 DEF Disconnect, WaitComplete, channelVars
            <3> QED  BY <2>2, <3>1 DEF Disconnect, TypeOK
      <2> QED  BY <2>1, <2>2
<1>3. TypeOK'
      <2>1. /\ Len(cc_upload') <= app.capacity
            /\ \A i \in DOMAIN cc_upload' : cc_upload'[i] \in Command
            BY <1>1, ApplicationFacts, ChannelFacts DEF TypeOK
      <2>2. ack_waiter' \in Tasks \cup {NoTask} /\ connected' \in BOOLEAN  BY <1>1 DEF WaitComplete, channelVars
      <2> QED  BY <1>1, <1>2, <2>1, <2>2 DEF TypeOK, Command
<1>4. ControlInv'  BY <1>1, <1>2 DEF ControlInv, InFlight
<1>5. InFlightTasks' = InFlightTasks  BY <1>1 DEF InFlightTasks, InFlight
<1>6. CounterInv'  BY <1>1, <1>5, CounterFrame DEF TypeOK
<1>7. ChannelInv'
      <2>1. <<>> \in Seq(Command)  OBVIOUS
      <2> QED  BY <1>1, <2>1 DEF ChannelInv, Command
<1>8. HistoryInv'  BY <1>1 DEF HistoryInv, IsLast, InHistory
<1>9. \A u \in Tasks : Covered(u) => Covered(u)'  BY <1>1 DEF Covered, InHistory
<1>10. \A u \in Tasks : ack_waiter' # u
      BY <1>1, DataWriterAssumption
<1>11. CASE cc_upload' = cc_upload /\ connected' /\ WaitComplete
      <2>1. connected' = connected  BY <1>1, <1>11 DEF WaitComplete, channelVars
      <2>2. UniqueInv'  BY <1>1, <1>5, <1>11, <2>1, UniqueFrame
      <2>3. ConsecutiveInv'  BY <1>1, <1>5, <1>11, <2>1, ConsecutiveFrame
      <2>4. WaitInv'
            <3>1. \A s : InHistory(s)' <=> InHistory(s)  BY <1>1 DEF InHistory
            <3>2. \A i, s : QueuedBefore(i, s)' <=> QueuedBefore(i, s)
                  BY <1>11 DEF QueuedBefore, DataCommand
            <3>3. ASSUME NEW u \in Tasks, NEW s \in mine[u]
                  PROVE  InHistory(s)' \/ QueuedBefore(Len(cc_upload) + 1, s)'
                  BY <1>1, <1>11 DEF WaitInv, InHistory, QueuedBefore, DataCommand
            <3>4. ASSUME NEW i \in DOMAIN cc_upload, NEW u \in Tasks, cc_upload[i] = WaitCommand(u)
                  PROVE  /\ chan'[u] = "open"
                         /\ \A j \in DOMAIN cc_upload : cc_upload[j] = WaitCommand(u) => j = i
                         /\ \A s \in mine[u] : InHistory(s)' \/ QueuedBefore(i, s)'
                  BY <1>2, <1>11, <3>1, <3>2, <3>4 DEF WaitInv
            <3>5. \A u \in Tasks : chan'[u] = "token" => Covered(u)'
                  BY <1>2, <1>9 DEF WaitInv
            <3> QED  BY <1>1, <1>10, <1>11, <3>3, <3>4, <3>5 DEF WaitInv, WaitCommand
      <2> QED  BY <1>3, <1>4, <1>6, <1>7, <1>8, <2>2, <2>3, <2>4
<1>12. CASE cc_upload' = <<>> /\ connected' = FALSE
      <2>1. UniqueInv'  BY <1>1, <1>12 DEF UniqueInv, NumbersUnique, SoundApplication
      <2>2. ConsecutiveInv'  BY <1>1, <1>12 DEF ConsecutiveInv, OneWriter
      <2>3. \A u \in Tasks : chan'[u] = "token" => Covered(u)'
            BY <1>2, <1>9 DEF WaitInv
      <2>4. WaitInv'  BY <1>1, <1>10, <1>12, <2>3 DEF WaitInv
      <2> QED  BY <1>3, <1>4, <1>6, <1>7, <1>8, <2>1, <2>2, <2>4
<1> QED  BY <1>1, <1>11, <1>12

-----------------------------------------------------------------------------

\* Every step of the tasks and of the Writer keeps the invariant.
LEMMA InvariantNext == IInv /\ [Next]_vars => IInv'
<1> SUFFICES ASSUME IInv, [Next]_vars PROVE IInv'  OBVIOUS
<1>1. ASSUME NEW t \in app.tasks, Begin(t) PROVE IInv'
      BY <1>1, BeginWriteStep, BeginWaitStep, QuietStep DEF Begin
<1>2. ASSUME NEW t \in app.tasks, TaskStep(t) PROVE IInv'
      BY <1>2, SendOkStep, UndoStep, EndWaitStep, BeginWaitStep, PollWaitingStep, QuietStep
         DEF TaskStep
<1>3. ASSUME Receive PROVE IInv'
      BY <1>3, ReceiveDataStep, ReceiveWaitStep DEF Receive
<1>4. ASSUME WaitComplete \/ Disconnect, UNCHANGED app PROVE IInv'
      BY <1>4, WriterStep
<1>5. ASSUME UNCHANGED vars PROVE IInv'
      <2>1. UNCHANGED <<app, available_sequence_number, cc_upload, cc_upload_waker, connected, op,
                        pc, sn, notified, chan, status_waker, ack_waiter, covered, result, added,
                        mine>>
            BY <1>5 DEF vars, channelVars, waitVars
      <2>2. TypeOK'  BY <2>1 DEF IInv, TypeOK
      <2>3. ControlInv' /\ InFlightTasks' = InFlightTasks
            BY <2>1 DEF IInv, ControlInv, InFlight, InFlightTasks
      <2>4. CounterInv'  BY <2>1, <2>3, CounterFrame DEF IInv, TypeOK
      <2>5. ChannelInv'  BY <2>1 DEF IInv, ChannelInv, Command
      <2>6. HistoryInv'  BY <2>1 DEF IInv, HistoryInv, IsLast, InHistory
      <2>7. WaitInv'  BY <2>1, WaitFrame DEF IInv
      <2>8. UniqueInv'  BY <2>1, <2>3, UniqueFrame DEF IInv
      <2>9. ConsecutiveInv'  BY <2>1, <2>3, ConsecutiveFrame DEF IInv
      <2> QED  BY <2>2, <2>3, <2>4, <2>5, <2>6, <2>7, <2>8, <2>9 DEF IInv
<1> QED  BY <1>1, <1>2, <1>3, <1>4, <1>5 DEF Next

\* The inductive invariant of the DataWriter, its channel and its Writer's
\* receiving end (datawriter.rs, writer.rs:542-660) holds in every behaviour.
THEOREM InvariantHolds == Spec => []IInv
BY InvariantInit, InvariantNext, PTL DEF Spec

\* Type correctness: the counter that undo_sequence_number decrements
\* (datawriter.rs:253) never falls below 1, the channel keeps its capacity.
THEOREM TypeCorrect == Spec => []TypeOK
<1>1. IInv => TypeOK  BY DEF IInv
<1> QED  BY <1>1, InvariantHolds, PTL

\* A wait that succeeds covers all that its caller wrote before it, in any
\* application, also when waits replace each other or the Writer is dropped.
THEOREM WaitsCoverOwnWrites == Spec => []WaitCoversOwnWrites
<1>1. IInv => WaitCoversOwnWrites
      BY DEF IInv, WaitInv, Covered, InHistory, WaitCoversOwnWrites
<1> QED  BY <1>1, InvariantHolds, PTL

\* Sequence numbers are unique and consecutive in every application whose
\* writes cannot time out or that has one task only; for the others
\* undo_sequence_number breaks it.
THEOREM NumbersAreConsecutive == Spec => [](SoundApplication => NumbersConsecutive)
<1>1. IInv => (SoundApplication => NumbersConsecutive)
      <2> SUFFICES ASSUME IInv, SoundApplication,
                          "async_write" \notin app.ops, Cardinality(app.tasks) = 1
                   PROVE  \A i \in DOMAIN added : added[i] = i
          BY DEF IInv, UniqueInv, NumbersConsecutive
      <2>1. IsFiniteSet(app.tasks)
            BY ApplicationFacts, DataWriterAssumption, FS_Subset DEF IInv
      <2>2. \E x : app.tasks = {x}  BY <2>1, FS_Singleton
      <2>3. OneWriter  BY <2>2 DEF OneWriter
      <2> QED  BY <2>3 DEF IInv, ConsecutiveInv
<1> QED  BY <1>1, InvariantHolds, PTL

=============================================================================
