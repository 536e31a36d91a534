---------------------------- MODULE ReliableRtps ----------------------------
(***************************************************************************)
(* One reliable Writer, its Readers and the network between them.  The two *)
(* sides match and lose each other independently, as discovery and lease   *)
(* expiry do.                                                              *)
(***************************************************************************)
EXTENDS StatefulWriter, StatefulReader

CONSTANTS
    MaxLost,    \* bound: times one side loses the other
    MaxWaits    \* bound: calls of wait_for_acknowledgments

ASSUME BoundsAssumption == MaxLost \in Nat /\ MaxWaits \in Nat

VARIABLES losses, waits    \* how much of the two bounds is used up

vars == <<writerVars, readerVars, netVars, losses, waits>>

TypeOK ==
    /\ NetTypeOK
    /\ WriterTypeOK
    /\ ReaderTypeOK
    /\ losses \in Nat
    /\ waits \in Nat

Init == NetInit /\ WriterInit /\ ReaderInit /\ losses = 0 /\ waits = 0

WriterStep ==
    \/ \E sn \in SN, to \in Targets : Write(sn, to)
    \/ HeartbeatTick
    \/ CacheCleaning
    \/ \E r \in Readers : RepairDataSend(r)
    \/ \E m \in acknack_net : HandleAckNack(m)
    \/ \E r \in Readers : MatchReader(r)

ReaderStep(r) ==
    \/ MatchWriter(r)
    \/ \E m \in data_net : HandleData(r, m)
    \/ r \in Reliable /\ \E m \in hb_net : HandleHeartbeat(r, m)
    \/ \E m \in gap_net : HandleGap(r, m)
    \/ r \in Reliable /\ Take(r)

\* A lease runs out or an endpoint is deleted, seen by one side only.
Lose(r) ==
    /\ losses < MaxLost
    /\ losses' = losses + 1
    /\ \/ ReaderLost(r) /\ UNCHANGED readerVars
       \/ WriterLost(r) /\ UNCHANGED writerVars

Wait ==
    /\ waits < MaxWaits
    /\ waits' = waits + 1
    /\ WaitForAcknowledgments

Next ==
    \/ WriterStep /\ UNCHANGED <<readerVars, losses, waits>>
    \/ \E r \in Readers : ReaderStep(r) /\ UNCHANGED <<writerVars, losses, waits>>
    \/ \E r \in Readers : Lose(r) /\ UNCHANGED waits
    \/ Wait /\ UNCHANGED <<readerVars, losses>>

Spec == Init /\ [][Next]_vars

-----------------------------------------------------------------------------
(* Safety *)

\* What the Writer must get to r: the samples owed since the match, and with
\* TRANSIENT_LOCAL whatever is still stored for r.
Due(r) == owed[r] \cup IF Volatile THEN {}
                       ELSE {s \in history.samples : IsFor(target[s], r)}

\* No sample is skipped: a Reader stops asking for a sample it is due only
\* when it has it.  No GAP, HEARTBEAT or reordering may hide one
\* (reader.rs:862-1143, writer.rs:1160-1275).
NoLoss == \A r \in Readers : Due(r) \cap Known(wp[r]) \subseteq cache[r]

\* What the Writer takes as acknowledged by a Reader has reached that Reader
\* (rtps_reader_proxy.rs:225-270), also when ACKNACKs are late, repeated or
\* from before a new match.
AckedIsReceived ==
    \A r \in matched : \A s \in Due(r) :
        s < rp[r].all_acked_before => s \in cache[r]

\* Cleaning keeps what a matched reliable Reader is still due: "CacheChanges
\* can be safely removed only if they are acked by all readers"
\* (writer.rs:1346).
HistoryKeepsUnacked ==
    \A r \in matched : owed[r] \ cache[r] \subseteq history.samples

\* wait_for_acknowledgments tells the truth: a sample it reported as
\* acknowledged by all is in the cache of every reliable Reader that was
\* matched when the wait began and has stayed matched (writer.rs:93-119).
WaitIsTruthful ==
    \A r \in matched \cap Reliable : \A s \in owed[r] :
        s <= told[r] => s \in cache[r]

\* A reliable DataReader hands over every sample it is due, in order: what it
\* has read past was taken (dds_cache.rs:299-319).
InOrderDelivery ==
    \A r \in Readers : \A s \in Due(r) : s <= last_read[r] => s \in taken[r]

-----------------------------------------------------------------------------
(***************************************************************************)
(* The inductive invariant behind these properties.                        *)
(*                                                                         *)
(* Everything in the protocol that can make a Reader or the Writer give up *)
(* on a number (a proxy's knowledge, an ACKNACK, a HEARTBEAT's first_sn, a *)
(* GAP, the cache marker, a finished wait) speaks of settled numbers only: *)
(* already written, and received by the Reader if it is due to it.  Once   *)
(* settled, a number stays settled, so stale and duplicate messages do no  *)
(* harm.                                                                   *)
(***************************************************************************)
Settled(r, s) == s <= history.last_seq /\ (s \in Due(r) => s \in cache[r])

SettledUpTo(r, n) == \A s \in 1 .. n : Settled(r, s)

\* What the Writer's history holds.
HistoryInv ==
    /\ history.first_seq <= history.last_seq + 1
    /\ \A s \in history.samples :
          history.first_seq <= s /\ s <= history.last_seq
    /\ \A r \in Readers : \A s \in owed[r] :
          /\ s <= history.last_seq
          /\ s \in cache[r] \/ s \in history.samples
    /\ \A r \in Readers \ matched : owed[r] = {}

\* What the Writer believes of its Readers.
ReaderProxyInv ==
    \A r \in Readers :
        /\ SettledUpTo(r, rp[r].all_acked_before - 1)
        /\ \A s \in rp[r].unsent_changes : s <= history.last_seq
        /\ \A s \in rp[r].pending_gap : Settled(r, s)

\* What a wait for acknowledgments has found out.
WaitInv ==
    /\ ack_waiter.wait_until <= history.last_seq
    /\ \A r \in wait_for \ ack_waiter.readers_pending :
          SettledUpTo(r, ack_waiter.wait_until)
    /\ \A r \in Readers : SettledUpTo(r, told[r])

\* What a Reader believes of the Writer, and its DataReader of the cache.
WriterProxyInv ==
    \A r \in Readers :
        /\ Consistent(wp[r])
        /\ \A s \in Known(wp[r]) : Settled(r, s)
        /\ SettledUpTo(r, marker[r] - 1)
        /\ last_read[r] <= history.last_seq
        /\ \A s \in Due(r) : s <= last_read[r] => s \in taken[r]

\* What every submessage ever sent says.
NetInv ==
    /\ \A m \in data_net : m.sn <= history.last_seq
    /\ \A m \in hb_net : \A r \in Readers : SettledUpTo(r, m.first_sn - 1)
    /\ \A m \in gap_net : \A s \in GapSet(m) : Settled(m.to, s)
    /\ \A m \in acknack_net : SettledUpTo(m.from, m.base - 1)

\* The conjunction is inductive: each part needs the others.
IInv ==
    /\ TypeOK
    /\ HistoryInv
    /\ ReaderProxyInv
    /\ WaitInv
    /\ WriterProxyInv
    /\ NetInv

=============================================================================
