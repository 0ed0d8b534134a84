----------------------------- MODULE DurableLog -----------------------------
(***************************************************************************)
(* What a WAL segment promises, without files, buffers or writers: a log   *)
(* that only grows, whose records count up from one number; a set of       *)
(* acknowledged records, all of them in the log; and a reader that is      *)
(* handed the records of the log one after the other from its start.       *)
(***************************************************************************)
EXTENDS Integers, Sequences, SequencesExt

CONSTANT Record  \* with at least the field sequence

VARIABLES log, acknowledged, delivered

logvars == <<log, acknowledged, delivered>>

LogInit == log = <<>> /\ acknowledged = {} /\ delivered = <<>>

\* Records become part of the log behind those that are.
Grows ==
    /\ IsPrefix(log, log')
    /\ Range(log') \subseteq Record
    /\ \A i \in DOMAIN log' : log'[i].sequence = log'[1].sequence + i - 1

\* Records may become readable before anybody is told that they are durable.
Extend == Grows /\ UNCHANGED <<acknowledged, delivered>>

Acknowledge ==
    /\ Grows
    /\ acknowledged \subseteq acknowledged'
    /\ acknowledged' \subseteq Range(log')
    /\ UNCHANGED delivered

Deliver ==
    /\ Len(delivered) < Len(log)
    /\ delivered' = Append(delivered, log[Len(delivered) + 1])
    /\ UNCHANGED <<log, acknowledged>>

StartReader == delivered' = <<>> /\ UNCHANGED <<log, acknowledged>>

LogNext == Extend \/ Acknowledge \/ Deliver \/ StartReader

LogSpec == LogInit /\ [][LogNext]_logvars
=============================================================================
