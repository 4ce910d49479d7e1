------------------------- MODULE VersionedContract --------------------------
(***************************************************************************)
(* What VersionedSPMCQueue promises its callers.                           *)
(***************************************************************************)
EXTENDS VersionedSPMCQueue

\* What the queue promises its consumers; log is appended when a publication
\* begins, so a sequence counts as lost from the first store to its cell on.
Contract == INSTANCE MulticastContract WITH
                Payloads <- {payload \in Payloads : Len(payload) <= MaxPayloadSize}

\* The queue implements the multicast contract: read() under weak memory, lag,
\* overwritten cells and moves of Consumer objects do nothing to a cursor and
\* deliver nothing that the contract does not allow.
ImplementsContract == Contract!Spec

\* No torn or mixed read is ever returned: a successful try_read delivers
\* exactly the payload that was published under the sequence it reports.
DeliveredAsPublished == Contract!DeliveredAsPublished

\* A registration is given every sequence at most once and in order, also when
\* its Consumer object is moved and when the cursor is set anew after a loss.
DeliveredInOrder == Contract!DeliveredInOrder

\* Nothing is lost silently: a sequence the cursor has passed was delivered,
\* or the producer has begun to write over it.
NoSilentLoss == Contract!NoSilentLoss

\* try_read reports overwritten only if the producer has begun to write over
\* the wanted sequence: neither an old snapshot nor a bounded number of
\* failed attempts is mistaken for it.
OverwrittenIsHonest ==
    [][\A h \in Handles : ReadOverwritten(h) => next_sequence[h] + Capacity <= Len(log)]_vars

\* A consumer that is told overwritten resumes at a retained sequence: one the
\* producer has not begun to write over.
OverwrittenResumesAtRetained ==
    [][\A h \in Handles : ReadOverwritten(h) => next_sequence'[h] + Capacity > Len(log)]_vars

\* try_read returns although nobody but its own thread is scheduled.
ReadReturns(h) == pc[h] # "idle" ~> pc[h] = "idle"

\* Once the producer stays outside try_publish, a handle that is not moved from
\* and keeps reading ends at the sequence behind the last one published,
\* whatever it lost on the way.
CatchesUp(h) ==
    <>[](publishing = "idle" /\ attached[h]) => <>[](next_sequence[h] = produced + 1)

=============================================================================
