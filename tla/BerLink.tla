------------------------------ MODULE BerLink ------------------------------
(***************************************************************************)
(* The bit error rate test.  A writer and a reader thread of the sender    *)
(* share one transport: the writer sends the bytes of a fixed generator in *)
(* chunks, the receiver echoes every whole chunk, and the reader compares  *)
(* what returns with a generator of its own, the verifier, which it moves  *)
(* forward when the link lost bytes.  The main thread reports once a       *)
(* second and ends the test when a thread has ended.                       *)
(*                                                                         *)
(* A byte is its index in the generator's stream; Noise is a byte that is  *)
(* none of them.  A byte that differs from the one expected has half of    *)
(* its bits wrong, which is what two bytes of the generator differ by.     *)
(***************************************************************************)
EXTENDS Integers, Sequences, FiniteSetsExt, SequencesExt

CONSTANTS
  ChunkSize,     \* SS_BER_CHUNK_SIZE, scaled down
  SearchLimit,   \* SS_BER_RESYNC_SEARCH_LIMIT, scaled down
  LinkTypes,     \* "tcp" (reliable), "uart" (loses, damages, inserts bytes)
  MaxChunks,     \* bound: chunks the writer sends
  MaxFaults,     \* bound: damaged transmissions
  MaxBurst,      \* bound: bytes lost at once
  SpawnMayFail   \* TRUE: CreateThread may fail

ASSUME BerAssumption ==
  /\ ChunkSize \in Nat \ {0}
  /\ SearchLimit \in Nat /\ MaxChunks \in Nat /\ MaxFaults \in Nat
  /\ MaxBurst \in 1 .. ChunkSize
  /\ LinkTypes \subseteq {"tcp", "uart"}
  /\ SpawnMayFail \in BOOLEAN

Noise == -1

VARIABLES
  link,      \* transport->type
  open,      \* the sender's handle is open
  failed,    \* every later call on the sender's handle fails
  stop,      \* stop_requested
  main,      \* where the main thread is
  writer,    \* where the writer thread is
  written,   \* generator: the index of its next byte
  reader,    \* where the reader thread is
  buffer,    \* the reader's buffer
  verifier,  \* the index the reader expects next
  sent,      \* total_bits_sent, in bytes
  checked,   \* total_bits_checked, in bytes
  errors,    \* total_bit_errors, in damaged bytes
  resyncs,   \* total_resyncs
  outward,   \* bytes on the way to the receiver
  echo,      \* whether the receiver still relays
  back,      \* bytes on the way back
  faults, lost, inserted   \* what the link did so far

threads == <<stop, main, writer, written, reader, buffer, verifier>>
counts  == <<sent, checked, errors, resyncs>>
wire    == <<outward, back, faults, lost, inserted>>
berVars == <<link, open, failed, threads, counts, echo, wire>>

Usable == open /\ ~failed

BerInit ==
  /\ link \in LinkTypes
  /\ open = TRUE /\ failed = FALSE
  /\ stop = FALSE /\ main = "spawnWriter"
  /\ writer = "none" /\ written = 0
  /\ reader = "none" /\ buffer = <<>> /\ verifier = 0
  /\ sent = 0 /\ checked = 0 /\ errors = 0 /\ resyncs = 0
  /\ outward = <<>> /\ echo = "relay" /\ back = <<>>
  /\ faults = 0 /\ lost = 0 /\ inserted = 0

-----------------------------------------------------------------------------
(***************************************************************************)
(* The link: a UART may drop a run of a chunk's bytes, change one or add   *)
(* one; TCP delivers what was sent.                                        *)
(***************************************************************************)
Arrives(on, chunk) ==
  \/ on' = on \o chunk /\ UNCHANGED <<faults, lost, inserted>>
  \/ /\ link = "uart" /\ faults < MaxFaults /\ faults' = faults + 1
     /\ \/ \E n \in 1 .. MaxBurst : \E i \in 1 .. ChunkSize - n + 1 :
             /\ on' = on \o SubSeq(chunk, 1, i - 1)
                         \o SubSeq(chunk, i + n, ChunkSize)
             /\ lost' = lost + n
             /\ UNCHANGED inserted
        \/ \E i \in 1 .. ChunkSize :
             /\ on' = on \o [chunk EXCEPT ![i] = Noise]
             /\ UNCHANGED <<lost, inserted>>
        \/ \E i \in 1 .. ChunkSize :
             /\ on' = on \o InsertAt(chunk, i, Noise)
             /\ inserted' = inserted + 1
             /\ UNCHANGED lost

\* A call fails from now on: a device is unplugged, a connection is reset.
\* What was on its way is gone; what arrives before it is a later failure.
LinkFails ==
  /\ Usable
  /\ failed' = TRUE
  /\ outward' = <<>> /\ back' = <<>>
  /\ UNCHANGED <<link, open, threads, counts, echo, faults, lost, inserted>>

-----------------------------------------------------------------------------
(* The receiver: receiver_run_ber_mode                                     *)
EchoRelays ==
  /\ echo = "relay" /\ Len(outward) >= ChunkSize
  /\ outward' = SubSeq(outward, ChunkSize + 1, Len(outward))
  /\ Arrives(back, SubSeq(outward, 1, ChunkSize))
  /\ UNCHANGED <<link, open, failed, threads, counts, echo>>

\* The receiver ends.  Over TCP the sender's calls fail; a UART tells nobody.
EchoEnds ==
  /\ echo = "relay"
  /\ echo' = "done"
  /\ failed' = (failed \/ link = "tcp")
  /\ outward' = <<>>
  /\ back' = IF link = "tcp" THEN <<>> ELSE back
  /\ UNCHANGED <<link, open, threads, counts, faults, lost, inserted>>

-----------------------------------------------------------------------------
(* sender_ber_writer_thread                                                *)
WriterStarts ==
  /\ writer = "start"
  /\ writer' = IF stop THEN "done" ELSE "send"
  /\ UNCHANGED <<link, open, failed, stop, main, written, reader, buffer,
                 verifier, counts, echo, wire>>

WriterSends ==
  /\ writer = "send" /\ Usable
  /\ written < MaxChunks * ChunkSize
  /\ Arrives(outward, [i \in 1 .. ChunkSize |-> written + i - 1])
  /\ written' = written + ChunkSize
  /\ writer' = "count"
  /\ UNCHANGED <<link, open, failed, stop, main, reader, buffer, verifier,
                 counts, echo, back>>

WriterFails ==
  /\ writer = "send" /\ ~Usable
  /\ stop' = TRUE
  /\ writer' = "done"
  /\ UNCHANGED <<link, open, failed, main, written, reader, buffer, verifier,
                 counts, echo, wire>>

\* The writer counts the chunk and tests whether to go on.
WriterCounts ==
  /\ writer = "count"
  /\ sent' = sent + ChunkSize
  /\ writer' = IF stop THEN "done" ELSE "send"
  /\ UNCHANGED <<link, open, failed, stop, main, written, reader, buffer,
                 verifier, checked, errors, resyncs, echo, wire>>

-----------------------------------------------------------------------------
(* sender_ber_reader_thread                                                *)

\* ss_prbs_count_errors: the bytes that differ from those expected from v on.
CountErrors(v, chunk) ==
  Cardinality({i \in 1 .. ChunkSize : chunk[i] # v + i - 1})

\* rate < percent / 100, a damaged byte standing for half of its bits
RateBelow(bad, percent) == bad * 50 < percent * ChunkSize
Desynchronised(bad) == bad * 50 > 15 * ChunkSize

\* Mutant: the search ends one shift early.
TriedShort(v, chunk) ==
  {s \in 1 .. SearchLimit - 1 :
     \A earlier \in 1 .. s - 1 : ~RateBelow(CountErrors(v + earlier, chunk), 5)}

\* The search stops at the first shift that is good, not beyond it.
Tried(v, chunk) ==
  {s \in 1 .. SearchLimit :
     \A earlier \in 1 .. s - 1 : ~RateBelow(CountErrors(v + earlier, chunk), 5)}

\* Mutant: the shift with the fewest errors is taken however many those are.
ResyncShiftAnyway(v, chunk) ==
  LET Bad(s) == CountErrors(v + s, chunk)
      best == {s \in Tried(v, chunk) :
                 \A other \in Tried(v, chunk) : Bad(s) <= Bad(other)}
  IN IF Desynchronised(Bad(0)) THEN Max(best) ELSE 0

\* The first of the tried shifts with the fewest errors, and 0 when it has no
\* fewer than no shift has, or still too many.
ResyncShift(v, chunk) ==
  LET Bad(s) == CountErrors(v + s, chunk)
      best == {s \in Tried(v, chunk) :
                 \A other \in Tried(v, chunk) : Bad(s) <= Bad(other)}
      useful == {s \in best : Bad(s) < Bad(0) /\ RateBelow(Bad(s), 15)}
  IN IF Desynchronised(Bad(0)) /\ useful # {} THEN Min(useful) ELSE 0

ReaderStarts ==
  /\ reader = "start"
  /\ reader' = IF stop THEN "done" ELSE "recv"
  /\ UNCHANGED <<link, open, failed, stop, main, writer, written, buffer,
                 verifier, counts, echo, wire>>

ReaderReceives ==
  /\ reader = "recv" /\ Usable /\ Len(back) >= ChunkSize
  /\ buffer' = SubSeq(back, 1, ChunkSize)
  /\ back' = SubSeq(back, ChunkSize + 1, Len(back))
  /\ reader' = "check"
  /\ UNCHANGED <<link, open, failed, stop, main, writer, written, verifier,
                 counts, echo, outward, faults, lost, inserted>>

ReaderFails ==
  /\ reader = "recv" /\ ~Usable
  /\ stop' = TRUE
  /\ reader' = "done"
  /\ UNCHANGED <<link, open, failed, main, writer, written, buffer, verifier,
                 counts, echo, wire>>

\* The reader compares the chunk, counts and tests whether to go on.
ReaderChecks ==
  /\ reader = "check"
  /\ LET shift == ResyncShift(verifier, buffer) IN
       /\ errors' = errors + CountErrors(verifier + shift, buffer)
       /\ resyncs' = resyncs + (IF shift > 0 THEN 1 ELSE 0)
       /\ verifier' = verifier + shift + ChunkSize
  /\ checked' = checked + ChunkSize
  /\ buffer' = <<>>
  /\ reader' = IF stop THEN "done" ELSE "recv"
  /\ UNCHANGED <<link, open, failed, stop, main, writer, written, sent, echo,
                 wire>>

-----------------------------------------------------------------------------
(* sender_run_ber_mode, the main thread of the sender                      *)
Ended(thread) == thread = "done"
Joinable(thread) == thread \in {"done", "none"}

SpawnWriter ==
  /\ main = "spawnWriter" /\ main' = "spawnReader"
  /\ \/ writer' = "start" /\ UNCHANGED stop
     \/ SpawnMayFail /\ writer' = "none" /\ stop' = TRUE
  /\ UNCHANGED <<link, open, failed, written, reader, buffer, verifier,
                 counts, echo, wire>>

SpawnReader ==
  /\ main = "spawnReader" /\ main' = "watch"
  /\ \/ reader' = "start" /\ UNCHANGED stop
     \/ SpawnMayFail /\ reader' = "none" /\ stop' = TRUE
  /\ UNCHANGED <<link, open, failed, writer, written, buffer, verifier,
                 counts, echo, wire>>

\* The loop reports and waits until a thread has ended or asks to stop.
WatchThreads ==
  /\ main = "watch"
  /\ stop \/ Ended(writer) \/ Ended(reader)
  /\ stop' = TRUE
  /\ main' = "close"
  /\ UNCHANGED <<link, open, failed, writer, written, reader, buffer, verifier,
                 counts, echo, wire>>

\* Mutant: the transport is left open while the threads are joined.
CloseLinkLater ==
  /\ main = "close"
  /\ main' = "join"
  /\ UNCHANGED <<link, open, failed, stop, writer, written, reader, buffer,
                 verifier, counts, echo, wire>>

CloseLink ==
  /\ main = "close"
  /\ open' = FALSE
  /\ main' = "join"
  /\ UNCHANGED <<link, failed, stop, writer, written, reader, buffer, verifier,
                 counts, echo, wire>>

JoinBer ==
  /\ main = "join"
  /\ Joinable(writer) /\ Joinable(reader)
  /\ main' = "done"
  /\ UNCHANGED <<link, open, failed, stop, writer, written, reader, buffer,
                 verifier, counts, echo, wire>>

-----------------------------------------------------------------------------
BerSteps ==
  \/ EchoRelays
  \/ WriterStarts \/ WriterSends \/ WriterFails \/ WriterCounts
  \/ ReaderStarts \/ ReaderReceives \/ ReaderFails \/ ReaderChecks
  \/ SpawnWriter \/ SpawnReader \/ WatchThreads \/ CloseLink \/ JoinBer

BerNext == BerSteps \/ LinkFails \/ EchoEnds

BerSpec == BerInit /\ [][BerNext]_berVars

\* Every thread and the receiver keep running; nothing makes the link fail.
FairBerSpec ==
  /\ BerSpec
  /\ WF_berVars(WriterStarts \/ WriterSends \/ WriterFails \/ WriterCounts)
  /\ WF_berVars(ReaderStarts \/ ReaderReceives \/ ReaderFails \/ ReaderChecks)
  /\ WF_berVars(SpawnWriter \/ SpawnReader \/ WatchThreads \/ CloseLink
                  \/ JoinBer)
  /\ WF_berVars(EchoRelays)

-----------------------------------------------------------------------------
\* The bytes are consecutive bytes of the generator.
Intact(chunk) ==
  chunk[1] # Noise /\ \A i \in 1 .. ChunkSize : chunk[i] = chunk[1] + i - 1

(***************************************************************************)
(* After any damage the reader is aligned with the stream again as soon as *)
(* one whole chunk arrives undamaged, provided that the link inserted      *)
(* nothing and lost no more bytes in all than the search looks ahead.      *)
(***************************************************************************)
IntactChunkRealigns ==
  [][/\ reader = "check" /\ reader' # "check"
     /\ Intact(buffer)
     /\ inserted = 0 /\ lost <= SearchLimit
     => verifier' = buffer[ChunkSize] + 1]_berVars

(***************************************************************************)
(* The reader counts no more resynchronisations than bytes were lost, and  *)
(* no damage on a link that did none.  It may count a chunk before the     *)
(* writer has counted sending it, and is ahead by at most that chunk and   *)
(* what the link inserted.                                                 *)
(***************************************************************************)
CountsAreDeserved ==
  /\ resyncs <= lost
  /\ faults = 0 => errors = 0
  /\ checked <= sent + ChunkSize + inserted

(***************************************************************************)
(* Once a call on the link fails or a thread could not be created, the     *)
(* test ends with both threads joined.                                     *)
(***************************************************************************)
BerEnds == (failed \/ stop) ~> (main = "done" /\ ~open)
=============================================================================
