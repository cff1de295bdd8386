---------------------------- MODULE AsyncLogger -----------------------------
(***************************************************************************)
(* AsyncFileLogger of framework/log/async_logger.go: writers put entries   *)
(* into a channel and drop them when it is full, writeLoop moves them to a *)
(* buffer and writes it in batches, and Close stops it.  Entries are known *)
(* by their place in the channel.  Files, levels and flushing are left     *)
(* out.                                                                    *)
(***************************************************************************)
EXTENDS Integers, Sequences, Functions

CONSTANTS
    MaxBuffer,      \* the channel's capacity
    BufferSize,     \* of a batch
    MaxEntries      \* bound: entries accepted

VARIABLES
    logChan,
    buffer,
    written,        \* what writeBatch has written, in order
    accepted,       \* entries accepted so far
    loop,           \* writeLoop: "running", "draining", "ended"
    closing,        \* Close: "open", "waiting", "closed"
    due             \* history: entries accepted before Close

vars == <<logChan, buffer, written, accepted, loop, closing, due>>

Entries == 1..MaxEntries

TypeOK ==
    /\ logChan \in Seq(Entries) /\ Len(logChan) <= MaxBuffer
    /\ buffer \in Seq(Entries) /\ Len(buffer) < BufferSize
    /\ written \in Seq(Entries)
    /\ accepted \in 0..MaxEntries /\ due \in 0..MaxEntries
    /\ loop \in {"running", "draining", "ended"}
    /\ closing \in {"open", "waiting", "closed"}

Init ==
    /\ logChan = <<>> /\ buffer = <<>> /\ written = <<>>
    /\ accepted = 0 /\ due = 0
    /\ loop = "running"
    /\ closing = "open"

-----------------------------------------------------------------------------
(* A writer, who drops the entry if the channel is full. *)
Write ==
    /\ accepted < MaxEntries /\ Len(logChan) < MaxBuffer
    /\ accepted' = accepted + 1
    /\ logChan' = Append(logChan, accepted')
    /\ due' = IF closing = "open" THEN accepted' ELSE due
    /\ UNCHANGED <<buffer, written, loop, closing>>

(* mutant: a batch is one entry longer *)
BufferLate(entry) ==
    LET full == Append(buffer, entry) IN
    IF Len(full) > BufferSize
      THEN written' = written \o full /\ buffer' = <<>>
      ELSE buffer' = full /\ UNCHANGED written

(* A batch that is complete is written, and the buffer is empty again. *)
Buffer(entry) ==
    LET full == Append(buffer, entry) IN
    IF Len(full) >= BufferSize
      THEN written' = written \o full /\ buffer' = <<>>
      ELSE buffer' = full /\ UNCHANGED written

TakeEntry ==
    /\ loop \in {"running", "draining"} /\ logChan # <<>>
    /\ Buffer(Head(logChan))
    /\ logChan' = Tail(logChan)
    /\ UNCHANGED <<accepted, loop, closing, due>>

(* The ticker of flushInterval. *)
TickerWrites ==
    /\ loop = "running" /\ buffer # <<>>
    /\ written' = written \o buffer
    /\ buffer' = <<>>
    /\ UNCHANGED <<logChan, accepted, loop, closing, due>>

(* Close: the stop channel is closed; select may still choose the others.  *)
BeginClose ==
    /\ closing = "open"
    /\ closing' = "waiting"
    /\ UNCHANGED <<logChan, buffer, written, accepted, loop, due>>

(* The loop sees it: the buffer is written, and stays in the buffer while  *)
(* the rest of the channel is added to it.                                 *)
SeeStop ==
    /\ loop = "running" /\ closing = "waiting"
    /\ loop' = "draining"
    /\ written' = written \o buffer
    /\ UNCHANGED <<logChan, buffer, accepted, closing, due>>

(* mutant: what is in the channel is left there *)
EndLoopEarly ==
    /\ loop = "draining"
    /\ loop' = "ended"
    /\ written' = written \o buffer
    /\ UNCHANGED <<logChan, buffer, accepted, closing, due>>

EndLoop ==
    /\ loop = "draining" /\ logChan = <<>>
    /\ loop' = "ended"
    /\ written' = written \o buffer
    /\ UNCHANGED <<logChan, buffer, accepted, closing, due>>

CloseReturns ==
    /\ closing = "waiting" /\ loop = "ended"
    /\ closing' = "closed"
    /\ UNCHANGED <<logChan, buffer, written, accepted, loop, due>>

Next ==
    \/ Write \/ TakeEntry \/ TickerWrites
    \/ BeginClose \/ SeeStop \/ EndLoop \/ CloseReturns

Spec == Init /\ [][Next]_vars

-----------------------------------------------------------------------------
(* Until it is told to stop the loop writes every accepted entry once and  *)
(* in order, whatever batches the ticker cuts.                             *)
WrittenInOrder ==
    loop = "running" => written \o buffer \o logChan = [i \in 1..accepted |-> i]

(* async_logger.go:118: nothing that was accepted before Close is lost. *)
CloseKeepsEntries == closing = "closed" => 1..due \subseteq Range(written)

LogKept == WrittenInOrder /\ CloseKeepsEntries
=============================================================================
