----------------------------- MODULE JsonlSink -----------------------------
(***************************************************************************)
(* trace_sinks/jsonl.py: a bounded asyncio queue between the tasks that     *)
(* emit and the one writer task, which owns the file and rotates it.  In   *)
(* mode "drop_new" a full queue loses the line, in mode "block" the task   *)
(* waits.  Closing puts a stop marker behind the lines.                    *)
(***************************************************************************)
EXTENDS Integers, Sequences, SequencesExt, FiniteSets

CONSTANTS
  Runs,           \* the runs whose tasks emit
  JsonlClosers,   \* callers of aclose()
  QueueSize,
  RotationLines,  \* rotation_bytes, in lines
  RotationCount

\* The stop marker, which is neither a line nor a run.
Stop == <<"stop">>

ASSUME JsonlAssumption ==
  /\ QueueSize \in Nat \ {0} /\ RotationLines \in Nat \ {0} /\ RotationCount \in Nat \ {0}
  /\ IsFiniteSet(Runs) /\ Runs \cap JsonlClosers = {} /\ Stop \notin Runs

VARIABLES
  overflow,  \* the configured mode
  queue,     \* lines and at most one Stop
  putters,   \* who waits for a slot, in order: runs, and Stop
  woken,     \* those a taken item has woken
  putting,   \* the line each waiting run holds
  writer,    \* the writer task: "none", "running" or "done"
  closing,   \* _closed and the close task: "no", "asked", "draining", "done"
  jcloser,   \* how far each aclose() has come
  handed,    \* the lines whose emit() has returned, accepted
  due,       \* the lines handed over before the sink was closed
  failed, dropped, late,  \* the lines counted as such
  laid,      \* what the writer put into the file, in order
  disk       \* the pieces in the file, 0, and in its older generations

jsonlVars == <<overflow, queue, putters, woken, putting, writer, closing, jcloser,
               handed, due, failed, dropped, late, laid, disk>>
accounts == <<handed, due, failed, dropped, late, laid>>

NoLine == <<>>

\* A line in the file: counted as written, torn off, or whole but not synced.
Piece(line, how) == [line |-> line, how |-> how]
Whole(file) == {i \in DOMAIN file : file[i].how # "torn"}
Written == {p.line : p \in {q \in ToSet(laid) : q.how = "written"}}

Generations == 0 .. RotationCount
Full == Len(queue) >= QueueSize

JsonlInit ==
  /\ overflow \in {"drop_new", "block"}
  /\ queue = <<>> /\ putters = <<>> /\ woken = {} /\ putting = [r \in Runs |-> NoLine]
  /\ writer = "none" /\ closing = "no" /\ jcloser = [c \in JsonlClosers |-> "idle"]
  /\ handed = {} /\ due = {} /\ laid = <<>> /\ failed = {} /\ dropped = {} /\ late = {}
  /\ disk = [g \in Generations |-> <<>>]

-----------------------------------------------------------------------------
\* emit() up to its first suspension: run r offers a line.  It returns at once
\* unless the mode is "block" and the queue is full.
JsonlOffer(r, line) ==
  /\ putting[r] = NoLine
  /\ IF closing # "no"
     THEN /\ late' = late \cup {line}
          /\ UNCHANGED <<queue, putters, putting, writer, handed, dropped>>
     ELSE /\ writer' = IF writer = "none" THEN "running" ELSE writer
          /\ UNCHANGED late
          /\ CASE ~Full ->
                    /\ queue' = Append(queue, line) /\ handed' = handed \cup {line}
                    /\ UNCHANGED <<putters, putting, dropped>>
               [] Full /\ overflow = "drop_new" ->
                    /\ dropped' = dropped \cup {line}
                    /\ UNCHANGED <<queue, putters, putting, handed>>
               [] Full /\ overflow = "block" ->
                    /\ putters' = Append(putters, r)
                    /\ putting' = [putting EXCEPT ![r] = line]
                    /\ UNCHANGED <<queue, handed, dropped>>
  /\ UNCHANGED <<overflow, woken, closing, jcloser, due, failed, laid, disk>>

\* asyncio.Queue: a woken putter looks again, and waits anew at the end of the
\* line if somebody has taken the slot.
Resume(who, item) ==
  /\ who \in woken
  /\ woken' = woken \ {who}
  /\ IF Full THEN putters' = Append(putters, who) /\ UNCHANGED queue
             ELSE queue' = Append(queue, item) /\ UNCHANGED putters

JsonlResume(r) ==
  /\ Resume(r, putting[r])
  /\ putting' = IF Full THEN putting ELSE [putting EXCEPT ![r] = NoLine]
  /\ handed' = IF Full THEN handed ELSE handed \cup {putting[r]}
  /\ UNCHANGED <<overflow, writer, closing, jcloser, due, failed, dropped, late, laid, disk>>

\* The first in line is woken.
Wake(line, up) ==
  IF line = <<>> THEN putters' = line /\ woken' = up
  ELSE putters' = Tail(line) /\ woken' = up \cup {Head(line)}

\* Deque.remove: an emit waits at most once.
Without(line, who) ==
  IF \E i \in DOMAIN line : line[i] = who
  THEN RemoveAt(line, CHOOSE i \in DOMAIN line : line[i] = who) ELSE line

\* A deadline or cancellation strikes a waiting emit: it is not accepted after
\* all, and a slot it was woken for goes to the next.
JsonlGiveUp(r) ==
  /\ putting[r] # NoLine
  /\ putting' = [putting EXCEPT ![r] = NoLine]
  /\ LET others == Without(putters, r)
     IN IF r \in woken /\ ~Full THEN Wake(others, woken \ {r})
        ELSE putters' = others /\ woken' = woken \ {r}
  /\ UNCHANGED <<overflow, queue, writer, closing, jcloser, accounts, disk>>

-----------------------------------------------------------------------------
\* aclose().
JsonlClose(c) ==
  /\ jcloser[c] = "idle"
  /\ IF closing = "no"
     THEN /\ closing' = IF writer = "none" THEN "done" ELSE "asked"
          /\ due' = handed
     ELSE UNCHANGED <<closing, due>>
  /\ jcloser' = [jcloser EXCEPT ![c] = IF closing' = "done" THEN "returned" ELSE "waiting"]
  /\ UNCHANGED <<overflow, queue, putters, woken, putting, writer, handed, failed, dropped,
                 late, laid, disk>>

\* Mutant: the marker is put without waiting for a slot.
PutStopNow ==
  /\ closing = "asked"
  /\ closing' = "draining"
  /\ queue' = IF Full THEN queue ELSE Append(queue, Stop)
  /\ UNCHANGED <<overflow, putters, woken, putting, writer, jcloser, accounts, disk>>

\* _finish_close puts the marker: at once, or when a slot is left to it.
PutStop ==
  /\ closing = "asked"
  /\ closing' = "draining"
  /\ IF Full THEN putters' = Append(putters, Stop) /\ UNCHANGED queue
             ELSE queue' = Append(queue, Stop) /\ UNCHANGED putters
  /\ UNCHANGED <<overflow, woken, putting, writer, jcloser, accounts, disk>>

ResumeStop ==
  /\ Resume(Stop, Stop)
  /\ UNCHANGED <<overflow, putting, writer, closing, jcloser, accounts, disk>>

JsonlCloseReturns(c) ==
  /\ jcloser[c] = "waiting" /\ closing = "draining" /\ writer = "done"
  /\ jcloser' = [jcloser EXCEPT ![c] = "returned"]
  /\ UNCHANGED <<overflow, queue, putters, woken, putting, writer, closing, accounts, disk>>

-----------------------------------------------------------------------------
\* Mutant: the current file is not moved to the first generation.
RotatedOver(d, k) ==
  [g \in Generations |-> IF g > k /\ g > 1 THEN d[g - 1] ELSE IF g <= 1 THEN <<>> ELSE d[g]]

\* _rotate_files as far as generation k: the oldest file is unlinked, then each
\* generation from the oldest down to k is renamed upwards.  0 is all of it.
Rotated(d, k) ==
  [g \in Generations |-> IF g > k THEN d[g - 1] ELSE IF g = k THEN <<>> ELSE d[g]]

\* The disk before a line is appended.  A file with room for no further line
\* is rotated; one with torn pieces may have room or not.
Rooms ==
  (IF Cardinality(Whole(disk[0])) < RotationLines THEN {disk} ELSE {})
    \cup (IF Len(disk[0]) >= RotationLines THEN {Rotated(disk, 0)} ELSE {})

\* What a failure leaves that comes before the write: the file as it was, or a
\* rotation that got anywhere.
Botched ==
  {disk} \cup Rooms
    \cup (IF Len(disk[0]) >= RotationLines THEN {Rotated(disk, k) : k \in Generations} ELSE {})

\* The write itself, into a file that has room.
Lay(line, how) ==
  /\ laid' = Append(laid, Piece(line, how))
  /\ \E room \in Rooms : disk' = [room EXCEPT ![0] = Append(@, Piece(line, how))]

Take == queue # <<>> /\ writer = "running" /\ queue' = Tail(queue) /\ Wake(putters, woken)

\* One round of _writer_main, which suspends only in queue.get().
WriteLine ==
  /\ Take /\ Head(queue) # Stop
  /\ Lay(Head(queue), "written")
  /\ UNCHANGED <<overflow, putting, writer, closing, jcloser, handed, due, failed, dropped, late>>

\* os.write may stop half-way, and os.fsync may fail behind a complete write:
\* the line is counted as failed all the same.
WriteFails ==
  /\ Take /\ Head(queue) # Stop
  /\ failed' = failed \cup {Head(queue)}
  /\ \/ disk' \in Botched /\ UNCHANGED laid
     \/ \E how \in {"torn", "whole"} : Lay(Head(queue), how)
  /\ UNCHANGED <<overflow, putting, writer, closing, jcloser, handed, due, dropped, late>>

WriterStops ==
  /\ Take /\ Head(queue) = Stop
  /\ writer' = "done"
  /\ UNCHANGED <<overflow, putting, closing, jcloser, accounts, disk>>

JsonlWriter == WriteLine \/ WriteFails \/ WriterStops

JsonlIdle == UNCHANGED jsonlVars

-----------------------------------------------------------------------------
\* From the oldest piece to the newest.
Lines(d) == FlattenSeq([i \in 1 .. RotationCount + 1 |-> d[RotationCount + 1 - i]])

\* Closing loses nothing that was handed over: when aclose() returns, every
\* line whose emit() had returned by then is written or counted as failed, in
\* either mode, although woken emits may overtake the stop marker or come
\* behind it.
CloseDrains ==
  \A c \in JsonlClosers : jcloser[c] = "returned" => due \subseteq Written \cup failed

\* The documentation's promise for every accepted line: nothing a suspended
\* emit() has had accepted is left in the queue of a closed sink.
CloseDrainsAccepted ==
  (\E c \in JsonlClosers : jcloser[c] = "returned") => handed \subseteq Written \cup failed

\* However rotations and writes fail half-way, the files together hold the
\* last of what was put into them, in order and without a gap; and nothing is
\* given up before its time when nothing has failed.
FilesHoldTheTail ==
  LET kept == Lines(disk) IN
    /\ Len(kept) <= Len(laid)
    /\ kept = SubSeq(laid, Len(laid) - Len(kept) + 1, Len(laid))
    /\ failed = {} => kept = laid \/ Len(kept) > RotationCount * RotationLines

\* What the sink has taken on is in its files, in order, when it is closed.
FilesHoldWhatIsDue == CloseDrains /\ FilesHoldTheTail
=============================================================================
