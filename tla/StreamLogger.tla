---------------------------- MODULE StreamLogger ----------------------------
(***************************************************************************)
(* The stream logger of filter-ground: a StreamLoggerHandler builds a      *)
(* record and hands it to the StreamLoggerWriter when it is destroyed; the *)
(* writer is a LockFreeQueueThread that prints what it pops.  A record is  *)
(* a shared_ptr that queueable_t carries through the lock-free queue as    *)
(* plain bytes, so its references are counted by hand there: refs is the   *)
(* count, and a record is reused here when it is free.  What a record says *)
(* is left out.                                                            *)
(*                                                                         *)
(* Composes LockFreeQueueThread: its producers are the threads that log,   *)
(* and each of its steps does here what it does to the records.            *)
(***************************************************************************)
EXTENDS LockFreeQueueThread, Sequences, SequencesExt

CONSTANTS Records,      \* the log records
          NoRecord,     \* none of them
          Levels,       \* StreamLoggerConfig::Level
          ValidLevels   \* those the configuration lets through

ASSUME RecordAssumption == NoRecord \notin Records /\ ValidLevels \subseteq Levels

VARIABLES data,   \* data_ of the handler of each thread
          fifo,   \* what waiter_ holds, in order
          item,   \* the record that run() has popped
          refs,   \* the use count of each record
          lines,  \* how often each record has been printed or withheld
          failed_push  \* the threads whose push() has not returned 0

recordVars == <<data, fifo, item, refs, lines, failed_push>>
loggerVars == <<vars, recordVars>>

LoggerInit == /\ Init
              /\ data = [p \in Producers |-> NoRecord]
              /\ fifo = <<>>
              /\ item = NoRecord
              /\ refs = [r \in Records |-> 0]
              /\ lines = [r \in Records |-> 1]
              /\ failed_push = {}

AddRefs(r, n) == refs' = [refs EXCEPT ![r] = @ + n]
Write(r) == lines' = [lines EXCEPT ![r] = @ + 1]
-----------------------------------------------------------------------------
(* The handler *)

\* Its constructor makes a record, unless the level is not wanted.
Build(p) == /\ data[p] = NoRecord
            /\ \E level \in Levels :
                  IF level \in ValidLevels
                  THEN \E r \in Records :
                          /\ refs[r] = 0
                          /\ data' = [data EXCEPT ![p] = r]
                          /\ AddRefs(r, 1)
                          /\ lines' = [lines EXCEPT ![r] = 0]
                  ELSE UNCHANGED <<data, refs, lines>>
            /\ UNCHANGED <<vars, fifo, item, failed_push>>

\* Its destructor calls StreamLoggerWriter::push() with a copy of data_, of which
\* queueable_t makes another: admitted by the queue, ...
PushAdmitted(p) == /\ data[p] # NoRecord /\ p \notin failed_push
                   /\ Q!PushAdmit(p)
                   /\ AddRefs(data[p], 2)
                   /\ UNCHANGED <<threadVars, callVars, data, fifo, item, lines, failed_push>>

\* ... or turned away because it is closed, when both copies are gone again.
PushClosed(p) == /\ data[p] # NoRecord /\ p \notin failed_push
                 /\ push[p] = "idle" /\ ~open
                 /\ failed_push' = failed_push \cup {p}
                 /\ UNCHANGED <<vars, data, fifo, item, refs, lines>>

PushStored(p) == /\ Q!PushStore(p)
                 /\ fifo' = Append(fifo, data[p])
                 /\ UNCHANGED <<threadVars, callVars, data, item, refs, lines, failed_push>>

\* Seeded bug: handle_return() does not destroy the queue item.
PushRejected_Leaks(p) == /\ Q!PushFull(p)
                         /\ AddRefs(data[p], -1)
                         /\ failed_push' = failed_push \cup {p}
                         /\ UNCHANGED <<threadVars, callVars, data, fifo, item, lines>>

\* The queue is full: handle_return() destroys the item, and push() returns.
PushRejected(p) == /\ Q!PushFull(p)
                   /\ AddRefs(data[p], -2)
                   /\ failed_push' = failed_push \cup {p}
                   /\ UNCHANGED <<threadVars, callVars, data, fifo, item, lines>>

\* push() returns 0: the argument and data_ are gone, the queue's reference stays.
PushReturns(p) == /\ Q!PushCount(p)
                  /\ AddRefs(data[p], -2)
                  /\ data' = [data EXCEPT ![p] = NoRecord]
                  /\ UNCHANGED <<threadVars, callVars, fifo, item, lines, failed_push>>

\* The thread prints the record itself, without user_log_func.
PrintHere(p) == /\ p \in failed_push
                /\ failed_push' = failed_push \ {p}
                /\ Write(data[p])
                /\ AddRefs(data[p], -1)
                /\ data' = [data EXCEPT ![p] = NoRecord]
                /\ UNCHANGED <<vars, fifo, item>>

LogProgress(p) == \/ PushStored(p) \/ PushRejected(p) \/ PushReturns(p) \/ PrintHere(p)
-----------------------------------------------------------------------------
(* StreamLoggerWriter::run() *)

\* pop() copies the bytes of the item: the queue's reference is run()'s now.
Take == /\ Q!PopTake
        /\ item' = Head(fifo)
        /\ fifo' = Tail(fifo)
        /\ UNCHANGED <<threadVars, callVars, data, refs, lines, failed_push>>

\* take() has moved the item to data; user_log_func, if there is one, is called; the
\* record is printed, or withheld when it returns false; and data goes out of scope.
PrintTaken == /\ Q!Handled
              /\ Write(item)
              /\ AddRefs(item, -1)
              /\ item' = NoRecord
              /\ UNCHANGED <<threadVars, callVars, data, fifo, failed_push>>

\* The steps of the thread that touch no record.
OtherPops == Q!PopCount \/ Q!PopMiss \/ Q!AdaptivePop

WriterRuns == \/ Take \/ PrintTaken
              \/ /\ \/ ExecBegin \/ ExecReturns \/ ExecEnd
                    \/ OtherPops /\ UNCHANGED <<threadVars, callVars>>
                 /\ UNCHANGED recordVars
-----------------------------------------------------------------------------
LoggerNext ==
    \/ \E c \in Controllers :
          /\ \/ StartAlreadyOpen(c) \/ StartSeesClosed(c)
             \/ StopAlreadyClosed(c) \/ StopSeesOpen(c)
             \/ CtlProgress(c) \/ SpuriousWake(c)
          /\ UNCHANGED recordVars
    \/ WriterRuns
    \/ \E p \in Producers : Build(p) \/ PushAdmitted(p) \/ PushClosed(p) \/ LogProgress(p)

LoggerSpec ==
    /\ LoggerInit
    /\ [][LoggerNext]_loggerVars
    /\ WF_loggerVars(WriterRuns)
    /\ \A c \in Controllers : WF_loggerVars(CtlProgress(c) /\ UNCHANGED recordVars)
    /\ \A p \in Producers : WF_loggerVars(LogProgress(p))
-----------------------------------------------------------------------------
\* The references to a record: data_ of a handler, the two copies in push(), the bytes
\* in the queue or in a queue item that is going to be stored, and the item of run().
Holders(r) ==
    Cardinality({p \in Producers : data[p] = r})
    + Cardinality({p \in Producers : data[p] = r /\ push[p] # "idle"})
    + Cardinality({p \in Producers : data[p] = r /\ push[p] = "admitted"})
    + Cardinality({i \in 1..Len(fifo) : fifo[i] = r})
    + (IF item = r THEN 1 ELSE 0)

(***************************************************************************)
(* queueable_t and StreamLoggerWriter::push(): the count kept by hand is   *)
(* that of the references there are, so no record is freed while the queue *)
(* or the writer still has it and none is kept for ever; and a record is   *)
(* free only after it was written, by the writer or by the thread that     *)
(* could not queue it, and never twice.                                    *)
(***************************************************************************)
EachRecordOnce ==
    \A r \in Records :
        /\ refs[r] = Holders(r)
        /\ refs[r] = 0 => lines[r] = 1
        /\ r \in Range(fifo) \cup {item} => lines[r] = 0
=============================================================================
