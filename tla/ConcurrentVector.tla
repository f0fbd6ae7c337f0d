-------------------------- MODULE ConcurrentVector --------------------------
(***************************************************************************)
(* GLIM's ConcurrentVector: a deque behind a mutex and a condition         *)
(* variable, with a data store policy and an end-of-data flag, used by     *)
(* every GLIM stage.  Elements are numbered 1, 2, ... in the order they    *)
(* are pushed.  An operation under the mutex is one step; a waiting read   *)
(* takes two, because it holds the mutex between its test of the wait      *)
(* predicate and its entry into the wait set, while submit_end_of_data     *)
(* takes no mutex at all.                                                  *)
(***************************************************************************)
EXTENDS Integers, Sequences

CONSTANTS
  Poppers,     \* threads that call pop_wait in a loop (DeskewingModule)
  Drainers,    \* threads that call get_all_and_clear_wait (loop detection)
  MaxSize,     \* DataStorePolicy::max_size
  DropOldest,  \* DataStorePolicy::pop_front
  MaxPush,     \* bound: elements pushed
  MaxBatch     \* bound: elements of one insert, or of one get_and_clear

ASSUME ThreadsAssumption == Poppers \cap Drainers = {}
ASSUME SizeAssumption == MaxSize \in Nat \ {0} /\ DropOldest \in BOOLEAN
ASSUME BoundAssumption == MaxPush \in Nat /\ MaxBatch \in Nat

VARIABLES
  values,   \* the deque
  pushed,   \* number of the last element pushed
  taken,    \* elements handed to readers
  last,     \* the newest element handed to a reader
  pc,       \* where each waiting reader stands
  closing,  \* how far the owner's destructor has come
  missed    \* readers between test and wait when the end was notified

vars == <<values, pushed, taken, last, pc, closing, missed>>

Waiters == Poppers \cup Drainers

\* run: between two reads; tested: holds the mutex, its predicate was false;
\* wait: in the wait set; woken: notified, will test again; ended: returned.
Places == {"run", "tested", "wait", "woken", "ended"}

\* open, then kill_switch set, end_of_data set, cond.notify_all() done.
Stages == {"open", "killed", "flagged", "closed"}

Elems(q) == {q[i] : i \in DOMAIN q}

MutexFree == \A c \in Waiters : pc[c] # "tested"

EndOfData == closing \in {"flagged", "closed"}

\* Mutant: the policy erases at the wrong end.
RegulateOtherEnd(q) == IF Len(q) <= MaxSize THEN q ELSE SubSeq(q, 1, MaxSize)

\* DataStorePolicy::regulate erases as many elements as there are too many.
Regulate(q) ==
  IF Len(q) <= MaxSize THEN q
  ELSE IF DropOldest THEN SubSeq(q, Len(q) - MaxSize + 1, Len(q))
       ELSE SubSeq(q, 1, MaxSize)

Batch(n) == [i \in 1 .. n |-> pushed + i]

Init ==
  /\ values = <<>> /\ pushed = 0 /\ taken = {} /\ last = 0
  /\ pc = [c \in Waiters |-> "run"]
  /\ closing = "open" /\ missed = {}

\* Mutant: no notification.
NotifyNone == pc' = pc

NotifyAll == pc' = [c \in Waiters |-> IF pc[c] = "wait" THEN "woken" ELSE pc[c]]

NotifyOne ==
  \/ \E c \in Waiters : pc[c] = "wait" /\ pc' = [pc EXCEPT ![c] = "woken"]
  \/ (\A c \in Waiters : pc[c] # "wait") /\ pc' = pc

PushBack ==
  /\ MutexFree /\ pushed < MaxPush
  /\ values' = Regulate(Append(values, pushed + 1))
  /\ pushed' = pushed + 1
  /\ NotifyOne
  /\ UNCHANGED <<taken, last, closing, missed>>

\* An empty container returns before the mutex and the notification.
Insert ==
  \E n \in 1 .. MaxBatch :
    /\ MutexFree /\ pushed + n <= MaxPush
    /\ values' = Regulate(values \o Batch(n))
    /\ pushed' = pushed + n
    /\ NotifyAll
    /\ UNCHANGED <<taken, last, closing, missed>>

\* Mutant: the front is returned, the back is erased.
TakeAndEraseBack(n) ==
  /\ values' = SubSeq(values, 1, Len(values) - n)
  /\ taken' = taken \cup Elems(SubSeq(values, 1, n))
  /\ last' = IF n = 0 THEN last ELSE values[n]
  /\ UNCHANGED <<pushed, closing, missed>>

\* Erase the first n elements and hand them to the caller.
TakeFirst(n) ==
  /\ values' = SubSeq(values, n + 1, Len(values))
  /\ taken' = taken \cup Elems(SubSeq(values, 1, n))
  /\ last' = IF n = 0 THEN last ELSE values[n]
  /\ UNCHANGED <<pushed, closing, missed>>

\* pop, get_and_clear(n), get_all_and_clear and clear, called by any thread.
Pop == MutexFree /\ Len(values) > 0 /\ TakeFirst(1) /\ UNCHANGED pc

GetAndClear ==
  /\ MutexFree /\ Len(values) > 0
  /\ \E n \in 1 .. MaxBatch :
       TakeFirst(IF Len(values) <= n THEN Len(values) ELSE n)
  /\ UNCHANGED pc

GetAllAndClear ==
  MutexFree /\ Len(values) > 0 /\ TakeFirst(Len(values)) /\ UNCHANGED pc

\* The predicate of pop_wait and get_all_and_clear_wait, on the first call and
\* after each wake-up: it takes what it finds, and an empty queue ends the
\* caller's loop once end_of_data is set (pop_wait: nullopt; the loop
\* detection thread tests kill_switch, which was set before the flag).
TestTakes(c) ==
  /\ pc[c] \in {"run", "woken"} /\ MutexFree /\ Len(values) > 0
  /\ TakeFirst(IF c \in Poppers THEN 1 ELSE Len(values))
  /\ pc' = [pc EXCEPT ![c] = "run"]

TestEnds(c) ==
  /\ pc[c] \in {"run", "woken"} /\ MutexFree /\ values = <<>> /\ EndOfData
  /\ pc' = [pc EXCEPT ![c] = "ended"]
  /\ UNCHANGED <<values, pushed, taken, last, closing, missed>>

TestFails(c) ==
  /\ pc[c] \in {"run", "woken"} /\ MutexFree /\ values = <<>> /\ ~EndOfData
  /\ pc' = [pc EXCEPT ![c] = "tested"]
  /\ UNCHANGED <<values, pushed, taken, last, closing, missed>>

\* cond.wait enters the wait set and releases the mutex.
Block(c) ==
  /\ pc[c] = "tested"
  /\ pc' = [pc EXCEPT ![c] = "wait"]
  /\ UNCHANGED <<values, pushed, taken, last, closing, missed>>

SpuriousWake(c) ==
  /\ pc[c] = "wait"
  /\ pc' = [pc EXCEPT ![c] = "woken"]
  /\ UNCHANGED <<values, pushed, taken, last, closing, missed>>

\* The reader's loop condition: while (!kill_switch || !empty()) for the
\* deskewing thread, while (!kill_switch) for the loop detection thread.
LeaveLoop(c) ==
  /\ pc[c] = "run" /\ closing # "open"
  /\ c \in Poppers => MutexFree /\ values = <<>>
  /\ pc' = [pc EXCEPT ![c] = "ended"]
  /\ UNCHANGED <<values, pushed, taken, last, closing, missed>>

\* The owner's destructor: kill_switch = true; submit_end_of_data(); join.
SetKillSwitch ==
  /\ closing = "open" /\ closing' = "killed"
  /\ UNCHANGED <<values, pushed, taken, last, pc, missed>>

SetEndOfData ==
  /\ closing = "killed" /\ closing' = "flagged"
  /\ UNCHANGED <<values, pushed, taken, last, pc, missed>>

NotifyEnd ==
  /\ closing = "flagged" /\ closing' = "closed"
  /\ missed' = {c \in Waiters : pc[c] = "tested"}
  /\ NotifyAll
  /\ UNCHANGED <<values, pushed, taken, last>>

Submit == SetKillSwitch \/ SetEndOfData \/ NotifyEnd

Read(c) == TestTakes(c) \/ TestEnds(c) \/ TestFails(c) \/ Block(c) \/ LeaveLoop(c)

Next ==
  \/ PushBack \/ Insert \/ Pop \/ GetAndClear \/ GetAllAndClear \/ Submit
  \/ \E c \in Waiters : Read(c) \/ SpuriousWake(c)

\* The readers and the destructor run; nothing forces a push, a read by
\* another thread or a spurious wake-up.  A reader competes for the mutex
\* with finitely many pushes, so weak fairness is enough.
Spec == Init /\ [][Next]_vars /\ (\A c \in Waiters : WF_vars(Read(c))) /\ WF_vars(Submit)

-----------------------------------------------------------------------------
TypeOK ==
  /\ values \in Seq(Nat) /\ Len(values) <= MaxSize
  /\ pushed \in Nat /\ taken \subseteq Nat /\ last \in Nat
  /\ pc \in [Waiters -> Places]
  /\ closing \in Stages /\ missed \subseteq Waiters

(***************************************************************************)
(* First in, first out, across pushes, batches, discards and all five      *)
(* ways of reading: the queue is ordered, and everything in it is newer    *)
(* than everything any reader has been given, so nothing is delivered      *)
(* twice or late.                                                          *)
(***************************************************************************)
InOrder ==
  /\ \A i, j \in DOMAIN values : i < j => values[i] < values[j]
  /\ \A i \in DOMAIN values : last < values[i] /\ values[i] <= pushed
  /\ \A e \in taken : e <= last

(***************************************************************************)
(* No reader sleeps on data: when the queue holds something and a reader   *)
(* is in the wait set, some reader is awake to take it.  push_back         *)
(* notifies one reader only, so this is about notify_one against several   *)
(* waiting threads.                                                        *)
(***************************************************************************)
NoSleepOnData ==
  (values # <<>> /\ \E c \in Waiters : pc[c] = "wait")
    => \E c \in Waiters : pc[c] \in {"run", "woken"}

(***************************************************************************)
(* Every reader that was not between its test and its wait when the end    *)
(* was notified ends, whatever is still queued.                            *)
(***************************************************************************)
EndWakesOthers ==
  \A c \in Waiters : (closing = "closed" /\ c \notin missed) ~> pc[c] = "ended"

(***************************************************************************)
(* The queue implements the channel of Fifo: what its readers receive,     *)
(* together, is what was pushed, in that order and once, with gaps only    *)
(* where the store policy had to discard.                                  *)
(***************************************************************************)
Channel == INSTANCE Fifo WITH sent <- pushed, received <- taken, newest <- last

ImplementsFifo == Channel!Spec

(***************************************************************************)
(* What the comment of pop_wait says: the call waits until new data        *)
(* arrives or the end of data is submitted.  Hence every reader ends and   *)
(* the destructor's join returns.                                          *)
(***************************************************************************)
EndWakes == \A c \in Waiters : (closing = "closed") ~> (pc[c] = "ended")
=============================================================================
