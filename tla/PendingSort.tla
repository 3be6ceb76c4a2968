----------------------------- MODULE PendingSort -----------------------------
(***************************************************************************)
(* bc_hrbl_encoder_pending_sort                                            *)
(* (src/src/writer/bc_hrbl_writer_encoder.c): orders the entries of a      *)
(* block, or of the root index, by key hash.  Up to InsertionLimit entries *)
(* are sorted by insertion; more by a radix sort, one byte a pass, which   *)
(* is spread over threads when there are at least ParallelMinimum entries  *)
(* and two workers.                                                        *)
(*                                                                         *)
(* In a pass of the parallel sort the main thread creates one counting     *)
(* thread per chunk and joins them, turns their counts into write          *)
(* positions, then creates one scattering thread per chunk and joins them. *)
(* pthread_create may fail at any worker.  A thread handles one entry a    *)
(* step; threads are numbered as in the code, and an entry carries its     *)
(* original index (id), so that stability can be stated.                   *)
(***************************************************************************)
EXTENDS Integers, FiniteSets

CONSTANTS
    MaxCount,         \* bound: most entries in one sort
    MaxWorkers,       \* bound: largest options.worker_count
    Radix,            \* values of a digit, 256 in the code
    Passes,           \* digits of a hash, 8 in the code
    InsertionLimit,   \* 32 in the code
    ParallelMinimum,  \* 10000 in the code
    Garbage           \* content of memory nobody has written

ASSUME SortAssumption ==
    /\ MaxCount \in Nat
    /\ MaxWorkers \in Nat
    /\ Radix \in Nat \ {0}
    /\ Passes \in Nat \ {0}
    /\ Passes % 2 = 0
    /\ InsertionLimit \in Nat \ {0}
    /\ ParallelMinimum \in Nat

VARIABLES
    count,          \* number of entries to sort
    worker_count,
    input,          \* the entries as given
    arrays,         \* contents of entries and of scratch
    allocated,      \* which of scratch, contexts, threads are allocated
    contexts,       \* one per worker: what the main thread and its thread share
    threads,        \* one per worker: the thread's program and next index
    pc,             \* where the main thread is
    pass,
    index,          \* its loop variable: worker_index, joined or i
    limit,          \* worker_index at which a pthread_create failed
    error           \* what pending_sort reports

input_vars == <<count, worker_count, input>>
main == <<pc, pass, index, limit, error>>
vars == <<input_vars, arrays, allocated, contexts, threads, main>>

Digits == 0 .. Radix - 1
Indices == 0 .. count - 1
Workers == 0 .. worker_count - 1

\* What a digit counts for, by its number: a shift by 8 more bits each.
Power[p \in 0 .. Passes] == IF p = 0 THEN 1 ELSE Radix * Power[p - 1]

Hashes == 0 .. Power[Passes] - 1
Entry == [hash : Hashes, id : 0 .. MaxCount - 1]
Blocks == {"scratch", "contexts", "threads"}

Digit(e, p) == (e.hash \div Power[p]) % Radix

\* The buffers swap roles after every pass.
Source(p) == IF p % 2 = 0 THEN "entries" ELSE "scratch"
Destination(p) == IF p % 2 = 0 THEN "scratch" ELSE "entries"

chunk_size == count \div worker_count

\* Mutant: the last worker does not take the remainder.
RangeEndWithoutRemainder(w) == (w + 1) * chunk_size

RangeStart(w) == w * chunk_size
RangeEnd(w) == IF w + 1 = worker_count THEN count ELSE (w + 1) * chunk_size

NoContext == [pass |-> 0, start |-> 0, end |-> 0,
              counts |-> [d \in Digits |-> 0], positions |-> [d \in Digits |-> 0]]
NoThread == [state |-> "none", next |-> 0]

-----------------------------------------------------------------------------
Init ==
    /\ count \in 0 .. MaxCount
    /\ worker_count \in 0 .. MaxWorkers
    /\ \E h \in [0 .. count - 1 -> Hashes] :
          input = [i \in 0 .. count - 1 |-> [hash |-> h[i], id |-> i]]
    /\ arrays = [a \in {"entries", "scratch"} |->
                    IF a = "entries" THEN input ELSE [i \in 0 .. count - 1 |-> Garbage]]
    /\ allocated = {}
    /\ contexts = [w \in 0 .. worker_count - 1 |-> NoContext]
    /\ threads = [w \in 0 .. worker_count - 1 |-> NoThread]
    /\ pc = "start"
    /\ pass = 0
    /\ index = 0
    /\ limit = 0
    /\ error = "none"

Return(e) ==
    /\ pc' = "returned"
    /\ error' = e
    /\ allocated' = {}

\* Dispatch on the number of entries and of workers.
Start ==
    /\ pc = "start"
    /\ \/ count < 2 /\ Return("ok") /\ UNCHANGED index
       \/ /\ count >= 2
          /\ count <= InsertionLimit
          /\ pc' = "insertion"
          /\ index' = 1
          /\ UNCHANGED <<error, allocated>>
       \/ /\ count >= 2
          /\ count > InsertionLimit
          /\ ~(worker_count >= 2 /\ count >= ParallelMinimum)
          /\ \/ /\ pc' = "serial"
                /\ allocated' = {"scratch"}
                /\ UNCHANGED error
             \/ Return("oom")
          /\ UNCHANGED index
       \/ /\ count >= 2
          /\ count > InsertionLimit
          /\ worker_count >= 2
          /\ count >= ParallelMinimum
          /\ \/ /\ pc' = "create_count"
                /\ allocated' = Blocks
                /\ UNCHANGED error
             \/ Return("oom")  \* the allocations that succeeded are freed
          /\ index' = 0
    /\ UNCHANGED <<input_vars, arrays, contexts, threads, pass, limit>>

-----------------------------------------------------------------------------
(* Insertion sort: one action per iteration of the outer loop. *)

\* Where the shifting loop stops for the pivot e, taken from entries[index].
Slot(e) ==
    LET a == arrays["entries"]
    IN  CHOOSE j \in 0 .. index :
            /\ j > 0 => a[j - 1].hash <= e.hash
            /\ \A k \in j .. index - 1 : a[k].hash > e.hash

InsertPivot ==
    /\ pc = "insertion"
    /\ index < count
    /\ LET a == arrays["entries"]
           slot == Slot(a[index])
       IN  arrays' = [arrays EXCEPT !["entries"] =
                [i \in Indices |-> IF i > index \/ i < slot THEN a[i]
                                   ELSE IF i = slot THEN a[index]
                                   ELSE a[i - 1]]]
    /\ index' = index + 1
    /\ UNCHANGED <<input_vars, allocated, contexts, threads, pc, pass, limit, error>>

InsertionDone ==
    /\ pc = "insertion"
    /\ index = count
    /\ Return("ok")
    /\ UNCHANGED <<input_vars, arrays, contexts, threads, pass, index, limit>>

-----------------------------------------------------------------------------
(* Serial radix sort: one action per pass. *)

\* prefix[byte] at the time the entry i of a is scattered.
SerialPosition(a, i) ==
    Cardinality({k \in Indices : \/ Digit(a[k], pass) < Digit(a[i], pass)
                                 \/ Digit(a[k], pass) = Digit(a[i], pass) /\ k < i})

SerialPass ==
    /\ pc = "serial"
    /\ pass < Passes
    /\ LET a == arrays[Source(pass)]
       IN  arrays' = [arrays EXCEPT ![Destination(pass)] =
                [q \in Indices |-> a[CHOOSE i \in Indices : SerialPosition(a, i) = q]]]
    /\ pass' = pass + 1
    /\ UNCHANGED <<input_vars, allocated, contexts, threads, pc, index, limit, error>>

SerialDone ==
    /\ pc = "serial"
    /\ pass = Passes
    /\ Return("ok")
    /\ UNCHANGED <<input_vars, arrays, contexts, threads, pass, index, limit>>

-----------------------------------------------------------------------------
(* Parallel radix sort: the main thread. *)

\* Fills the context of worker index and starts its counting thread.
CreateCount ==
    /\ pc = "create_count"
    /\ index < worker_count
    /\ contexts' = [contexts EXCEPT ![index].pass = pass,
                                    ![index].start = RangeStart(index),
                                    ![index].end = RangeEnd(index)]
    /\ \/ /\ threads' = [threads EXCEPT ![index] = [state |-> "zero", next |-> 0]]
          /\ IF index + 1 = worker_count
             THEN pc' = "join_count" /\ index' = 0
             ELSE index' = index + 1 /\ UNCHANGED pc
          /\ UNCHANGED limit
       \/ /\ limit' = index  \* pthread_create fails
          /\ pc' = "unwind"
          /\ index' = 0
          /\ UNCHANGED threads
    /\ UNCHANGED <<input_vars, arrays, allocated, pass, error>>

Join(next) ==
    /\ threads[index].state = "done"
    /\ threads' = [threads EXCEPT ![index] = NoThread]
    /\ IF index + 1 = worker_count
       THEN pc' = next /\ index' = 0
       ELSE index' = index + 1 /\ UNCHANGED pc

JoinCount ==
    /\ pc = "join_count"
    /\ Join("positions")
    /\ UNCHANGED <<input_vars, arrays, allocated, contexts, pass, limit, error>>

\* Entries with the digit d in the chunks of the first v workers.
InBucket(d) ==
    LET sum[v \in 0 .. worker_count] == IF v = 0 THEN 0 ELSE sum[v - 1] + contexts[v - 1].counts[d]
    IN  sum

\* Entries with smaller digits.
running_total[d \in 0 .. Radix] ==
    IF d = 0 THEN 0 ELSE running_total[d - 1] + InBucket(d - 1)[worker_count]

\* Mutant: the workers of a bucket all start where the bucket starts.
WritePositionPerBucket(w, d) == running_total[d]

\* Entries of smaller digits, then those of the same digit in earlier chunks.
WritePosition(w, d) == running_total[d] + InBucket(d)[w]

Positions ==
    /\ pc = "positions"
    /\ contexts' = [w \in Workers |->
                      [contexts[w] EXCEPT !.positions = [d \in Digits |-> WritePosition(w, d)]]]
    /\ pc' = "create_scatter"
    /\ UNCHANGED <<input_vars, arrays, allocated, threads, pass, index, limit, error>>

CreateScatter ==
    /\ pc = "create_scatter"
    /\ index < worker_count
    /\ \/ /\ threads' = [threads EXCEPT ![index] = [state |-> "scatter", next |-> contexts[index].start]]
          /\ IF index + 1 = worker_count
             THEN pc' = "join_scatter" /\ index' = 0
             ELSE index' = index + 1 /\ UNCHANGED pc
          /\ UNCHANGED limit
       \/ /\ limit' = index
          /\ pc' = "unwind"
          /\ index' = 0
          /\ UNCHANGED threads
    /\ UNCHANGED <<input_vars, arrays, allocated, contexts, pass, error>>

JoinScatter ==
    /\ pc = "join_scatter"
    /\ Join("next_pass")
    /\ UNCHANGED <<input_vars, arrays, allocated, contexts, pass, limit, error>>

\* Mutant: a pass that ends starts again.
NextPassStays ==
    /\ pc = "next_pass"
    /\ pc' = "create_count"
    /\ UNCHANGED <<input_vars, arrays, allocated, contexts, threads, pass, index, limit, error>>

NextPass ==
    /\ pc = "next_pass"
    /\ pass' = pass + 1
    /\ IF pass + 1 = Passes
       THEN Return("ok")
       ELSE pc' = "create_count" /\ UNCHANGED <<allocated, error>>
    /\ UNCHANGED <<input_vars, arrays, contexts, threads, index, limit>>

\* Mutant: a failed pthread_create frees the buffers at once.
UnwindWithoutJoin ==
    /\ pc = "unwind"
    /\ Return("internal")
    /\ UNCHANGED <<input_vars, arrays, contexts, threads, pass, index, limit>>

\* After a failed pthread_create: join the threads created before, free, fail.
Unwind ==
    /\ pc = "unwind"
    /\ \/ /\ index < limit
          /\ threads[index].state = "done"
          /\ threads' = [threads EXCEPT ![index] = NoThread]
          /\ index' = index + 1
          /\ UNCHANGED <<pc, error, allocated>>
       \/ /\ index = limit
          /\ Return("internal")
          /\ UNCHANGED <<threads, index>>
    /\ UNCHANGED <<input_vars, arrays, contexts, pass, limit>>

-----------------------------------------------------------------------------
(* Parallel radix sort: the threads. *)

Item(w) == arrays[Source(contexts[w].pass)][threads[w].next]
ItemDigit(w) == Digit(Item(w), contexts[w].pass)

ZeroCounts(w) ==
    /\ threads[w].state = "zero"
    /\ contexts' = [contexts EXCEPT ![w].counts = [d \in Digits |-> 0]]
    /\ threads' = [threads EXCEPT ![w] = [state |-> "count", next |-> contexts[w].start]]
    /\ UNCHANGED <<input_vars, arrays, allocated, main>>

Count(w) ==
    /\ threads[w].state = "count"
    /\ threads[w].next < contexts[w].end
    /\ contexts' = [contexts EXCEPT ![w].counts[ItemDigit(w)] = @ + 1]
    /\ threads' = [threads EXCEPT ![w].next = @ + 1]
    /\ UNCHANGED <<input_vars, arrays, allocated, main>>

Scatter(w) ==
    /\ threads[w].state = "scatter"
    /\ threads[w].next < contexts[w].end
    /\ LET d == ItemDigit(w)
       IN  /\ arrays' = [arrays EXCEPT
                           ![Destination(contexts[w].pass)][contexts[w].positions[d]] = Item(w)]
           /\ contexts' = [contexts EXCEPT ![w].positions[d] = @ + 1]
    /\ threads' = [threads EXCEPT ![w].next = @ + 1]
    /\ UNCHANGED <<input_vars, allocated, main>>

Exit(w) ==
    /\ threads[w].state \in {"count", "scatter"}
    /\ threads[w].next = contexts[w].end
    /\ threads' = [threads EXCEPT ![w].state = "done"]
    /\ UNCHANGED <<input_vars, arrays, allocated, contexts, main>>

-----------------------------------------------------------------------------
Main ==
    \/ Start
    \/ InsertPivot \/ InsertionDone
    \/ SerialPass \/ SerialDone
    \/ CreateCount \/ JoinCount \/ Positions \/ CreateScatter \/ JoinScatter \/ NextPass
    \/ Unwind

Thread(w) == ZeroCounts(w) \/ Count(w) \/ Scatter(w) \/ Exit(w)

\* The caller goes on: nothing of the sort is left to happen.
Returned ==
    /\ pc = "returned"
    /\ \A w \in Workers : threads[w].state = "none"
    /\ UNCHANGED vars

Next ==
    \/ Main
    \/ \E w \in Workers : Thread(w)
    \/ Returned

Spec == Init /\ [][Next]_vars

\* The scheduler runs the main thread and every created thread.
FairSpec == Spec /\ WF_vars(Main) /\ \A w \in 0 .. MaxWorkers - 1 : WF_vars(w \in Workers /\ Thread(w))

-----------------------------------------------------------------------------
(* The variables hold values of their types; a write position never passes *)
(* the end of the destination.                                             *)
TypeOK ==
    /\ count \in 0 .. MaxCount
    /\ worker_count \in 0 .. MaxWorkers
    /\ input \in [Indices -> Entry]
    /\ arrays \in [{"entries", "scratch"} -> [Indices -> Entry \cup {Garbage}]]
    /\ allocated \subseteq Blocks
    /\ contexts \in [Workers -> [pass : 0 .. Passes, start : 0 .. count, end : 0 .. count,
                                 counts : [Digits -> 0 .. count], positions : [Digits -> 0 .. count]]]
    /\ threads \in [Workers -> [state : {"none", "zero", "count", "scatter", "done"}, next : 0 .. count]]
    /\ pc \in {"start", "insertion", "serial", "create_count", "join_count", "positions",
               "create_scatter", "join_scatter", "next_pass", "unwind", "returned"}
    /\ pass \in 0 .. Passes
    /\ index \in Nat
    /\ limit \in Nat
    /\ error \in {"none", "ok", "oom", "internal"}

(* Memory shared with the threads outlives them: while a thread of the     *)
(* sort exists its scratch, contexts and thread handles are allocated, on  *)
(* the paths where pthread_create fails part way too.                      *)
BuffersOutliveThreads ==
    \A w \in Workers : threads[w].state # "none" => allocated = Blocks

\* Positions of the destination that thread w has still to write.
Targets(w) ==
    UNION {LET left == Cardinality({i \in threads[w].next .. contexts[w].end - 1 :
                              Digit(arrays[Source(contexts[w].pass)][i], contexts[w].pass) = d})
               first == contexts[w].positions[d]
           IN  first .. first + left - 1 : d \in Digits}

(* No two scattering threads ever write the same entry of the destination, *)
(* and none writes outside it: the threads share no lock, so the disjoint  *)
(* write positions are all that keeps the scatter free of data races.      *)
ScattersDisjoint ==
    \A v, w \in Workers :
        (threads[v].state = "scatter" /\ threads[w].state = "scatter") =>
            /\ Targets(v) \subseteq Indices
            /\ v # w => Targets(v) \cap Targets(w) = {}

Before(x, y) == x.hash < y.hash \/ (x.hash = y.hash /\ x.id < y.id)

(* A successful sort leaves the given entries in the caller's array (not   *)
(* in scratch), ordered by hash and, for equal hashes, in the order given: *)
(* the same bytes whatever the algorithm and the number of workers.        *)
SortedStably ==
    error = "ok" =>
        /\ \A i, j \in Indices : i < j => Before(arrays["entries"][i], arrays["entries"][j])
        /\ {arrays["entries"][i] : i \in Indices} = {input[i] : i \in Indices}

(* The sort returns, however the threads are scheduled and wherever        *)
(* pthread_create fails.                                                   *)
SortEnds == <>(pc = "returned")
=============================================================================
