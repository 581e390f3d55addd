------------------------------- MODULE RwLock -------------------------------
(***************************************************************************)
(* The asynchronous reader-writer lock of cros_async: a state word changed *)
(* by compare-and-exchange, a list of waiters guarded by a spin lock bit   *)
(* of the same word, and futures that may be dropped while they wait.      *)
(*                                                                         *)
(* A load followed by a compare-and-exchange that succeeds is one step: it *)
(* succeeds only if the word is still the one that was loaded.  One that   *)
(* fails, spuriously or not, changes nothing.  The waiter list is changed  *)
(* in the step that takes the spin lock, which nobody else can look        *)
(* behind.  Memory is sequentially consistent.                             *)
(***************************************************************************)
EXTENDS Naturals, FiniteSets, Sequences


CONSTANTS Tasks,             \* the futures that use the lock
          LongWaitThreshold  \* LONG_WAIT_THRESHOLD

Kinds == {"Shared", "Exclusive"}
Flags == {"LOCKED", "HAS_WAITERS", "DESIGNATED_WAKER", "SPINLOCK",
          "WRITER_WAITING", "LONG_WAIT"}
PCs == {"idle", "slow", "enqueued", "waiting", "holding", "unlock",
        "canceled", "release", "wake"}

VARIABLES state,    \* the flag bits of RawRwLock.state
          readers,  \* the count above READ_LOCK in RawRwLock.state
          waiters,  \* RawRwLock.waiters, front first
          pc,       \* where each task is
          kind,     \* the kind of lock it is after or holds
          clear,    \* lock_slow's clear
          zero,     \* lock_slow's zero_to_acquire
          waits,    \* lock_slow's wait_count, up to LongWaitThreshold + 1
          taken,    \* waiters with WaitingFor::None: taken off the list
          woken,    \* waiters in State::Woken
          wakeNext, \* cancel_waiter's wake_next
          relSet,   \* set_on_release of the spin lock's holder
          relClear, \* the bits it clears on release
          wakeList  \* the waiters it has still to wake

word == <<state, readers>>
call == <<kind, clear, zero, waits>>
waiterVars == <<taken, woken, wakeNext>>
release == <<relSet, relClear, wakeList>>
vars == <<word, waiters, pc, call, waiterVars, release>>

Init ==
    /\ state = {} /\ readers = 0 /\ waiters = <<>>
    /\ pc = [t \in Tasks |-> "idle"]
    /\ kind = [t \in Tasks |-> "Exclusive"]
    /\ clear = [t \in Tasks |-> {}] /\ zero = [t \in Tasks |-> {}]
    /\ waits = [t \in Tasks |-> 0]
    /\ taken = {} /\ woken = {} /\ wakeNext = [t \in Tasks |-> FALSE]
    /\ relSet = [t \in Tasks |-> {}] /\ relClear = [t \in Tasks |-> {}]
    /\ wakeList = [t \in Tasks |-> <<>>]

-----------------------------------------------------------------------------
(* Kind::zero_to_acquire, set_when_waiting and clear_on_acquire            *)
ZeroToAcquire(k) == IF k = "Shared" THEN {"LOCKED", "WRITER_WAITING", "LONG_WAIT"}
                    ELSE {"LOCKED", "READ_MASK", "LONG_WAIT"}
SetWhenWaiting(k) == IF k = "Exclusive" THEN {"WRITER_WAITING"} ELSE {}
ClearOnAcquire(k) == IF k = "Exclusive" THEN {"WRITER_WAITING"} ELSE {}

(* The bits of the word, with READ_MASK for a reader count above zero.     *)
Word == state \cup IF readers > 0 THEN {"READ_MASK"} ELSE {}

Acquire(t, k, clr) ==
    /\ state' = (state \cup IF k = "Exclusive" THEN {"LOCKED"} ELSE {})
                    \ (clr \cup ClearOnAcquire(k))
    /\ readers' = IF k = "Shared" THEN readers + 1 ELSE readers
    /\ pc' = [pc EXCEPT ![t] = "holding"]

(* get_wake_list: a writer at the front alone, or else every reader.       *)
Woken(list) == IF list # <<>> /\ kind[Head(list)] = "Exclusive"
               THEN <<Head(list)>>
               ELSE SelectSeq(list, LAMBDA t : kind[t] = "Shared")
Members(list) == {list[i] : i \in DOMAIN list}
Left(list) == SelectSeq(list, LAMBDA t : t \notin Members(Woken(list)))
SetOnRelease(list) ==
    IF list # <<>> /\ kind[Head(list)] = "Shared" /\ Left(list) # <<>>
    THEN {"WRITER_WAITING"} ELSE {}

-----------------------------------------------------------------------------
(* lock and read_lock that succeed without the slow path                   *)
LockFast(t, k) ==
    /\ pc[t] = "idle"
    /\ Word \cap ZeroToAcquire(k) = {}
    /\ Acquire(t, k, {})
    /\ kind' = [kind EXCEPT ![t] = k]
    /\ UNCHANGED <<waiters, clear, zero, waits, waiterVars, release>>

(* The call of lock_slow, with what it starts to clear and need not see    *)
(* zero.                                                                   *)
CallLockSlow(t, k, clr, zeroMask) ==
    /\ kind' = [kind EXCEPT ![t] = k]
    /\ clear' = [clear EXCEPT ![t] = clr]
    /\ zero' = [zero EXCEPT ![t] = ZeroToAcquire(k) \ zeroMask]
    /\ waits' = [waits EXCEPT ![t] = 0]

LockSlow(t, k) ==
    /\ pc[t] = "idle"
    /\ CallLockSlow(t, k, {}, {})
    /\ pc' = [pc EXCEPT ![t] = "slow"]
    /\ UNCHANGED <<word, waiters, waiterVars, release>>

SlowAcquire(t) ==
    /\ pc[t] = "slow"
    /\ Word \cap zero[t] = {}
    /\ Acquire(t, kind[t], clear[t])
    /\ UNCHANGED <<waiters, call, waiterVars, release>>

(* The spin lock is taken and the waiter is put in the list: at its front, *)
(* with LONG_WAIT, once it has waited too often.                           *)
Enqueue(t) ==
    LET long == waits[t] >= LongWaitThreshold
        longBit == IF long THEN {"LONG_WAIT"} ELSE {}
    IN  /\ pc[t] = "slow"
        /\ Word \cap zero[t] # {}
        /\ "SPINLOCK" \notin state
        /\ state' = (state \cup {"SPINLOCK", "HAS_WAITERS"}
                           \cup SetWhenWaiting(kind[t])) \ clear[t]
        /\ waiters' = IF long THEN <<t>> \o waiters ELSE Append(waiters, t)
        /\ taken' = taken \ {t} /\ woken' = woken \ {t}
        /\ clear' = [clear EXCEPT ![t] = @ \cup longBit]
        /\ zero' = [zero EXCEPT ![t] = @ \ longBit]
        /\ relSet' = [relSet EXCEPT ![t] = longBit]
        /\ pc' = [pc EXCEPT ![t] = "enqueued"]
        /\ UNCHANGED <<readers, kind, waits, wakeNext, relClear, wakeList>>

(* The spin lock is released and the future waits.                         *)
StartWaiting(t) ==
    /\ pc[t] = "enqueued"
    /\ state' = (state \cup relSet[t]) \ {"SPINLOCK"}
    /\ relSet' = [relSet EXCEPT ![t] = {}]
    /\ pc' = [pc EXCEPT ![t] = "waiting"]
    /\ UNCHANGED <<readers, waiters, call, waiterVars, relClear, wakeList>>

(* The executor polls a woken waiter: WaitFuture::poll, then around the    *)
(* loop of lock_slow.                                                      *)
Resume(t) ==
    /\ pc[t] = "waiting" /\ t \in woken
    /\ clear' = [clear EXCEPT ![t] = @ \cup {"DESIGNATED_WAKER"}]
    /\ zero' = [zero EXCEPT ![t] = @ \ {"WRITER_WAITING"}]
    /\ waits' = [waits EXCEPT ![t] = IF @ > LongWaitThreshold THEN @ ELSE @ + 1]
    /\ woken' = woken \ {t}
    /\ pc' = [pc EXCEPT ![t] = "slow"]
    /\ UNCHANGED <<word, waiters, kind, taken, wakeNext, release>>

-----------------------------------------------------------------------------
(* unlock and read_unlock: the bit or the count goes at once, and the last *)
(* holder wakes somebody if nobody is on the way yet.                      *)
Unlock(t) ==
    LET last == kind[t] = "Exclusive" \/ readers = 1
        slow == last /\ "HAS_WAITERS" \in state /\ "DESIGNATED_WAKER" \notin state
    IN  /\ pc[t] = "holding"
        /\ state' = IF kind[t] = "Exclusive" THEN state \ {"LOCKED"} ELSE state
        /\ readers' = IF kind[t] = "Shared" THEN readers - 1 ELSE readers
        /\ pc' = [pc EXCEPT ![t] = IF slow THEN "unlock" ELSE "idle"]
        /\ UNCHANGED <<waiters, call, waiterVars, release>>

NothingToWake(t) ==
    /\ pc[t] = "unlock"
    /\ "HAS_WAITERS" \notin state \/ "DESIGNATED_WAKER" \in state
    /\ pc' = [pc EXCEPT ![t] = "idle"]
    /\ UNCHANGED <<word, waiters, call, waiterVars, release>>

(* unlock_slow takes the spin lock and the waiters it will wake.           *)
TakeWaiters(t) ==
    /\ pc[t] = "unlock"
    /\ "HAS_WAITERS" \in state
    /\ state \cap {"DESIGNATED_WAKER", "SPINLOCK"} = {}
    /\ state' = state \cup {"SPINLOCK", "DESIGNATED_WAKER"}
    /\ waiters' = Left(waiters)
    /\ taken' = taken \cup Members(Woken(waiters))
    /\ wakeList' = [wakeList EXCEPT ![t] = Woken(waiters)]
    /\ relSet' = [relSet EXCEPT ![t] = SetOnRelease(waiters)]
    /\ relClear' = [relClear EXCEPT ![t] =
           {"SPINLOCK"}
           \cup (IF Left(waiters) = <<>> THEN {"HAS_WAITERS"} ELSE {})
           \cup (IF Woken(waiters) = <<>> THEN {"DESIGNATED_WAKER"} ELSE {})]
    /\ pc' = [pc EXCEPT ![t] = "release"]
    /\ UNCHANGED <<readers, call, woken, wakeNext>>

-----------------------------------------------------------------------------
(* A waiting future is dropped: WaitFuture::drop looks whether it has been *)
(* woken and calls cancel_waiter, which may find that out of date.         *)
Drop(t) ==
    /\ pc[t] = "waiting"
    /\ wakeNext' = [wakeNext EXCEPT ![t] = t \in woken]
    /\ pc' = [pc EXCEPT ![t] = "canceled"]
    /\ UNCHANGED <<word, waiters, call, taken, woken, release>>

(* cancel_waiter under the spin lock.  The dropped waiter stays in the     *)
(* wake list of whoever took it, but waking it has no effect any more.     *)
CancelWaiter(t) ==
    LET first == waiters # <<>> /\ Head(waiters) = t
        rest == SelectSeq(waiters, LAMBDA u : u # t)
        wakes == wakeNext[t] \/ t \in taken
        next == IF wakes THEN Woken(rest) ELSE <<>>
        left == IF wakes THEN Left(rest) ELSE rest
    IN  /\ pc[t] = "canceled"
        /\ "SPINLOCK" \notin state
        /\ state' = state \cup {"SPINLOCK"}
        /\ waiters' = left
        /\ taken' = taken \cup Members(next)
        /\ woken' = woken \ {t}
        /\ wakeList' = [u \in Tasks |-> IF u = t THEN next
                           ELSE SelectSeq(wakeList[u], LAMBDA v : v # t)]
        /\ relSet' = [relSet EXCEPT ![t] = IF wakes THEN SetOnRelease(rest) ELSE {}]
        /\ relClear' = [relClear EXCEPT ![t] =
               {"SPINLOCK"}
               \cup (IF wakeNext[t] \/ first THEN {"LONG_WAIT"} ELSE {})
               \cup (IF left = <<>> THEN {"HAS_WAITERS"} ELSE {})
               \cup (IF next = <<>> THEN {"DESIGNATED_WAKER"} ELSE {})
               \cup SetWhenWaiting(kind[t])]
        /\ pc' = [pc EXCEPT ![t] = "release"]
        /\ UNCHANGED <<readers, call, wakeNext>>

(* unlock_slow and cancel_waiter release the spin lock ...                 *)
ReleaseSpinlock(t) ==
    /\ pc[t] = "release"
    /\ state' = (state \ relClear[t]) \cup relSet[t]
    /\ relSet' = [relSet EXCEPT ![t] = {}]
    /\ relClear' = [relClear EXCEPT ![t] = {}]
    /\ pc' = [pc EXCEPT ![t] = "wake"]
    /\ UNCHANGED <<readers, waiters, call, waiterVars, wakeList>>

(* ... and wake the waiters they took, one by one.                         *)
Wake(t) ==
    /\ pc[t] = "wake" /\ wakeList[t] # <<>>
    /\ woken' = woken \cup {Head(wakeList[t])}
    /\ wakeList' = [wakeList EXCEPT ![t] = Tail(@)]
    /\ UNCHANGED <<word, waiters, pc, call, taken, wakeNext, relSet, relClear>>

WakeDone(t) ==
    /\ pc[t] = "wake" /\ wakeList[t] = <<>>
    /\ pc' = [pc EXCEPT ![t] = "idle"]
    /\ UNCHANGED <<word, waiters, call, waiterVars, release>>

-----------------------------------------------------------------------------
(* What a task's thread does once it is inside the lock's code.            *)
Attempt(t) == SlowAcquire(t) \/ Enqueue(t)
TakeSpinlock(t) == TakeWaiters(t) \/ CancelWaiter(t) \/ NothingToWake(t)
Finish(t) == StartWaiting(t) \/ Resume(t) \/ ReleaseSpinlock(t) \/ Wake(t) \/ WakeDone(t)

Next == \E t \in Tasks :
    \/ \E k \in Kinds : LockFast(t, k) \/ LockSlow(t, k)
    \/ Attempt(t) \/ Finish(t) \/ TakeSpinlock(t)
    \/ Unlock(t) \/ Drop(t)

Spec == Init /\ [][Next]_vars

-----------------------------------------------------------------------------
Holders(k) == {t \in Tasks : pc[t] = "holding" /\ kind[t] = k}

(* A writer is alone, and the state word counts exactly the holders.       *)
MutualExclusion ==
    /\ \A t \in Holders("Exclusive") :
           Holders("Exclusive") = {t} /\ Holders("Shared") = {}
    /\ readers = Cardinality(Holders("Shared"))
    /\ "LOCKED" \in state <=> Holders("Exclusive") # {}

(* One task at most is between taking the spin lock bit and releasing it,  *)
(* and the bit tells when.                                                 *)
SpinlockExclusive ==
    /\ \A t, u \in Tasks : pc[t] \in {"enqueued", "release"} /\ pc[u] \in {"enqueued", "release"}
           => t = u
    /\ "SPINLOCK" \in state <=> \E t \in Tasks : pc[t] \in {"enqueued", "release"}

=============================================================================
