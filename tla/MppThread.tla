----------------------------- MODULE MppThread -----------------------------
(***************************************************************************)
(* The lock, condition and status of a thread for one of its signals, as   *)
(* src/mpp/encode/mpp_thread.h has them: the recursive Mutex, Condition,   *)
(* MppMutexCond and MppThread.  The four signals share nothing.  get_status *)
(* and set_status have no body in the header; they are taken to be called  *)
(* with the signal's lock held.                                            *)
(***************************************************************************)
EXTENDS Integers

CONSTANTS Thread,  \* the callers
          Waiters  \* those that call wait

Nobody == CHOOSE t : t \notin Thread

MppThreadStatus == {"UNINITED", "RUNNING", "WAITING", "STOPPING"}

VARIABLES holder, depth,  \* of the mutex
          asleep, woken,  \* threads in the condition's wait: before a signal,
                          \* and after it until they have the mutex again
          mStatus,
          status,         \* the local of each thread in wait
          meant,          \* history: the last status of set_status
          nested          \* history: how often the caller of wait had the lock

lockVars == <<holder, depth>>
condVars == <<asleep, woken>>
histVars == <<meant, nested>>
vars     == <<lockVars, condVars, mStatus, status, histVars>>

Init == /\ holder = Nobody /\ depth = 0
        /\ asleep = {} /\ woken = {}
        /\ mStatus = "UNINITED" /\ meant = mStatus
        /\ status \in [Thread -> MppThreadStatus]
        /\ nested \in [Thread -> Nat]

InWait == asleep \cup woken

-----------------------------------------------------------------------------
(* Mutex and Condition *)

(* The holder may lock again. *)
Mutex_lock(t) == /\ holder \in {Nobody, t}
                 /\ holder' = t /\ depth' = depth + 1

(* The last of as many unlocks as locks lets others in. *)
Mutex_unlock(t) == /\ holder = t
                   /\ depth' = depth - 1
                   /\ holder' = IF depth = 1 THEN Nobody ELSE t

Mutex_trylock(t) == IF holder \in {Nobody, t} THEN Mutex_lock(t) ELSE UNCHANGED lockVars

(* pthread_cond_wait undoes one lock and does it again before it returns. *)
Condition_wait(t)  == Mutex_unlock(t) /\ asleep' = asleep \cup {t} /\ UNCHANGED woken
Condition_woken(t) == t \in woken /\ Mutex_lock(t) /\ woken' = woken \ {t} /\ UNCHANGED asleep

(* A signal wakes one of the sleepers, if there are any. *)
Condition_signal == IF asleep = {} THEN UNCHANGED condVars
                    ELSE \E u \in asleep : asleep' = asleep \ {u} /\ woken' = woken \cup {u}

(* The time at which timedwait gives up: timeout is in milliseconds, and   *)
(* not negative.                                                           *)
timedwait(ts, timeout) ==
    LET nsec == ts.nsec + (timeout % 1000) * 1000000
    IN  [sec  |-> ts.sec + (timeout \div 1000) + (nsec \div 1000000000),
         nsec |-> nsec % 1000000000]

-----------------------------------------------------------------------------
(* MppThread *)

lock(t)    == Mutex_lock(t)    /\ UNCHANGED <<condVars, mStatus, status, histVars>>
unlock(t)  == Mutex_unlock(t)  /\ UNCHANGED <<condVars, mStatus, status, histVars>>
trylock(t) == Mutex_trylock(t) /\ UNCHANGED <<condVars, mStatus, status, histVars>>

(* No lock is needed to signal. *)
signal == Condition_signal /\ UNCHANGED <<lockVars, mStatus, status, histVars>>

(* wait, up to where the thread sleeps ... *)
wait(t) == /\ t \in Waiters
           /\ status' = [status EXCEPT ![t] = mStatus]
           /\ mStatus' = "WAITING"
           /\ Condition_wait(t)
           /\ nested' = [nested EXCEPT ![t] = depth]
           /\ UNCHANGED meant

(* ... and on: a status set meanwhile stays. *)
wait_returns(t) == /\ Condition_woken(t)
                   /\ mStatus' = IF mStatus = "WAITING" THEN status[t] ELSE mStatus
                   /\ UNCHANGED <<status, histVars>>

(* external *)
set_status(t, s) == /\ holder = t
                    /\ mStatus' = s /\ meant' = s
                    /\ UNCHANGED <<lockVars, condVars, status, nested>>

(* A condition may also wake a thread that nobody signals. *)
wakes(t) == /\ t \in asleep
            /\ asleep' = asleep \ {t} /\ woken' = woken \cup {t}
            /\ UNCHANGED <<lockVars, mStatus, status, histVars>>

-----------------------------------------------------------------------------
Calls(t) == /\ t \notin InWait
            /\ \/ lock(t) \/ unlock(t) \/ trylock(t) \/ wait(t) \/ signal
               \/ \E s \in MppThreadStatus \ {"WAITING"} : set_status(t, s)

Next == \E t \in Thread : Calls(t) \/ wait_returns(t) \/ wakes(t)

Spec == Init /\ [][Next]_vars

-----------------------------------------------------------------------------
TypeOK == /\ holder \in Thread \cup {Nobody} /\ depth \in Nat
          /\ asleep \in SUBSET Thread /\ woken \in SUBSET Thread
          /\ mStatus \in MppThreadStatus /\ meant \in MppThreadStatus \ {"WAITING"}
          /\ status \in [Thread -> MppThreadStatus] /\ nested \in [Thread -> Nat]

(* A wait that is over has left the status as set_status last set it,      *)
(* before the wait or in the middle of it.  With two threads that wait for *)
(* the same signal it need not: the second one to sleep finds WAITING, and *)
(* by sleeping again hides from the first that the status was set.         *)
StatusKept == InWait = {} => mStatus = meant

(* A thread that comes out of wait has the lock as often as it had it      *)
(* before, and no other thread has it.                                     *)
LockKept == [][\A t \in Thread : wait_returns(t) => holder' = t /\ depth' = nested[t]]_vars
=============================================================================
