------------------------------- MODULE FfiHandle -------------------------------
(***************************************************************************)
(* A stateful object of the package, from the Swift class to the Rust value *)
(* (fingerprint-ffi/src/lib.rs and fingerprint_uniffi.swift): a Box<Mutex>  *)
(* behind a raw pointer, used by concurrent callers that share the Swift    *)
(* object and freed when its last reference goes.  Results cross as buffers *)
(* that Rust forgets and the Swift wrapper copies and frees; so do those of *)
(* the calls that need no object.                                           *)
(*                                                                          *)
(* The guarded value is that of one of the three classes, and all that is   *)
(* kept of it is the changes made to it.  A push makes several, a write     *)
(* one, a reset undoes them and a read makes none.  Any step may panic, the *)
(* event ffi_guard is there for.                                            *)
(***************************************************************************)
EXTENDS Integers, Sequences, FiniteSets

CONSTANTS
    Callers,        \* the threads or tasks that may hold the object
    PUSH_STEPS,     \* changes a push makes to the value
    MAX_VALUE,      \* bound: changes before a push is called
    Nobody,         \* no caller holds the mutex
    Fallback,       \* what a call returns when it panicked
    Pending         \* no result yet

ASSUME FfiHandleAssumption ==
    /\ PUSH_STEPS \in Nat \ {0} /\ MAX_VALUE \in Nat
    /\ Nobody \notin Callers
    /\ Fallback \notin Nat \cup {Pending} /\ Pending \notin Nat

VARIABLES
    class,          \* of the object: a key of EntryPoints
    live,           \* is the Box allocated?
    references,     \* callers that hold a reference to the Swift object
    holder,         \* the caller that holds the mutex, or Nobody
    poisoned,
    value,          \* the guarded value: the changes made to it, by caller
    pc,             \* of each caller: where its call is
    op,             \* of each caller: the entry point it is in, or NoCall
    taken,          \* of each caller: steps taken of the operation that runs
    result,         \* of each caller: the changes its answer is from, or Pending
    buffers,        \* of each caller: Rust buffers it must free
    before          \* history: the value when the mutex was locked, while it is

object == <<class, live, references>>
mutex == <<holder, poisoned>>
calls == <<pc, op, taken, result, buffers>>
vars == <<object, mutex, value, calls, before>>

(***************************************************************************)
(* What each entry point does to the guarded value and what it returns:     *)
(* nothing, a number, an array or an array of arrays.                       *)
(***************************************************************************)
EntryPoint(effect, returns) == [effect |-> effect, returns |-> returns]

NoCall == EntryPoint("none", "nothing")

\* clear, count, set_drift (and add), find_top_matches
MatcherCalls ==
    {EntryPoint("reset", "nothing"), EntryPoint("read", "number"),
     EntryPoint("write", "nothing"), EntryPoint("read", "array")}

duration_ms == EntryPoint("read", "number")

\* flush (and push_i16, push_f32), reset
StreamCalls ==
    {EntryPoint("push", "array"), EntryPoint("reset", "nothing"), duration_ms}

WindowedCalls ==
    {EntryPoint("push", "nested"), EntryPoint("reset", "nothing"), duration_ms}

EntryPoints == [matcher |-> MatcherCalls, stream |-> StreamCalls, windowed |-> WindowedCalls]

Effects == {"push", "write", "reset", "read"}
Steps(e) == CASE e = "push" -> PUSH_STEPS [] e = "read" -> 0 [] OTHER -> 1

\* vec_to_bytes, vec_to_u32_array, vec_to_match_array, vec_to_windowed_array: the
\* buffers Rust forgets, for the caller to free.
Forgotten(returns) ==
    CASE returns = "bytes" -> {"bytes"}
      [] returns = "array" -> {"array"}
      [] returns = "nested" -> {"array", "nested"}
      [] OTHER -> {}

\* fingerprint_ffi_free_bytes, fingerprint_ffi_free_u32_array and free_match_array
FreeBytes(owned) == owned \ {"bytes"}
FreeArray(owned) == owned \ {"array"}

\* Fault: the outer vector is dropped, the hash vectors in it are not.
FreeWindowedArray_Shallow(owned) == owned \ {"array"}

\* fingerprint_ffi_free_windowed_array
FreeWindowedArray(owned) == owned \ {"array", "nested"}

\* takeData, takeU32Array and takeMatchArray, takeWindowedArray: what is still
\* owned after a result was copied.
Taken(returns, owned) ==
    CASE returns = "bytes" -> FreeBytes(owned)
      [] returns = "array" -> FreeArray(owned)
      [] returns = "nested" -> FreeWindowedArray(owned)
      [] OTHER -> owned

Init ==
    /\ class \in DOMAIN EntryPoints
    /\ live = FALSE
    /\ references = {}
    /\ holder = Nobody
    /\ poisoned = FALSE
    /\ value = <<>>
    /\ pc = [c \in Callers |-> "idle"]
    /\ op = [c \in Callers |-> NoCall]
    /\ taken = [c \in Callers |-> 0]
    /\ result = [c \in Callers |-> Pending]
    /\ buffers = [c \in Callers |-> {}]
    /\ before = <<>>

-----------------------------------------------------------------------------

\* fingerprint_ffi_checkpoint_new, and mutex_handle_result of a stream that could
\* be made: a fresh value behind a fresh mutex.
NewHandle(c) ==
    /\ ~live /\ references = {} /\ pc[c] = "idle"
    /\ live' = TRUE
    /\ references' = {c}
    /\ poisoned' = FALSE
    /\ value' = <<>>
    /\ before' = <<>>
    /\ UNCHANGED <<class, holder, calls>>

\* A stream that could not be made: no handle, and a message, or none where
\* ffi_guard caught a panic.  takeHandleResult throws.
NewHandleFails(c) ==
    /\ class # "matcher"
    /\ ~live /\ references = {} /\ pc[c] = "idle"
    /\ pc' = [pc EXCEPT ![c] = "failed"]
    /\ \E message \in {{}, {"bytes"}} : buffers' = [buffers EXCEPT ![c] = message]
    /\ UNCHANGED <<object, mutex, value, op, taken, result, before>>

\* fingerprintDataWindowed, whose result has an array or a message and a status
\* to tell which, neither of them where ffi_guard caught a panic
DataWindowed(c) ==
    /\ pc[c] = "idle"
    /\ \/ /\ pc' = [pc EXCEPT ![c] = "answered"]
          /\ buffers' = [buffers EXCEPT ![c] = Forgotten("nested")]
       \/ /\ pc' = [pc EXCEPT ![c] = "failed"]
          /\ \E message \in {{}, {"bytes"}} : buffers' = [buffers EXCEPT ![c] = message]
    /\ op' = [op EXCEPT ![c] = EntryPoint("none", "nested")]
    /\ UNCHANGED <<object, mutex, value, taken, result, before>>

\* The functions that need no object: compareHashes, fingerprintVersion and
\* fingerprintToBytes, fingerprintFromBytes, the last with an array where it found a
\* fingerprint; with no buffer where ffi_guard caught a panic
CallFunction(c) ==
    /\ pc[c] = "idle"
    /\ \E returns \in {"number", "bytes", "array"} :
          /\ op' = [op EXCEPT ![c] = EntryPoint("none", returns)]
          /\ \E owned \in {{}, Forgotten(returns)} :
                buffers' = [buffers EXCEPT ![c] = owned]
    /\ pc' = [pc EXCEPT ![c] = "answered"]
    /\ UNCHANGED <<object, mutex, value, taken, result, before>>

\* The function copies what it was given and frees it.
TakeAnswer(c) ==
    /\ pc[c] = "answered"
    /\ buffers' = [buffers EXCEPT ![c] = Taken(op[c].returns, @)]
    /\ pc' = [pc EXCEPT ![c] = "idle"]
    /\ op' = [op EXCEPT ![c] = NoCall]
    /\ UNCHANGED <<object, mutex, value, taken, result, before>>

\* Fault: the message is read where it is, not taken.
TakeError_Reads(c) ==
    /\ pc[c] = "failed"
    /\ pc' = [pc EXCEPT ![c] = "idle"]
    /\ buffers' = [buffers EXCEPT ![c] = Taken(op[c].returns, @)]
    /\ op' = [op EXCEPT ![c] = NoCall]
    /\ UNCHANGED <<object, mutex, value, taken, result, before>>

\* The call throws: takeError copies the message and frees it, after the array if
\* there could have been one.
TakeError(c) ==
    /\ pc[c] = "failed"
    /\ pc' = [pc EXCEPT ![c] = "idle"]
    /\ buffers' = [buffers EXCEPT ![c] = FreeBytes(Taken(op[c].returns, @))]
    /\ op' = [op EXCEPT ![c] = NoCall]
    /\ UNCHANGED <<object, mutex, value, taken, result, before>>

\* A caller hands the Swift object to another.
Share(c, d) ==
    /\ c \in references /\ d \notin references
    /\ references' = references \cup {d}
    /\ UNCHANGED <<class, live, mutex, value, calls, before>>

\* Fault: the object is freed when any reference goes.
LastReference_Any(c) == TRUE

LastReference(c) == references = {c}

\* A caller lets go of the object, between its calls: a method keeps self alive
\* until it returns.  The last one runs deinit, which frees the handle.
DropReference(c) ==
    /\ c \in references /\ pc[c] = "idle"
    /\ references' = references \ {c}
    /\ live' = (live /\ ~LastReference(c))
    /\ UNCHANGED <<class, mutex, value, calls, before>>

-----------------------------------------------------------------------------

\* A method of the object calls its entry point.
Enter(c) ==
    /\ c \in references /\ pc[c] = "idle"
    /\ \E entry \in EntryPoints[class] :
          /\ entry.effect \in {"push", "write"} => Len(value) < MAX_VALUE
          /\ op' = [op EXCEPT ![c] = entry]
    /\ pc' = [pc EXCEPT ![c] = "locking"]
    /\ UNCHANGED <<object, mutex, value, taken, result, buffers, before>>

\* Fault: the guard is dropped before the operation.
Locked_Temporary(c) == holder' = Nobody

Locked(c) == holder' = c

\* lock_recover: the value is taken even if the mutex is poisoned.
Lock(c) ==
    /\ pc[c] = "locking"
    /\ holder = Nobody
    /\ Locked(c)
    /\ pc' = [pc EXCEPT ![c] = "operating"]
    /\ taken' = [taken EXCEPT ![c] = 0]
    /\ before' = value
    /\ UNCHANGED <<object, poisoned, value, op, result, buffers>>

\* A step of the operation
Operate(c) ==
    /\ pc[c] = "operating"
    /\ taken[c] < Steps(op[c].effect)
    /\ value' = IF op[c].effect = "reset" THEN <<>> ELSE Append(value, c)
    /\ taken' = [taken EXCEPT ![c] = @ + 1]
    /\ UNCHANGED <<object, mutex, pc, op, result, buffers, before>>

\* Fault: the unwinding leaves the mutex locked.
Unwound_KeepsLock(c) == UNCHANGED holder

Unwound(c) == holder' = Nobody

\* What is known of an operation only while it runs
Forget(c) == taken' = [taken EXCEPT ![c] = 0] /\ before' = <<>>

\* A panic in the operation: the guard is dropped while it unwinds, which
\* unlocks and poisons the mutex, and ffi_guard returns the fallback, which owns
\* no buffer.
Panic(c) ==
    /\ pc[c] = "operating"
    /\ Unwound(c)
    /\ poisoned' = TRUE
    /\ result' = [result EXCEPT ![c] = Fallback]
    /\ pc' = [pc EXCEPT ![c] = "returned"]
    /\ Forget(c)
    /\ UNCHANGED <<object, value, op, buffers>>

\* The operation returns and the guard is dropped.
Unlock(c) ==
    /\ pc[c] = "operating"
    /\ taken[c] = Steps(op[c].effect)
    /\ holder' = Nobody
    /\ result' = [result EXCEPT ![c] = Len(value)]
    /\ pc' = [pc EXCEPT ![c] = "converting"]
    /\ Forget(c)
    /\ UNCHANGED <<object, poisoned, value, op, buffers>>

\* Fault: the length of the value is read again after the mutex is free.
Convert_ReadsAgain(c) ==
    /\ pc[c] = "converting"
    /\ pc' = [pc EXCEPT ![c] = "returned"]
    /\ result' = [result EXCEPT ![c] = Len(value)]
    /\ UNCHANGED <<object, mutex, value, op, taken, buffers, before>>

\* Outside the mutex, the result becomes a buffer of C.
Convert(c) ==
    /\ pc[c] = "converting"
    /\ pc' = [pc EXCEPT ![c] = "returned"]
    /\ buffers' = [buffers EXCEPT ![c] = Forgotten(op[c].returns)]
    /\ UNCHANGED <<object, mutex, value, op, taken, result, before>>

\* The method copies the result, frees it and returns.
Take(c) ==
    /\ pc[c] = "returned"
    /\ buffers' = [buffers EXCEPT ![c] = Taken(op[c].returns, @)]
    /\ pc' = [pc EXCEPT ![c] = "idle"]
    /\ op' = [op EXCEPT ![c] = NoCall]
    /\ result' = [result EXCEPT ![c] = Pending]
    /\ UNCHANGED <<object, mutex, value, taken, before>>

-----------------------------------------------------------------------------

\* The steps of a call that has begun
Running(c) ==
    Lock(c) \/ Operate(c) \/ Panic(c) \/ Unlock(c) \/ Convert(c) \/ Take(c)
    \/ TakeAnswer(c) \/ TakeError(c)

Next ==
    \E c \in Callers :
        \/ NewHandle(c) \/ NewHandleFails(c) \/ DropReference(c) \/ Enter(c)
        \/ DataWindowed(c) \/ CallFunction(c)
        \/ \E d \in Callers : Share(c, d)
        \/ Running(c)

\* A thread in a call keeps running.  Nothing makes the mutex fair, and nothing
\* makes a call panic or a caller call.
Spec ==
    /\ Init /\ [][Next]_vars
    /\ \A c \in Callers : WF_vars(Running(c))

-----------------------------------------------------------------------------

Locations ==
    {"idle", "answered", "failed", "locking", "operating", "converting", "returned"}
Results == {"nothing", "number", "bytes", "array", "nested"}
Buffers == {"bytes", "array", "nested"}

\* The type invariant.  A caller is in the guarded value exactly while it holds
\* the mutex, and no two are.
TypeOK ==
    /\ class \in DOMAIN EntryPoints
    /\ live \in BOOLEAN /\ references \subseteq Callers
    /\ holder \in Callers \cup {Nobody} /\ poisoned \in BOOLEAN
    /\ value \in Seq(Callers)
    /\ pc \in [Callers -> Locations]
    /\ op \in [Callers -> [effect : Effects \cup {"none"}, returns : Results]]
    /\ taken \in [Callers -> 0 .. PUSH_STEPS]
    /\ result \in [Callers -> Nat \cup {Fallback, Pending}]
    /\ buffers \in [Callers -> SUBSET Buffers]
    /\ \A c \in Callers : holder = c <=> pc[c] = "operating"

\* "The handle must not be freed while this call is in flight": the Swift object
\* keeps the promise, whoever else lets go of it meanwhile.
HandleOutlivesCalls ==
    \A c \in Callers : pc[c] \in {"locking", "operating"} => live

\* "The caller must release each returned value": a caller between calls owns no
\* buffer of Rust's, after errors and after panics too.
NothingLeaks ==
    \A c \in Callers : pc[c] = "idle" => buffers[c] = {}

\* Each call takes effect at one moment while it is in flight, though it changes
\* the value in many steps and other callers call meanwhile.
Atomic == INSTANCE AtomicHandle WITH
    value <- IF holder = Nobody THEN value ELSE before,
    call <- [c \in Callers |-> op[c].effect]

ImplementsAtomicHandle == Atomic!Spec

(***************************************************************************)
(* Why the invariants hold: the strengthening that every step preserves.    *)
(***************************************************************************)

InCall == {"locking", "operating", "converting", "returned"}

\* The handle lives as long as anyone has a reference, and who is in a call has one.
ReferencesKeepAlive ==
    /\ live <=> references # {}
    /\ \A c \in Callers : pc[c] \in InCall => c \in references

\* What a caller has of its call, by where the call is
CallState ==
    \A c \in Callers :
        /\ op[c].effect # "none" <=> pc[c] \in InCall
        /\ result[c] # Pending <=> pc[c] \in {"converting", "returned"}
        /\ pc[c] \in {"idle", "locking", "operating", "converting"} => buffers[c] = {}
        /\ pc[c] \in {"answered", "returned"} => buffers[c] \subseteq Forgotten(op[c].returns)
        /\ pc[c] = "failed" => buffers[c] \subseteq {"bytes"}

\* The value after the first n steps of an operation of c on v
After(e, v, c, n) ==
    CASE e = "reset" -> IF n = 0 THEN v ELSE <<>>
      [] e = "read" -> v
      [] OTHER -> Atomic!Extended(v, c, n)

\* While the mutex is held, nobody but its holder has changed the value.
OnlyTheHolderWrites ==
    /\ before \in Seq(Callers)
    /\ \A c \in Callers : holder = c =>
          /\ taken[c] <= Steps(op[c].effect)
          /\ value = After(op[c].effect, before, c, taken[c])

IInv == TypeOK /\ ReferencesKeepAlive /\ CallState /\ OnlyTheHolderWrites

\* The mutex is free again after every call, panics included: no caller waits
\* for one that has gone.
MutexReleased == (holder # Nobody) ~> (holder = Nobody)

\* "poisoned mutexes generally produce fallback values ... or no-op behavior": a
\* call that finds the mutex poisoned leaves the value as it was.
PoisonedIsNoOp ==
    [][poisoned /\ live => UNCHANGED value]_vars
=============================================================================
