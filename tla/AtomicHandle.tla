----------------------------- MODULE AtomicHandle -----------------------------
(***************************************************************************)
(* What a handle shared by several callers promises them: each call takes   *)
(* effect at one moment between its start and its return, so that the       *)
(* callers see the handle go through their calls one after another.  A call *)
(* that panics takes a part of its effect, also at one moment, and returns  *)
(* the fallback.                                                            *)
(***************************************************************************)
EXTENDS Integers, Sequences

CONSTANTS
    Callers,
    PUSH_STEPS,         \* changes a push makes to the value
    Fallback,           \* what a call that failed returns
    Pending             \* the result of a call that has not taken effect

VARIABLES
    value,              \* the guarded value: the changes made to it, by call
    call,               \* of each caller: the effect of its call, or "none"
    result              \* of each caller: the changes its answer is from, or Pending

vars == <<value, call, result>>

Effects == {"push", "write", "reset", "read"}
Steps(e) == CASE e = "push" -> PUSH_STEPS [] e = "read" -> 0 [] OTHER -> 1

\* The states a call may leave the value in, given that all or some of its steps
\* were taken.
Extended(v, c, n) == v \o [i \in 1 .. n |-> c]
Complete(e, v, c) == IF e = "reset" THEN <<>> ELSE Extended(v, c, Steps(e))
Partial(e, v, c) ==
    IF e = "reset" THEN {v, <<>>} ELSE {Extended(v, c, n) : n \in 0 .. Steps(e)}

Init ==
    /\ value = <<>>
    /\ call = [c \in Callers |-> "none"]
    /\ result = [c \in Callers |-> Pending]

Invoke(c) ==
    /\ call[c] = "none"
    /\ \E e \in Effects : call' = [call EXCEPT ![c] = e]
    /\ UNCHANGED <<value, result>>

TakeEffect(c) ==
    /\ call[c] # "none" /\ result[c] = Pending
    /\ value' = Complete(call[c], value, c)
    /\ result' = [result EXCEPT ![c] = Len(value')]
    /\ UNCHANGED call

Fail(c) ==
    /\ call[c] # "none" /\ result[c] = Pending
    /\ value' \in Partial(call[c], value, c)
    /\ result' = [result EXCEPT ![c] = Fallback]
    /\ UNCHANGED call

Return(c) ==
    /\ result[c] # Pending
    /\ call' = [call EXCEPT ![c] = "none"]
    /\ result' = [result EXCEPT ![c] = Pending]
    /\ UNCHANGED value

\* The handle is freed and another is made, with no call in flight.
Replace ==
    /\ \A c \in Callers : call[c] = "none"
    /\ value' = <<>>
    /\ UNCHANGED <<call, result>>

Next == Replace \/ \E c \in Callers : Invoke(c) \/ TakeEffect(c) \/ Fail(c) \/ Return(c)

Spec == Init /\ [][Next]_vars
=============================================================================
