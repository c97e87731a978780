---------------------------- MODULE FfiHandleProofs ----------------------------
(***************************************************************************)
(* The handle of FfiHandle, for any set of callers and pushes of any number *)
(* of steps: it outlives its calls, buffers are freed, and every call takes *)
(* effect at one moment.                                                    *)
(***************************************************************************)
EXTENDS FfiHandle, TLAPS

\* The entry points, and what stands for no call or for a function's, are typed.
LEMMA CallTyped ==
  /\ NoCall \in [effect : {"none"}, returns : Results]
  /\ \A returns \in Results :
        EntryPoint("none", returns) \in [effect : {"none"}, returns : Results]
  /\ \A k \in DOMAIN EntryPoints : \A entry \in EntryPoints[k] :
        entry \in [effect : Effects, returns : Results]
<1> USE DEF EntryPoint, Effects, Results
<1>1. NoCall \in [effect : {"none"}, returns : Results]
  BY DEF NoCall
<1>2. ASSUME NEW returns \in Results
      PROVE  EntryPoint("none", returns) \in [effect : {"none"}, returns : Results]
  OBVIOUS
<1>3. ASSUME NEW k \in DOMAIN EntryPoints, NEW entry \in EntryPoints[k]
      PROVE  entry \in [effect : Effects, returns : Results]
  <2>1. CASE k = "matcher"
    BY <1>3, <2>1 DEF EntryPoints, MatcherCalls
  <2>2. CASE k = "stream"
    BY <1>3, <2>2 DEF EntryPoints, StreamCalls, duration_ms
  <2>3. CASE k = "windowed"
    BY <1>3, <2>3 DEF EntryPoints, WindowedCalls, duration_ms
  <2> QED
    BY <1>3, <2>1, <2>2, <2>3 DEF EntryPoints
<1> QED
  BY <1>1, <1>2, <1>3

\* What a call forgets is what taking its result frees.
LEMMA ForgottenTaken ==
  ASSUME NEW returns \in Results
  PROVE  /\ Forgotten(returns) \subseteq Buffers
         /\ \A owned \in SUBSET Forgotten(returns) : Taken(returns, owned) = {}
<1> SUFFICES ASSUME NEW owned \in SUBSET Forgotten(returns)
             PROVE  /\ Forgotten(returns) \subseteq Buffers
                    /\ Taken(returns, owned) = {}
  OBVIOUS
<1>1. CASE returns = "bytes"
  BY <1>1 DEF Forgotten, Taken, FreeBytes, Buffers
<1>2. CASE returns = "array"
  BY <1>2 DEF Forgotten, Taken, FreeArray, Buffers
<1>3. CASE returns = "nested"
  BY <1>3 DEF Forgotten, Taken, FreeWindowedArray, Buffers
<1>4. CASE returns \in {"nothing", "number"}
  BY <1>4 DEF Forgotten, Taken, Buffers
<1> QED
  BY <1>1, <1>2, <1>3, <1>4 DEF Results

\* Freeing the message too leaves nothing of a failed call.
LEMMA MessageTaken ==
  ASSUME NEW returns \in Results, NEW owned \in SUBSET {"bytes"}
  PROVE  FreeBytes(Taken(returns, owned)) = {}
BY DEF Results, Taken, FreeBytes, FreeArray, FreeWindowedArray

LEMMA InitInv == Init => IInv
<1> SUFFICES ASSUME Init PROVE IInv
  OBVIOUS
<1> USE FfiHandleAssumption DEF Init
<1>1. TypeOK
  <2>1. (class \in DOMAIN EntryPoints /\ live \in BOOLEAN /\ references \subseteq Callers
            /\ poisoned \in BOOLEAN)
    BY DEF TypeOK
  <2>2. (holder \in Callers \cup {Nobody} /\ value \in Seq(Callers))
    BY DEF TypeOK
  <2>3. (pc \in [Callers -> Locations])
    BY DEF TypeOK, Locations
  <2>4. (op \in [Callers -> [effect : Effects \cup {"none"}, returns : Results]])
    BY CallTyped DEF TypeOK
  <2>5. (taken \in [Callers -> 0 .. PUSH_STEPS])
    BY DEF TypeOK
  <2>6. (result \in [Callers -> Nat \cup {Fallback, Pending}])
    BY DEF TypeOK
  <2>7. (buffers \in [Callers -> SUBSET Buffers])
    BY DEF TypeOK
  <2>8. (\A d \in Callers : holder = d <=> pc[d] = "operating")
    BY DEF TypeOK
  <2> QED
    BY <2>1, <2>2, <2>3, <2>4, <2>5, <2>6, <2>7, <2>8 DEF TypeOK
<1>2. ReferencesKeepAlive
  BY DEF ReferencesKeepAlive, InCall
<1>3. CallState
  BY DEF CallState, InCall, NoCall, EntryPoint
<1>4. OnlyTheHolderWrites
  BY DEF OnlyTheHolderWrites
<1> QED
  BY <1>1, <1>2, <1>3, <1>4 DEF IInv

-----------------------------------------------------------------------------

(***************************************************************************)
(* One lemma per action: the invariant is preserved.                        *)
(***************************************************************************)

LEMMA NewHandleInv ==
  ASSUME IInv, NEW c \in Callers, NewHandle(c)
  PROVE  IInv'
<1> USE FfiHandleAssumption DEF IInv, NewHandle, object, mutex, calls
<1>1. \A d \in Callers : pc[d] \notin InCall
  BY DEF ReferencesKeepAlive
<1>2. holder = Nobody
  BY <1>1 DEF TypeOK, InCall
<1>3. TypeOK'
  <2>1. (class \in DOMAIN EntryPoints /\ live \in BOOLEAN /\ references \subseteq Callers
            /\ poisoned \in BOOLEAN)'
    BY <1>2 DEF TypeOK
  <2>2. (holder \in Callers \cup {Nobody} /\ value \in Seq(Callers))'
    BY <1>2 DEF TypeOK
  <2>3. (pc \in [Callers -> Locations])'
    BY <1>2 DEF TypeOK, Locations
  <2>4. (op \in [Callers -> [effect : Effects \cup {"none"}, returns : Results]])'
    BY CallTyped DEF TypeOK
  <2>5. (taken \in [Callers -> 0 .. PUSH_STEPS])'
    BY <1>2 DEF TypeOK
  <2>6. (result \in [Callers -> Nat \cup {Fallback, Pending}])'
    BY <1>2 DEF TypeOK
  <2>7. (buffers \in [Callers -> SUBSET Buffers])'
    BY <1>2 DEF TypeOK
  <2>8. (\A d \in Callers : holder = d <=> pc[d] = "operating")'
    BY <1>2 DEF TypeOK
  <2> QED
    BY <2>1, <2>2, <2>3, <2>4, <2>5, <2>6, <2>7, <2>8 DEF TypeOK
<1>4. ReferencesKeepAlive'
  BY <1>1 DEF ReferencesKeepAlive
<1>5. CallState'
  BY DEF CallState
<1>6. OnlyTheHolderWrites'
  BY <1>2 DEF OnlyTheHolderWrites
<1> QED
  BY <1>3, <1>4, <1>5, <1>6

LEMMA ErrorInv ==
  ASSUME IInv, NEW c \in Callers, NewHandleFails(c) \/ TakeError(c)
  PROVE  IInv'
<1> USE FfiHandleAssumption DEF IInv, NewHandleFails, TakeError, object, mutex
<1>1. pc[c] \notin InCall /\ pc'[c] \notin InCall /\ op'[c].effect = "none"
  BY CallTyped DEF InCall, TypeOK, CallState
<1>2. buffers' = [buffers EXCEPT ![c] = buffers'[c]] /\ buffers'[c] \subseteq {"bytes"}
  <2>1. CASE NewHandleFails(c)
    BY <2>1 DEF TypeOK
  <2>2. CASE TakeError(c)
    BY <2>2, MessageTaken DEF TypeOK, CallState
  <2> QED
    BY <2>1, <2>2
<1>3. TypeOK'
  <2>1. (class \in DOMAIN EntryPoints /\ live \in BOOLEAN /\ references \subseteq Callers
            /\ poisoned \in BOOLEAN)'
    BY DEF TypeOK
  <2>2. (holder \in Callers \cup {Nobody} /\ value \in Seq(Callers))'
    BY DEF TypeOK
  <2>3. (pc \in [Callers -> Locations])'
    BY DEF TypeOK, Locations
  <2>4. (op \in [Callers -> [effect : Effects \cup {"none"}, returns : Results]])'
    BY CallTyped DEF TypeOK
  <2>5. (taken \in [Callers -> 0 .. PUSH_STEPS])'
    BY DEF TypeOK
  <2>6. (result \in [Callers -> Nat \cup {Fallback, Pending}])'
    BY DEF TypeOK
  <2>7. (buffers \in [Callers -> SUBSET Buffers])'
    <3>1. buffers'[c] \in SUBSET Buffers
      BY <1>2 DEF Buffers
    <3> QED
      BY <1>2, <3>1 DEF TypeOK
  <2>8. (\A d \in Callers : holder = d <=> pc[d] = "operating")'
    BY DEF TypeOK
  <2> QED
    BY <2>1, <2>2, <2>3, <2>4, <2>5, <2>6, <2>7, <2>8 DEF TypeOK
<1>4. ReferencesKeepAlive'
  <2>1. \A d \in Callers : pc'[d] \in InCall => pc[d] \in InCall
    BY <1>1 DEF TypeOK
  <2>2. UNCHANGED <<live, references>>
    OBVIOUS
  <2> QED
    BY <2>1, <2>2 DEF ReferencesKeepAlive
<1>5. CallState'
  <2>1. pc'[c] = "idle" => buffers'[c] = {}
    <3>1. CASE TakeError(c)
      BY <3>1, MessageTaken DEF TypeOK, CallState
    <3>2. CASE NewHandleFails(c)
      BY <3>2 DEF TypeOK
    <3> QED
      BY <3>1, <3>2
  <2>2. result[c] = Pending
    BY <1>1 DEF CallState, InCall
  <2>3. pc'[c] \in {"idle", "failed"}
    BY DEF TypeOK
  <2>4. \A d \in Callers \ {c} : pc'[d] = pc[d] /\ op'[d] = op[d] /\ buffers'[d] = buffers[d]
    BY <1>2 DEF TypeOK
  <2>5. buffers'[c] \subseteq {"bytes"} /\ UNCHANGED result
    BY <1>2
  <2> HIDE DEF NewHandleFails, TakeError
  <2> QED
    BY <1>1, <2>1, <2>2, <2>3, <2>4, <2>5 DEF CallState, InCall
<1>6. OnlyTheHolderWrites'
  <2>1. \A d \in Callers : holder = d => op'[d] = op[d]
    BY DEF TypeOK
  <2> QED
    BY <2>1 DEF OnlyTheHolderWrites
<1> QED
  BY <1>3, <1>4, <1>5, <1>6

LEMMA FunctionInv ==
  ASSUME IInv, NEW c \in Callers, DataWindowed(c) \/ CallFunction(c) \/ TakeAnswer(c)
  PROVE  IInv'
<1> USE FfiHandleAssumption DEF IInv, DataWindowed, CallFunction, TakeAnswer, object, mutex
<1>1. pc[c] \in {"idle", "answered"} /\ op[c].returns \in Results
  BY DEF TypeOK
<1>2. PICK after \in {"idle", "answered", "failed"}, entry \in [effect : {"none"}, returns : Results],
           owned \in SUBSET Buffers :
        /\ pc' = [pc EXCEPT ![c] = after]
        /\ op' = [op EXCEPT ![c] = entry]
        /\ buffers' = [buffers EXCEPT ![c] = owned]
        /\ after = "idle" => owned = {}
        /\ after = "answered" => owned \subseteq Forgotten(entry.returns)
        /\ after = "failed" => owned \subseteq {"bytes"}
  <2>1. CASE DataWindowed(c)
    <3> DEFINE entry == EntryPoint("none", "nested")
    <3>1. entry \in [effect : {"none"}, returns : Results] /\ entry.returns = "nested"
      BY CallTyped DEF EntryPoint, Results
    <3>2. Forgotten("nested") \in SUBSET Buffers /\ {} \in SUBSET Buffers
             /\ {"bytes"} \in SUBSET Buffers
      BY ForgottenTaken DEF Results, Buffers
    <3>3. CASE /\ pc' = [pc EXCEPT ![c] = "answered"]
               /\ buffers' = [buffers EXCEPT ![c] = Forgotten("nested")]
      BY <2>1, <3>1, <3>2, <3>3
    <3>4. CASE /\ pc' = [pc EXCEPT ![c] = "failed"]
               /\ \E message \in {{}, {"bytes"}} : buffers' = [buffers EXCEPT ![c] = message]
      BY <2>1, <3>1, <3>2, <3>4
    <3> QED
      BY <2>1, <3>3, <3>4
  <2>2. CASE CallFunction(c)
    <3>1. PICK returns \in {"number", "bytes", "array"} :
             /\ op' = [op EXCEPT ![c] = EntryPoint("none", returns)]
             /\ \E owned \in {{}, Forgotten(returns)} :
                   buffers' = [buffers EXCEPT ![c] = owned]
      BY <2>2
    <3>2. returns \in Results
      BY DEF Results
    <3>3. EntryPoint("none", returns) \in [effect : {"none"}, returns : Results]
             /\ EntryPoint("none", returns).returns = returns
      BY <3>2, CallTyped DEF EntryPoint
    <3>4. Forgotten(returns) \in SUBSET Buffers /\ {} \in SUBSET Buffers
      BY <3>2, ForgottenTaken
    <3> QED
      BY <2>2, <3>1, <3>3, <3>4
  <2>3. CASE TakeAnswer(c)
    <3>1. buffers[c] \in SUBSET Forgotten(op[c].returns)
      BY <2>3 DEF CallState
    <3>2. Taken(op[c].returns, buffers[c]) = {}
      BY <1>1, <3>1, ForgottenTaken
    <3> QED
      BY <2>3, <3>2, CallTyped
  <2> QED
    BY <2>1, <2>2, <2>3
<1>3. UNCHANGED <<class, live, references, holder, poisoned, value, taken, result, before>>
  OBVIOUS
<1> HIDE DEF DataWindowed, CallFunction, TakeAnswer
<1>4. op'[c] = entry /\ entry.effect = "none" /\ pc'[c] = after /\ buffers'[c] = owned
        /\ after \notin InCall /\ pc[c] \notin InCall
  BY <1>1, <1>2 DEF TypeOK, InCall
<1>5. TypeOK'
  BY <1>1, <1>2, <1>3 DEF TypeOK, Locations
<1>6. ReferencesKeepAlive'
  BY <1>2, <1>3, <1>4 DEF ReferencesKeepAlive, TypeOK
<1>7. CallState'
  <2>1. result[c] = Pending
    BY <1>1 DEF CallState
  <2> QED
    BY <1>2, <1>3, <1>4, <2>1 DEF CallState, TypeOK, InCall
<1>8. OnlyTheHolderWrites'
  <2>1. \A d \in Callers : holder = d => op'[d] = op[d]
    BY <1>1, <1>2 DEF TypeOK
  <2> QED
    BY <1>3, <2>1 DEF OnlyTheHolderWrites
<1> QED
  BY <1>5, <1>6, <1>7, <1>8

LEMMA ReferenceInv ==
  ASSUME IInv, NEW c \in Callers, DropReference(c) \/ \E d \in Callers : Share(c, d)
  PROVE  IInv'
<1> USE DEF IInv, DropReference, Share, LastReference, mutex, calls
<1>1. TypeOK'
  BY DEF TypeOK
<1>2. ReferencesKeepAlive'
  <2>1. CASE DropReference(c)
    <3>1. (live <=> references # {})'
      BY <2>1 DEF ReferencesKeepAlive, TypeOK
    <3>2. pc[c] \notin InCall
      BY <2>1 DEF InCall
    <3> QED
      BY <2>1, <3>1, <3>2 DEF ReferencesKeepAlive
  <2>2. ASSUME NEW d \in Callers, Share(c, d) PROVE ReferencesKeepAlive'
    BY <2>2 DEF ReferencesKeepAlive
  <2> QED
    BY <2>1, <2>2
<1>3. CallState'
  BY DEF CallState
<1>4. OnlyTheHolderWrites'
  BY DEF OnlyTheHolderWrites
<1> QED
  BY <1>1, <1>2, <1>3, <1>4

LEMMA EnterInv ==
  ASSUME IInv, NEW c \in Callers, Enter(c)
  PROVE  IInv'
<1> USE FfiHandleAssumption DEF IInv, Enter, object, mutex
<1>1. holder # c
  BY DEF TypeOK
<1>2. PICK entry \in [effect : Effects, returns : Results] : op' = [op EXCEPT ![c] = entry]
  BY CallTyped DEF TypeOK
<1>3. entry.effect # "none" /\ op'[c] = entry
  BY <1>2 DEF Effects, TypeOK
<1>4. TypeOK'
  BY <1>2 DEF TypeOK, Locations
<1>5. ReferencesKeepAlive'
  BY DEF ReferencesKeepAlive, InCall, TypeOK
<1>6. CallState'
  BY <1>2, <1>3 DEF CallState, InCall, TypeOK
<1>7. OnlyTheHolderWrites'
  <2>1. \A d \in Callers : holder = d => op'[d] = op[d]
    BY <1>1 DEF TypeOK
  <2> QED
    BY <2>1 DEF OnlyTheHolderWrites
<1> QED
  BY <1>4, <1>5, <1>6, <1>7

LEMMA LockInv ==
  ASSUME IInv, NEW c \in Callers, Lock(c)
  PROVE  IInv'
<1> USE FfiHandleAssumption DEF IInv, Lock, Locked, object
<1>1. TypeOK'
  BY DEF TypeOK, Locations
<1>2. ReferencesKeepAlive'
  BY DEF ReferencesKeepAlive, InCall, TypeOK
<1>3. CallState'
  BY DEF CallState, InCall, TypeOK
<1>4. OnlyTheHolderWrites'
  <2>1. op[c].effect \in Effects
    BY DEF CallState, InCall, TypeOK
  <2>2. After(op[c].effect, value, c, 0) = value
    <3>1. Atomic!Extended(value, c, 0) = value
      BY DEF Atomic!Extended, TypeOK
    <3> QED
      BY <2>1, <3>1 DEF After, Effects
  <2>3. 0 <= Steps(op[c].effect)
    BY <2>1 DEF Steps, Effects
  <2>4. taken'[c] = 0
    BY DEF TypeOK
  <2> QED
    BY <2>2, <2>3, <2>4 DEF OnlyTheHolderWrites, TypeOK
<1> QED
  BY <1>1, <1>2, <1>3, <1>4

\* A push that goes on by one step extends the value by one more change.
LEMMA ExtendedByOne ==
  ASSUME NEW v \in Seq(Callers), NEW c \in Callers, NEW n \in Nat
  PROVE  Append(Atomic!Extended(v, c, n), c) = Atomic!Extended(v, c, n + 1)
BY DEF Atomic!Extended

LEMMA OperateInv ==
  ASSUME IInv, NEW c \in Callers, Operate(c)
  PROVE  IInv'
<1> USE FfiHandleAssumption DEF IInv, Operate, object, mutex
<1>1. op[c].effect \in {"push", "write", "reset"} /\ taken[c] \in Nat
  BY DEF CallState, InCall, TypeOK, Steps, Effects
<1>2. taken[c] + 1 \in 0 .. PUSH_STEPS
  BY <1>1 DEF Steps, TypeOK
<1>3. TypeOK'
  BY <1>2 DEF TypeOK
<1>4. ReferencesKeepAlive'
  BY DEF ReferencesKeepAlive
<1>5. CallState'
  BY DEF CallState
<1>6. OnlyTheHolderWrites'
  <2>1. holder = c
    BY DEF TypeOK
  <2>2. taken'[c] = taken[c] + 1 /\ taken'[c] <= Steps(op[c].effect)
    BY <1>1 DEF TypeOK, Steps
  <2>3. value' = After(op[c].effect, before, c, taken[c] + 1)
    <3>1. CASE op[c].effect \in {"push", "write"}
      BY <1>1, <2>1, <3>1, ExtendedByOne DEF OnlyTheHolderWrites, After
    <3>2. CASE op[c].effect = "reset"
      BY <1>1, <3>2 DEF After
    <3> QED
      BY <1>1, <3>1, <3>2
  <2> QED
    BY <2>1, <2>2, <2>3 DEF OnlyTheHolderWrites
<1> QED
  BY <1>3, <1>4, <1>5, <1>6

LEMMA LeaveInv ==
  ASSUME IInv, NEW c \in Callers, Panic(c) \/ Unlock(c)
  PROVE  IInv'
<1> USE FfiHandleAssumption DEF IInv, Panic, Unwound, Unlock, Forget, object
<1>1. holder = c /\ Len(value) \in Nat
  BY DEF TypeOK
<1>2. TypeOK'
  <2>1. (class \in DOMAIN EntryPoints /\ live \in BOOLEAN /\ references \subseteq Callers
            /\ poisoned \in BOOLEAN)'
    BY <1>1 DEF TypeOK
  <2>2. (holder \in Callers \cup {Nobody} /\ value \in Seq(Callers))'
    BY <1>1 DEF TypeOK
  <2>3. (pc \in [Callers -> Locations])'
    BY DEF TypeOK, Locations
  <2>4. (op \in [Callers -> [effect : Effects \cup {"none"}, returns : Results]])'
    BY CallTyped DEF TypeOK
  <2>5. (taken \in [Callers -> 0 .. PUSH_STEPS])'
    <3>1. 0 \in 0 .. PUSH_STEPS
      OBVIOUS
    <3> QED
      BY <3>1 DEF TypeOK
  <2>6. (result \in [Callers -> Nat \cup {Fallback, Pending}])'
    BY <1>1 DEF TypeOK
  <2>7. (buffers \in [Callers -> SUBSET Buffers])'
    BY DEF TypeOK
  <2>8. (\A d \in Callers : holder = d <=> pc[d] = "operating")'
    BY <1>1 DEF TypeOK
  <2> QED
    BY <2>1, <2>2, <2>3, <2>4, <2>5, <2>6, <2>7, <2>8 DEF TypeOK
<1>3. ReferencesKeepAlive'
  BY DEF ReferencesKeepAlive, InCall, TypeOK
<1>4. CallState'
  BY <1>1 DEF CallState, InCall, TypeOK
<1>5. OnlyTheHolderWrites'
  <2>1. before' = <<>> /\ holder' = Nobody
    OBVIOUS
  <2> QED
    BY <2>1 DEF OnlyTheHolderWrites
<1> QED
  BY <1>2, <1>3, <1>4, <1>5

LEMMA ReturnInv ==
  ASSUME IInv, NEW c \in Callers, Convert(c) \/ Take(c)
  PROVE  IInv'
<1> USE FfiHandleAssumption DEF IInv, Convert, Take, object, mutex
<1>1. holder # c /\ op[c].returns \in Results
  BY DEF TypeOK
<1>2. NoCall.effect = "none" /\ NoCall \in [effect : Effects \cup {"none"}, returns : Results]
  BY CallTyped
<1>3. PICK owned \in SUBSET Buffers :
        /\ buffers' = [buffers EXCEPT ![c] = owned]
        /\ Convert(c) => owned \subseteq Forgotten(op[c].returns)
        /\ Take(c) => owned = {}
  <2>1. CASE Convert(c)
    BY <1>1, <2>1, ForgottenTaken
  <2>2. CASE Take(c)
    BY <1>1, <2>2, ForgottenTaken DEF CallState
  <2> QED
    BY <2>1, <2>2
<1>4. TypeOK'
  <2>1. (class \in DOMAIN EntryPoints /\ live \in BOOLEAN /\ references \subseteq Callers
            /\ poisoned \in BOOLEAN)'
    BY DEF TypeOK
  <2>2. (holder \in Callers \cup {Nobody} /\ value \in Seq(Callers))'
    BY DEF TypeOK
  <2>3. (pc \in [Callers -> Locations])'
    BY DEF TypeOK, Locations
  <2>4. (op \in [Callers -> [effect : Effects \cup {"none"}, returns : Results]])'
    BY <1>2 DEF TypeOK
  <2>5. (taken \in [Callers -> 0 .. PUSH_STEPS])'
    BY DEF TypeOK
  <2>6. (result \in [Callers -> Nat \cup {Fallback, Pending}])'
    BY DEF TypeOK
  <2>7. (buffers \in [Callers -> SUBSET Buffers])'
    BY <1>3 DEF TypeOK
  <2>8. (\A d \in Callers : holder = d <=> pc[d] = "operating")'
    BY DEF TypeOK
  <2> QED
    BY <2>1, <2>2, <2>3, <2>4, <2>5, <2>6, <2>7, <2>8 DEF TypeOK
<1>5. ReferencesKeepAlive'
  BY DEF ReferencesKeepAlive, InCall, TypeOK
<1>6. CallState'
  BY <1>2, <1>3 DEF CallState, InCall, TypeOK
<1>7. OnlyTheHolderWrites'
  <2>1. \A d \in Callers : holder = d => op'[d] = op[d]
    BY <1>1 DEF TypeOK
  <2> QED
    BY <2>1 DEF OnlyTheHolderWrites
<1> QED
  BY <1>4, <1>5, <1>6, <1>7

LEMMA StepInv == IInv /\ [Next]_vars => IInv'
<1> SUFFICES ASSUME IInv, [Next]_vars PROVE IInv'
  OBVIOUS
<1>1. ASSUME NEW c \in Callers, NewHandle(c) PROVE IInv'
  BY <1>1, NewHandleInv
<1>2. ASSUME NEW c \in Callers, NewHandleFails(c) \/ TakeError(c) PROVE IInv'
  BY <1>2, ErrorInv
<1>3. ASSUME NEW c \in Callers, DropReference(c) \/ \E d \in Callers : Share(c, d) PROVE IInv'
  BY <1>3, ReferenceInv
<1>4. ASSUME NEW c \in Callers, Enter(c) PROVE IInv'
  BY <1>4, EnterInv
<1>5. ASSUME NEW c \in Callers, Lock(c) PROVE IInv'
  BY <1>5, LockInv
<1>6. ASSUME NEW c \in Callers, Operate(c) PROVE IInv'
  BY <1>6, OperateInv
<1>7. ASSUME NEW c \in Callers, Panic(c) \/ Unlock(c) PROVE IInv'
  BY <1>7, LeaveInv
<1>8. ASSUME NEW c \in Callers, Convert(c) \/ Take(c) PROVE IInv'
  BY <1>8, ReturnInv
<1>10. ASSUME NEW c \in Callers, DataWindowed(c) \/ CallFunction(c) \/ TakeAnswer(c) PROVE IInv'
  BY <1>10, FunctionInv
<1>9. CASE UNCHANGED vars
  BY <1>9 DEF IInv, TypeOK, ReferencesKeepAlive, CallState, OnlyTheHolderWrites,
              vars, object, mutex, calls
<1> QED
  BY <1>1, <1>2, <1>3, <1>4, <1>5, <1>6, <1>7, <1>8, <1>9, <1>10 DEF Next, Running

-----------------------------------------------------------------------------

\* The strengthening holds in every reachable state.
THEOREM Invariance == Spec => []IInv
<1>1. Init => IInv
  BY InitInv
<1>2. IInv /\ [Next]_vars => IInv'
  BY StepInv
<1> QED
  BY <1>1, <1>2, PTL DEF Spec

\* At most one caller is in the guarded value, the one that holds the mutex.
THEOREM TypeCorrect == Spec => []TypeOK
<1>1. IInv => TypeOK
  BY DEF IInv
<1> QED
  BY <1>1, Invariance, PTL

\* "The handle must not be freed while this call is in flight": it never is.
THEOREM HandleSafe == Spec => []HandleOutlivesCalls
<1>1. IInv => HandleOutlivesCalls
  BY DEF IInv, ReferencesKeepAlive, HandleOutlivesCalls, InCall
<1> QED
  BY <1>1, Invariance, PTL

\* A caller between calls owns no buffer of Rust's, after errors and panics too.
THEOREM NoLeak == Spec => []NothingLeaks
<1>1. IInv => NothingLeaks
  BY DEF IInv, CallState, NothingLeaks
<1> QED
  BY <1>1, Invariance, PTL

-----------------------------------------------------------------------------

(***************************************************************************)
(* The refinement.  A call takes effect when it leaves the mutex: until then *)
(* the callers of the abstract handle still see the value it began with.    *)
(***************************************************************************)

\* Steps that neither enter, leave nor finish a call are not seen.
LEMMA StutterStep ==
  ASSUME IInv, NEW c \in Callers,
         \/ NewHandleFails(c) \/ TakeError(c) \/ DropReference(c)
         \/ DataWindowed(c) \/ CallFunction(c) \/ TakeAnswer(c)
         \/ \E d \in Callers : Share(c, d)
         \/ Lock(c) \/ Operate(c) \/ Convert(c)
  PROVE  UNCHANGED Atomic!vars
<1>1. Nobody \notin Callers
  BY FfiHandleAssumption
<1>2. CASE Lock(c)
  BY <1>1, <1>2 DEF Atomic!vars, Lock, Locked, object
<1>3. CASE Operate(c)
  <2>1. holder = c
    BY <1>3 DEF Operate, IInv, TypeOK
  <2> QED
    BY <1>1, <1>3, <2>1 DEF Atomic!vars, Operate, object, mutex
<1>4. CASE NewHandleFails(c) \/ Convert(c)
  BY <1>4 DEF Atomic!vars, NewHandleFails, Convert, object, mutex
<1>6. CASE TakeError(c) \/ DataWindowed(c) \/ CallFunction(c) \/ TakeAnswer(c)
  <2>1. op[c].effect = "none"
    BY <1>6 DEF TakeError, DataWindowed, CallFunction, TakeAnswer, IInv, CallState, InCall, TypeOK
  <2>2. op'[c].effect = "none" /\ \A d \in Callers \ {c} : op'[d] = op[d]
    <3>1. CASE TakeError(c) \/ TakeAnswer(c)
      BY <3>1 DEF TakeError, TakeAnswer, NoCall, EntryPoint, IInv, TypeOK
    <3>2. CASE DataWindowed(c)
      BY <3>2 DEF DataWindowed, EntryPoint, IInv, TypeOK
    <3>3. CASE CallFunction(c)
      BY <3>3 DEF CallFunction, EntryPoint, IInv, TypeOK
    <3> QED
      BY <1>6, <3>1, <3>2, <3>3
  <2>3. \A d \in Callers : op'[d].effect = op[d].effect
    BY <2>1, <2>2
  <2> QED
    BY <1>6, <2>3 DEF Atomic!vars, TakeError, DataWindowed, CallFunction, TakeAnswer, object, mutex
<1>5. CASE DropReference(c) \/ \E d \in Callers : Share(c, d)
  BY <1>5 DEF Atomic!vars, DropReference, Share, mutex, calls
<1> QED
  BY <1>2, <1>3, <1>4, <1>5, <1>6

LEMMA ReplaceStep ==
  ASSUME IInv, NEW c \in Callers, NewHandle(c)
  PROVE  Atomic!Replace
<1>1. \A d \in Callers : pc[d] \notin InCall
  BY DEF NewHandle, IInv, ReferencesKeepAlive
<1>2. holder = Nobody /\ \A d \in Callers : op[d].effect = "none"
  BY <1>1 DEF IInv, TypeOK, CallState, InCall
<1> QED
  BY <1>2 DEF NewHandle, Atomic!Replace, calls

LEMMA InvokeStep ==
  ASSUME IInv, NEW c \in Callers, Enter(c)
  PROVE  Atomic!Invoke(c)
<1>1. op[c].effect = "none"
  BY DEF Enter, IInv, CallState, InCall
<1>2. PICK entry \in [effect : Effects, returns : Results] : op' = [op EXCEPT ![c] = entry]
  BY CallTyped DEF Enter, IInv, TypeOK
<1>3. entry.effect \in Atomic!Effects
  BY DEF Effects, Atomic!Effects
<1>4. [d \in Callers |-> op'[d].effect]
        = [[d \in Callers |-> op[d].effect] EXCEPT ![c] = entry.effect]
  BY <1>2 DEF IInv, TypeOK
<1> QED
  BY <1>1, <1>3, <1>4 DEF Enter, Atomic!Invoke, object, mutex

LEMMA TakeEffectStep ==
  ASSUME IInv, NEW c \in Callers, Unlock(c)
  PROVE  Atomic!TakeEffect(c)
<1>1. holder = c /\ c # Nobody
  BY FfiHandleAssumption DEF Unlock, IInv, TypeOK
<1>2. op[c].effect \in Effects /\ result[c] = Pending
  BY DEF Unlock, IInv, CallState, InCall, TypeOK
<1>3. value = Atomic!Complete(op[c].effect, before, c)
  <2>1. value = After(op[c].effect, before, c, Steps(op[c].effect))
    BY <1>1 DEF Unlock, IInv, OnlyTheHolderWrites
  <2>2. before \in Seq(Callers)
    BY DEF IInv, OnlyTheHolderWrites
  <2>3. Atomic!Extended(before, c, 0) = before
    BY <2>2 DEF Atomic!Extended
  <2> QED
    BY <1>2, <2>1, <2>3 DEF After, Steps, Atomic!Steps, Effects, Atomic!Complete
<1>4. value' = value /\ holder' = Nobody /\ result' = [result EXCEPT ![c] = Len(value)]
        /\ op' = op
  BY DEF Unlock
<1> QED
  BY <1>1, <1>2, <1>3, <1>4 DEF Atomic!TakeEffect, Effects

LEMMA FailStep ==
  ASSUME IInv, NEW c \in Callers, Panic(c)
  PROVE  Atomic!Fail(c)
<1>1. holder = c /\ c # Nobody /\ taken[c] \in Nat /\ taken[c] <= Steps(op[c].effect)
  BY FfiHandleAssumption DEF Panic, IInv, TypeOK, OnlyTheHolderWrites
<1>2. op[c].effect \in Effects /\ result[c] = Pending
  BY DEF Panic, IInv, CallState, InCall, TypeOK
<1>3. value \in Atomic!Partial(op[c].effect, before, c)
  <2>1. value = After(op[c].effect, before, c, taken[c])
    BY <1>1 DEF IInv, OnlyTheHolderWrites
  <2>2. CASE op[c].effect \in {"push", "write"}
    BY <1>1, <2>1, <2>2, FfiHandleAssumption DEF After, Steps, Atomic!Steps, Atomic!Partial
  <2>3. CASE op[c].effect = "reset"
    BY <2>1, <2>3 DEF After, Atomic!Partial
  <2>4. CASE op[c].effect = "read"
    <3>1. Atomic!Extended(before, c, 0) = before
      BY DEF IInv, OnlyTheHolderWrites, Atomic!Extended
    <3> QED
      BY <2>1, <2>4, <3>1 DEF After, Atomic!Steps, Atomic!Partial
  <2> QED
    BY <1>2, <2>2, <2>3, <2>4 DEF Effects
<1>4. value' = value /\ holder' = Nobody /\ result' = [result EXCEPT ![c] = Fallback]
        /\ op' = op
  BY DEF Panic, Unwound
<1> QED
  BY <1>1, <1>2, <1>3, <1>4 DEF Atomic!Fail, Effects

LEMMA ReturnStep ==
  ASSUME IInv, NEW c \in Callers, Take(c)
  PROVE  Atomic!Return(c)
<1>1. op' = [op EXCEPT ![c] = NoCall] /\ NoCall.effect = "none"
  BY DEF Take, NoCall, EntryPoint
<1>2. [d \in Callers |-> op'[d].effect]
        = [[d \in Callers |-> op[d].effect] EXCEPT ![c] = "none"]
  BY <1>1 DEF IInv, TypeOK
<1> QED
  BY <1>2 DEF Take, IInv, CallState, Atomic!Return, object, mutex

\* Every call takes effect at one moment while it is in flight; one that panics
\* takes a part of its effect, likewise at one moment.
THEOREM Refinement == Spec => ImplementsAtomicHandle
<1>1. Init => Atomic!Init
  BY DEF Init, Atomic!Init, NoCall, EntryPoint
<1>2. IInv /\ [Next]_vars => [Atomic!Next]_(Atomic!vars)
  <2> SUFFICES ASSUME IInv, [Next]_vars PROVE [Atomic!Next]_(Atomic!vars)
    OBVIOUS
  <2>1. ASSUME NEW c \in Callers, NewHandle(c) PROVE Atomic!Next
    BY <2>1, ReplaceStep DEF Atomic!Next
  <2>2. ASSUME NEW c \in Callers, Enter(c) PROVE Atomic!Next
    BY <2>2, InvokeStep DEF Atomic!Next
  <2>3. ASSUME NEW c \in Callers, Unlock(c) PROVE Atomic!Next
    BY <2>3, TakeEffectStep DEF Atomic!Next
  <2>4. ASSUME NEW c \in Callers, Panic(c) PROVE Atomic!Next
    BY <2>4, FailStep DEF Atomic!Next
  <2>5. ASSUME NEW c \in Callers, Take(c) PROVE Atomic!Next
    BY <2>5, ReturnStep DEF Atomic!Next
  <2>6. ASSUME NEW c \in Callers,
               \/ NewHandleFails(c) \/ TakeError(c) \/ DropReference(c)
               \/ DataWindowed(c) \/ CallFunction(c) \/ TakeAnswer(c)
               \/ \E d \in Callers : Share(c, d)
               \/ Lock(c) \/ Operate(c) \/ Convert(c)
        PROVE  UNCHANGED Atomic!vars
    BY <2>6, StutterStep
  <2>7. CASE UNCHANGED vars
    BY <2>7 DEF vars, mutex, calls, object, Atomic!vars
  <2> QED
    BY <2>1, <2>2, <2>3, <2>4, <2>5, <2>6, <2>7 DEF Next, Running
<1> QED
  BY <1>1, <1>2, Invariance, PTL DEF Spec, ImplementsAtomicHandle, Atomic!Spec
=============================================================================
