-------------------------- MODULE RingBufferProofs --------------------------
(***************************************************************************)
(* RingBuffer is a bounded FIFO queue, for every capacity and value set.   *)
(***************************************************************************)
EXTENDS RingBuffer, SequenceTheorems, TLAPS

\* The two laps an index can be in.
LEMMA WrapLemma == \A i \in 0..(2 * N - 1) : Wrap(i) = IF i < N THEN i ELSE i - N
<1> SUFFICES ASSUME NEW i \in 0..(2 * N - 1)
             PROVE  Wrap(i) = IF i < N THEN i ELSE i - N
    OBVIOUS
<1>1. N \in Nat \ {0}
    BY RingAssumption
<1>2. CASE i < N
    BY <1>1, <1>2 DEF Wrap
<1>3. CASE i >= N
    BY <1>1, <1>3 DEF Wrap
<1> QED BY <1>1, <1>2, <1>3

\* Positions within one lap of head are different array elements.
LEMMA WrapInjective ==
    ASSUME NEW h \in 0..(N - 1), NEW j \in 0..(N - 1), NEW k \in 0..(N - 1)
    PROVE  /\ Wrap(h + j) \in 0..(N - 1)
           /\ Wrap(h + j) = Wrap(h + k) => j = k
           /\ Wrap(h + 0) = h
           /\ Wrap(Wrap(h + 1) + j) = Wrap(h + Wrap(1 + j))
<1>1. N \in Nat \ {0}
    BY RingAssumption
<1>2. Wrap(h + j) = IF h + j < N THEN h + j ELSE h + j - N
    BY <1>1, WrapLemma
<1>3. Wrap(h + k) = IF h + k < N THEN h + k ELSE h + k - N
    BY <1>1, WrapLemma
<1>4. Wrap(h + 0) = h
    BY <1>1, WrapLemma
<1>5. Wrap(1 + j) = IF 1 + j < N THEN 1 + j ELSE 0
    BY <1>1, WrapLemma
<1>6. Wrap(h + 1) = IF h + 1 < N THEN h + 1 ELSE 0
    BY <1>1, WrapLemma
<1>7. Wrap(Wrap(h + 1) + j) = IF Wrap(h + 1) + j < N THEN Wrap(h + 1) + j ELSE Wrap(h + 1) + j - N
    BY <1>1, <1>6, WrapLemma
<1>8. Wrap(h + Wrap(1 + j)) = IF h + Wrap(1 + j) < N THEN h + Wrap(1 + j) ELSE h + Wrap(1 + j) - N
    BY <1>1, <1>5, WrapLemma
<1> QED BY <1>1, <1>2, <1>3, <1>4, <1>5, <1>6, <1>7, <1>8

\* push fills the first position after the window, and only that one.
LEMMA PushKeepsInv == ASSUME RingInv, NEW v \in Value, push(v) PROVE RingInv'
<1>1. N \in Nat \ {0} /\ None \notin Value
    BY RingAssumption
<1>2. CASE len = N
    BY <1>2 DEF push, RingInv, RingTypeOK, WindowIsFull, Wrap
<1>3. CASE len # N
  <2>0. /\ head \in 0..(N - 1) /\ len \in 0..(N - 1)
        /\ buffer \in [0..(N - 1) -> Value \union {None}]
        /\ buffer' = [buffer EXCEPT ![Wrap(head + len)] = v]
      BY <1>1, <1>3 DEF push, RingInv, RingTypeOK
  <2>1. Wrap(head + len) \in 0..(N - 1)
      BY <2>0, WrapInjective
  <2>2. RingTypeOK'
      BY <1>1, <1>3, <2>1 DEF push, RingInv, RingTypeOK
  <2>3. ASSUME NEW k \in 0..(N - 1)
        PROVE  buffer'[Wrap(head + k)] = IF k = len THEN v ELSE buffer[Wrap(head + k)]
    <3>1. Wrap(head + k) \in 0..(N - 1) /\ (Wrap(head + len) = Wrap(head + k) => len = k)
        BY <2>0, WrapInjective
    <3> QED BY <2>0, <2>1, <3>1
  <2>4. head' = head /\ len' = len + 1 /\ len \in 0..(N - 1)
      BY <1>1, <1>3 DEF push, RingInv, RingTypeOK
  <2>5. WindowIsFull'
    <3>1. ASSUME NEW k \in 0..(len' - 1) PROVE buffer'[Wrap(head + k)] # None
        BY <1>1, <2>3, <2>4 DEF RingInv, RingTypeOK, WindowIsFull
    <3>2. ASSUME NEW k \in len'..(N - 1) PROVE buffer'[Wrap(head + k)] = None
        BY <1>1, <2>3, <2>4 DEF RingInv, RingTypeOK, WindowIsFull
    <3> QED BY <2>4, <3>1, <3>2 DEF WindowIsFull, Wrap
  <2> QED BY <2>2, <2>5 DEF RingInv
<1> QED BY <1>2, <1>3

\* pop empties the first position of the window and moves the window on.
LEMMA PopKeepsInv == ASSUME RingInv, pop PROVE RingInv'
<1>1. N \in Nat \ {0} /\ None \notin Value
    BY RingAssumption
<1>2. CASE len = 0
    BY <1>2 DEF pop, RingInv, RingTypeOK, WindowIsFull, Wrap
<1>3. CASE len # 0
  <2>1. Wrap(head + 1) \in 0..(N - 1)
      BY <1>1, WrapLemma DEF RingInv, RingTypeOK
  <2>2. RingTypeOK'
      BY <1>1, <1>3, <2>1 DEF pop, RingInv, RingTypeOK
  <2>3. head' = Wrap(head + 1) /\ len' = len - 1 /\ len \in 1..N
      BY <1>1, <1>3 DEF pop, RingInv, RingTypeOK
  <2>4. ASSUME NEW k \in 0..(N - 1)
        PROVE  buffer'[Wrap(head' + k)] = IF k = N - 1 THEN None ELSE buffer[Wrap(head + (k + 1))]
    <3>1. Wrap(head' + k) = Wrap(head + Wrap(1 + k))
        BY <2>3, WrapInjective DEF RingInv, RingTypeOK
    <3>2. Wrap(1 + k) = IF k = N - 1 THEN 0 ELSE k + 1
        BY <1>1, WrapLemma
    <3>3. Wrap(head + 0) = head /\ 0 \in 0..(N - 1)
        BY <1>1, WrapInjective DEF RingInv, RingTypeOK
    <3>4. CASE k = N - 1
        BY <1>3, <3>1, <3>2, <3>3, <3>4 DEF pop, RingInv, RingTypeOK
    <3>5. CASE k # N - 1
      <4>1. k + 1 \in 0..(N - 1) /\ k + 1 # 0
          BY <1>1, <3>5
      <4>2. Wrap(head + (k + 1)) # head /\ Wrap(head + (k + 1)) \in 0..(N - 1)
          BY <3>3, <4>1, WrapInjective DEF RingInv, RingTypeOK
      <4> QED BY <1>3, <3>1, <3>2, <3>5, <4>2 DEF pop, RingInv, RingTypeOK
    <3> QED BY <3>4, <3>5
  <2>5. WindowIsFull'
    <3>1. ASSUME NEW k \in 0..(len' - 1) PROVE buffer'[Wrap(head' + k)] # None
      <4>1. k \in 0..(N - 1) /\ k # N - 1 /\ k + 1 \in 0..(len - 1)
          BY <1>1, <2>3
      <4> QED BY <2>4, <4>1 DEF RingInv, WindowIsFull
    <3>2. ASSUME NEW k \in len'..(N - 1) PROVE buffer'[Wrap(head' + k)] = None
      <4>1. k \in 0..(N - 1) /\ (k # N - 1 => k + 1 \in len..(N - 1))
          BY <1>1, <2>3
      <4> QED BY <2>4, <4>1 DEF RingInv, WindowIsFull
    <3> QED BY <3>1, <3>2 DEF WindowIsFull, Wrap
  <2> QED BY <2>2, <2>5 DEF RingInv
<1> QED BY <1>2, <1>3

\* The array never holds a value outside the window of len elements from head,
\* nor misses one inside it: RingBuffer::push and pop with any capacity.
THEOREM WindowInvariance == RingSpec => []RingInv
<1>1. new => RingInv
  <2>1. N \in Nat \ {0} /\ None \notin Value
      BY RingAssumption
  <2>2. ASSUME new, NEW k \in 0..(N - 1) PROVE buffer[Wrap(head + k)] = None
      BY <2>1, <2>2, WrapInjective DEF new
  <2> QED BY <2>1, <2>2 DEF new, RingInv, RingTypeOK, WindowIsFull
<1>2. RingInv /\ [RingNext]_ringVars => RingInv'
  <2>1. ASSUME RingInv, UNCHANGED ringVars PROVE RingInv'
      BY <2>1 DEF RingInv, RingTypeOK, WindowIsFull, Wrap, ringVars
  <2> QED BY <2>1, PushKeepsInv, PopKeepsInv DEF RingNext
<1> QED BY <1>1, <1>2, PTL DEF RingSpec

\* push and pop behave as those of a FIFO queue of capacity N: the order of the
\* values, the refusal of a push when full, None from an empty buffer.
THEOREM RefinesFifo == RingSpec => IsFifo
<1>1. new => Fifo!Init
    BY DEF new, Fifo!Init, Queued
<1>2. ASSUME RingInv, NEW v \in Value, push(v) PROVE Fifo!Push(v) \/ Fifo!PushRefused
  <2>1. N \in Nat \ {0}
      BY RingAssumption
  <2>2. Queued \in Seq(Value \union {None}) /\ Len(Queued) = len
      BY <1>2, <2>1, WrapLemma DEF Queued, RingInv, RingTypeOK
  <2>3. CASE len = N
      BY <1>2, <2>2, <2>3 DEF push, Fifo!PushRefused, Queued, Wrap
  <2>4. CASE len # N
    <3>1. /\ len \in 0..(N - 1) /\ head \in 0..(N - 1) /\ len' = len + 1 /\ head' = head
          /\ buffer \in [0..(N - 1) -> Value \union {None}]
          /\ buffer' = [buffer EXCEPT ![Wrap(head + len)] = v]
        BY <1>2, <2>1, <2>4 DEF push, RingInv, RingTypeOK
    <3>2. ASSUME NEW k \in 1..(len + 1)
          PROVE  buffer'[Wrap(head + k - 1)] = IF k = len + 1 THEN v ELSE buffer[Wrap(head + k - 1)]
      <4>1. k - 1 \in 0..(N - 1) /\ head + k - 1 = head + (k - 1)
          BY <2>1, <3>1
      <4>2. Wrap(head + (k - 1)) \in 0..(N - 1) /\ (Wrap(head + (k - 1)) = Wrap(head + len) => k - 1 = len)
          BY <3>1, <4>1, WrapInjective
      <4> QED BY <3>1, <4>1, <4>2
    <3>3. Queued' = [k \in 1..(len + 1) |-> buffer'[Wrap(head + k - 1)]]
        BY <3>1 DEF Queued, Wrap
    <3>4. ASSUME NEW k \in 1..(len + 1), k # len + 1 PROVE Queued[k] = buffer[Wrap(head + k - 1)]
        BY <3>1, <3>4 DEF Queued
    <3>5. ASSUME NEW k \in 1..(len + 1) PROVE Append(Queued, v)[k] = buffer'[Wrap(head + k - 1)]
      <4>1. Append(Queued, v)[k] = IF k = len + 1 THEN v ELSE Queued[k]
          BY <2>2, <3>1, <3>5, SMTT(30)
      <4> QED BY <3>2, <3>4, <3>5, <4>1, Zenon
    <3>6. Queued' = Append(Queued, v)
      <4>1. Append(Queued, v) \in Seq(Value \union {None}) /\ Len(Append(Queued, v)) = len + 1
          BY <2>2, <3>1
      <4>2. Append(Queued, v) \in [1..(len + 1) -> Value \union {None}]
          BY <4>1, LenProperties, Zenon
      <4> QED BY <3>3, <3>5, <4>2, Zenon
    <3>7. Len(Queued) < N
        BY <2>1, <2>2, <3>1
    <3>8. answer' = TRUE
        BY <1>2, <2>4 DEF push
    <3> QED BY <3>6, <3>7, <3>8 DEF Fifo!Push
  <2> QED BY <2>3, <2>4
<1>3. ASSUME RingInv, pop PROVE Fifo!Pop \/ Fifo!PopEmpty
  <2>1. N \in Nat \ {0}
      BY RingAssumption
  <2>2. Queued \in Seq(Value \union {None}) /\ Len(Queued) = len
      BY <1>3, <2>1, WrapLemma DEF Queued, RingInv, RingTypeOK
  <2>3. CASE len = 0
      BY <1>3, <2>2, <2>3 DEF pop, Fifo!PopEmpty, Queued, Wrap
  <2>4. CASE len # 0
    <3>1. len \in 1..N /\ len' = len - 1 /\ head' = Wrap(head + 1) /\ Wrap(head + 0) = head
        BY <1>3, <2>1, <2>4, WrapInjective DEF pop, RingInv, RingTypeOK
    <3>2. ASSUME NEW k \in 1..(len - 1)
          PROVE  buffer'[Wrap(head' + k - 1)] = buffer[Wrap(head + (k + 1) - 1)]
      <4>1. /\ k \in 0..(N - 1) /\ k - 1 \in 0..(N - 1) /\ k # 0 /\ 0 \in 0..(N - 1)
            /\ head + (k + 1) - 1 = head + k /\ 1 + (k - 1) = k
            /\ head' + k - 1 = head' + (k - 1)
          BY <1>3, <2>1, <3>1, WrapInjective DEF RingInv, RingTypeOK
      <4>2. Wrap(1 + (k - 1)) = k
          BY <2>1, <4>1, WrapLemma
      <4>3. Wrap(head' + (k - 1)) = Wrap(head + k)
          BY <1>3, <3>1, <4>1, <4>2, WrapInjective DEF RingInv, RingTypeOK
      <4>4. Wrap(head + k) # head /\ Wrap(head + k) \in 0..(N - 1)
          BY <1>3, <3>1, <4>1, WrapInjective DEF RingInv, RingTypeOK
      <4> QED BY <1>3, <2>4, <4>1, <4>3, <4>4 DEF pop, RingInv, RingTypeOK
    <3>3. Queued' = [k \in 1..(len - 1) |-> buffer'[Wrap(head' + k - 1)]]
        BY <3>1 DEF Queued, Wrap
    <3>4. Queued' = Tail(Queued)
        BY <2>2, <3>1, <3>2, <3>3 DEF Queued
    <3>5. Head(Queued) = buffer[head] /\ Queued # <<>>
      <4>1. head + 1 - 1 = head + 0
          BY <1>3 DEF RingInv, RingTypeOK
      <4> QED BY <2>2, <3>1, <4>1 DEF Queued
    <3> QED BY <1>3, <2>4, <3>4, <3>5 DEF pop, Fifo!Pop
  <2> QED BY <2>3, <2>4
<1>4. RingInv /\ [RingNext]_ringVars => [Fifo!Next]_<<Queued, answer>>
  <2>1. ASSUME UNCHANGED ringVars PROVE UNCHANGED <<Queued, answer>>
      BY <2>1 DEF Queued, Wrap, ringVars
  <2> QED BY <1>2, <1>3, <2>1 DEF RingNext, Fifo!Next
<1> QED BY <1>1, <1>4, WindowInvariance, PTL DEF RingSpec, IsFifo, Fifo!Spec
=============================================================================
