-------------------------- MODULE ResponseProofs ---------------------------
(***************************************************************************)
(* Theorems about one request through a stack of telemetry.Server,         *)
(* AccessLog and Recover, in every order, and about the loggers derived    *)
(* meanwhile: any number of them, with any attributes and groups, and for  *)
(* every amount of room that append may leave.                             *)
(***************************************************************************)
EXTENDS Response, TLAPS, SequenceTheorems

-----------------------------------------------------------------------------
(* The loggers.                                                            *)

(* With extractors nothing is applied to next, and without them nothing is *)
(* recorded; either way a handler has the calls that led to it.  Held is   *)
(* Window, of a slice of the arrays A.                                     *)
Held(A, s) == IF s = L!Nil THEN <<>> ELSE SubSeq(A[s.array], 1, s.len)

Owned ==
    \A i \in 1..Len(handlers) :
        /\ calls[i] = handlers[i].next \o Held(arrays, handlers[i].ops)
        /\ extracts => handlers[i].next = <<>>
        /\ ~extracts => handlers[i].ops = L!Nil

LogInv == L!TypeOK /\ Owned

LEMMA Prefix ==
    ASSUME NEW T, NEW s \in Seq(T), NEW t \in Seq(T)
    PROVE  SubSeq(s \o t, 1, Len(s)) = s /\ SubSeq(s \o t, Len(s) + 1, Len(s) + Len(t)) = t
<1>1. Len(s) \in Nat /\ Len(t) \in Nat /\ s \o t \in Seq(T) /\ Len(s \o t) = Len(s) + Len(t)
  BY ConcatProperties
<1>2. \A i \in 1..Len(s \o t) : (s \o t)[i] \in T
  BY <1>1, ElementOfSeq
<1>3. SubSeq(s \o t, 1, Len(s)) = s
  <2>1. /\ SubSeq(s \o t, 1, Len(s)) \in Seq(T)
        /\ Len(SubSeq(s \o t, 1, Len(s))) = Len(s)
        /\ \A i \in 1..Len(s) : SubSeq(s \o t, 1, Len(s))[i] = (s \o t)[i]
    BY <1>1, <1>2, SubSeqProperties
  <2> QED
    BY <2>1, ConcatProperties, SeqEqual
<1>4. SubSeq(s \o t, Len(s) + 1, Len(s) + Len(t)) = t
  <2> DEFINE u == SubSeq(s \o t, Len(s) + 1, Len(s) + Len(t))
  <2>1. /\ u \in Seq(T) /\ Len(u) = Len(t)
        /\ \A i \in 1..Len(t) : u[i] = (s \o t)[Len(s) + i]
    BY <1>1, <1>2, SubSeqProperties
  <2> HIDE DEF u
  <2>2. \A i \in 1..Len(t) : (s \o t)[Len(s) + i] = t[i]
    BY <1>1, ConcatProperties
  <2> QED
    BY <2>1, <2>2, SeqEqual DEF u
<1> QED
  BY <1>3, <1>4

(* What a slice of a handler holds: as much as it says.                    *)
LEMMA WindowOf ==
    ASSUME L!TypeOK, NEW i \in 1..Len(handlers)
    PROVE  LET s == handlers[i].ops IN
           /\ L!Window(s) \in Seq(L!Ops \cup {"blank"}) /\ Len(L!Window(s)) = s.len
           /\ s \in [array : Nat, len : Nat, cap : Nat] /\ s.len <= s.cap
           /\ L!Window(L!Clip(s)) = L!Window(s)
<1> DEFINE s == handlers[i].ops
<1>1. handlers[i] \in [next : Seq(L!Ops), ops : [array : Nat, len : Nat, cap : Nat]]
  <2>1. handlers \in Seq([next : Seq(L!Ops), ops : [array : Nat, len : Nat, cap : Nat]])
    BY Zenon DEF L!TypeOK
  <2> QED
    BY <2>1, ElementOfSeq
<1>2. CASE s = L!Nil
  BY <1>1, <1>2 DEF L!Window, L!Clip, L!Nil
<1>3. CASE s # L!Nil
  <2>1. /\ s.array \in 1..Len(arrays) /\ s.cap = Len(arrays[s.array]) /\ s.len \in 1..s.cap
        /\ arrays[s.array] \in Seq(L!Ops \cup {"blank"})
    <3>1. s.array \in 1..Len(arrays) /\ s.cap = Len(arrays[s.array]) /\ s.len \in 1..s.cap
      BY <1>3, Zenon DEF L!TypeOK
    <3>2. arrays \in Seq(Seq(L!Ops \cup {"blank"}))
      BY Zenon DEF L!TypeOK
    <3> QED
      BY <3>1, <3>2, ElementOfSeq
  <2>2. /\ L!Window(s) \in Seq(L!Ops \cup {"blank"}) /\ Len(L!Window(s)) = s.len
    <3>1. L!Window(s) = SubSeq(arrays[s.array], 1, s.len)
      BY <1>3 DEF L!Window
    <3>2. \A j \in 1..s.len : arrays[s.array][j] \in L!Ops \cup {"blank"}
      BY <2>1
    <3>3. s.len \in Int /\ 1 <= s.len
      BY <2>1, <1>1
    <3> HIDE DEF s
    <3> QED
      BY <3>1, <3>2, <3>3, SubSeqProperties
  <2>3. L!Clip(s) # L!Nil /\ L!Clip(s).array = s.array /\ L!Clip(s).len = s.len
    BY <1>1, <2>1 DEF L!Clip, L!Nil
  <2>4. L!Window(L!Clip(s)) = L!Window(s)
    BY <1>3, <2>3 DEF L!Window
  <2> QED
    BY <1>1, <2>1, <2>2, <2>4
<1> QED
  BY <1>2, <1>3

(* A slice that was clipped has no room, so that append always makes an    *)
(* array of its own: what the others hold stays as it is.                  *)
LEMMA AppendedIsNew ==
    ASSUME L!TypeOK, NEW i \in 1..Len(handlers), NEW o \in L!Ops,
           NEW r \in L!Appended(L!Clip(handlers[i].ops), o)
    PROVE  \E a \in Seq(L!Ops \cup {"blank"}) :
              /\ r.arrays = Append(arrays, a)
              /\ r.slice.array = Len(arrays) + 1 /\ r.slice.cap = Len(a)
              /\ r.slice.len \in 1..Len(a)
              /\ r.slice \in [array : Nat, len : Nat, cap : Nat]
              /\ SubSeq(a, 1, r.slice.len) = Append(L!Window(handlers[i].ops), o)
<1> DEFINE s == handlers[i].ops  c == L!Clip(s)  T == L!Ops \cup {"blank"}
           W == L!Window(s)
<1>1. /\ W \in Seq(T) /\ Len(W) = s.len /\ s \in [array : Nat, len : Nat, cap : Nat]
      /\ L!Window(c) = W
  BY WindowOf
<1>2. c.cap = c.len /\ c.len = s.len /\ s.len \in Nat
  BY <1>1 DEF L!Clip
<1> DEFINE blanks(room) == [j \in 1..room |-> "blank"]
<1>3. PICK room \in Spare :
        r = [slice |-> [array |-> Len(arrays) + 1, len |-> c.len + 1, cap |-> c.len + 1 + room],
             arrays |-> Append(arrays, Append(L!Window(c), o) \o blanks(room))]
  <2>1. ~(c.len < c.cap)
    BY <1>2
  <2>2. r \in L!Appended(c, o)
    OBVIOUS
  <2> HIDE DEF c
  <2> QED
    BY <2>1, <2>2, Zenon DEF L!Appended
<1> DEFINE V == Append(W, o)  a == V \o blanks(room)
<1>4. room \in Nat /\ Len(arrays) \in Nat
  BY ResponseAssumption DEF L!LogHandlerAssumption, L!TypeOK
<1>5. V \in Seq(T) /\ Len(V) = s.len + 1
  BY <1>1, AppendProperties
<1>6. blanks(room) \in Seq(T) /\ Len(blanks(room)) = room
  BY <1>4
<1>7. a \in Seq(T) /\ Len(a) = s.len + 1 + room /\ SubSeq(a, 1, s.len + 1) = V
  <2> DEFINE b == blanks(room)
  <2>1. V \in Seq(T) /\ b \in Seq(T) /\ Len(V) = s.len + 1 /\ Len(b) = room
    BY <1>5, <1>6
  <2> HIDE DEF V, b, T
  <2>2. V \o b \in Seq(T) /\ Len(V \o b) = Len(V) + Len(b)
    BY <2>1, ConcatProperties
  <2>3. SubSeq(V \o b, 1, Len(V)) = V
    BY <2>1, Prefix
  <2> QED
    BY <2>1, <2>2, <2>3 DEF b
<1>8. /\ r.arrays = Append(arrays, a) /\ r.slice.array = Len(arrays) + 1
      /\ r.slice.cap = s.len + 1 + room /\ r.slice.len = s.len + 1
      /\ r.slice = [array |-> Len(arrays) + 1, len |-> s.len + 1, cap |-> s.len + 1 + room]
  BY <1>1, <1>2, <1>3
<1> HIDE DEF a, V, T
<1>9. r.slice \in [array : Nat, len : Nat, cap : Nat]
  BY <1>2, <1>4, <1>8
<1>10. r.slice.len \in 1..Len(a)
  BY <1>2, <1>4, <1>7, <1>8
<1> QED
  BY <1>7, <1>8, <1>9, <1>10 DEF V, T

LEMMA LogInit == L!Init => LogInv
<1> SUFFICES ASSUME L!Init PROVE LogInv
  OBVIOUS
<1>1. /\ handlers = <<[next |-> <<>>, ops |-> L!Nil]>> /\ arrays = <<>> /\ calls = << <<>> >>
      /\ extracts \in BOOLEAN
  BY Zenon DEF L!Init
<1>2. Len(handlers) = 1 /\ handlers[1] = [next |-> <<>>, ops |-> L!Nil] /\ calls[1] = <<>>
  BY <1>1
<1>3. L!TypeOK
  <2>1. /\ handlers \in Seq([next : Seq(L!Ops), ops : [array : Nat, len : Nat, cap : Nat]])
        /\ arrays \in Seq(Seq(L!Ops \cup {"blank"})) /\ calls \in Seq(Seq(L!Ops))
        /\ Len(calls) = 1
    BY <1>1 DEF L!Nil
  <2>2. \A i \in 1..Len(handlers) : handlers[i].ops = L!Nil
    BY <1>2
  <2> QED
    BY <1>1, <1>2, <2>1, <2>2, Zenon DEF L!TypeOK
<1>4. Owned
  <2>1. <<>> \o <<>> = <<>>
    OBVIOUS
  <2> SUFFICES ASSUME NEW i \in 1..Len(handlers)
               PROVE  /\ calls[i] = handlers[i].next \o Held(arrays, handlers[i].ops)
                      /\ handlers[i].next = <<>> /\ handlers[i].ops = L!Nil
    BY DEF Owned
  <2>2. i = 1
    BY <1>2
  <2>3. Held(arrays, L!Nil) = <<>>
    BY DEF Held
  <2>4. handlers[1].next = <<>> /\ handlers[1].ops = L!Nil
    BY <1>2
  <2> QED
    BY <1>2, <2>1, <2>2, <2>3, <2>4
<1> QED
  BY <1>3, <1>4 DEF LogInv

LEMMA LogStep == LogInv /\ (L!Next \/ UNCHANGED logging) => LogInv'
<1> SUFFICES ASSUME LogInv, L!Next \/ UNCHANGED logging PROVE LogInv'
  OBVIOUS
<1>1. CASE UNCHANGED logging
  BY <1>1 DEF logging, LogInv, L!TypeOK, Owned
<1>2. ASSUME NEW i \in 1..Len(handlers), NEW o \in L!Ops, L!Derive(i, o) PROVE LogInv'
  <2> DEFINE H == [next : Seq(L!Ops), ops : [array : Nat, len : Nat, cap : Nat]]
             T == L!Ops \cup {"blank"}
             Fits(A, s) == s = L!Nil \/ (/\ s.array \in 1..Len(A) /\ s.cap = Len(A[s.array])
                                        /\ s.len \in 1..s.cap)
  <2>1. /\ extracts \in BOOLEAN /\ handlers \in Seq(H) /\ arrays \in Seq(Seq(T))
        /\ calls \in Seq(Seq(L!Ops)) /\ Len(calls) = Len(handlers)
        /\ \A j \in 1..Len(handlers) : Fits(arrays, handlers[j].ops)
    BY Zenon DEF LogInv, L!TypeOK
  <2>2. calls[i] \in Seq(L!Ops) /\ handlers[i] \in H
    BY <2>1, ElementOfSeq
  <2>3. /\ calls' = Append(calls, Append(calls[i], o)) /\ extracts' = extracts
        /\ Append(calls[i], o) \in Seq(L!Ops)
    BY <1>2, <2>2, AppendProperties DEF L!Derive
  <2>4. /\ calls' \in Seq(Seq(L!Ops)) /\ Len(calls') = Len(handlers) + 1
        /\ calls'[Len(handlers) + 1] = Append(calls[i], o)
        /\ \A j \in 1..Len(handlers) : calls'[j] = calls[j]
    <3> DEFINE S == Seq(L!Ops)  e == Append(calls[i], o)
    <3>1. calls \in Seq(S) /\ e \in S /\ calls' = Append(calls, e)
      BY <2>1, <2>3
    <3> HIDE DEF S, e
    <3>2. calls' \in Seq(S) /\ Len(calls') = Len(calls) + 1 /\ calls'[Len(calls) + 1] = e
          /\ \A j \in 1..Len(calls) : calls'[j] = calls[j]
      BY <3>1, AppendProperties
    <3> QED
      BY <2>1, <3>2 DEF S, e
  \* In both cases one handler is appended, and no window of the others moves.
  <2>5. ASSUME NEW h \in H, handlers' = Append(handlers, h),
               arrays' \in Seq(Seq(T)), Fits(arrays', h.ops),
               \A j \in 1..Len(arrays) : j \in 1..Len(arrays') /\ arrays'[j] = arrays[j],
               Append(calls[i], o) = h.next \o Held(arrays', h.ops),
               extracts => h.next = <<>>, ~extracts => h.ops = L!Nil
        PROVE  LogInv'
    <3>1. /\ handlers' \in Seq(H) /\ Len(handlers') = Len(handlers) + 1
          /\ handlers'[Len(handlers) + 1] = h
          /\ \A j \in 1..Len(handlers) : handlers'[j] = handlers[j]
      <4> HIDE DEF H
      <4> QED
        BY <2>1, <2>5, AppendProperties
    <3>2. \A j \in 1..Len(handlers') : j \in 1..Len(handlers) \/ j = Len(handlers) + 1
      <4>1. Len(handlers) \in Nat
        BY <2>1
      <4>2. Len(handlers') = Len(handlers) + 1
        BY <3>1
      <4> QED
        BY <4>1, <4>2
    <3>3. \A j \in 1..Len(handlers) : handlers[j].ops # L!Nil =>
             /\ handlers[j].ops.array \in 1..Len(arrays)
             /\ arrays'[handlers[j].ops.array] = arrays[handlers[j].ops.array]
             /\ handlers[j].ops.array \in 1..Len(arrays')
      BY <2>1, <2>5
    <3>4. L!TypeOK'
      <4>1. ASSUME NEW j \in 1..Len(handlers') PROVE Fits(arrays', handlers'[j].ops)
        <5>1. CASE j \in 1..Len(handlers)
          <6>1. Fits(arrays, handlers[j].ops) /\ handlers'[j] = handlers[j]
            BY <2>1, <3>1, <5>1
          <6> QED
            BY <3>3, <5>1, <6>1
        <5>2. CASE j = Len(handlers) + 1
          BY <2>5, <3>1, <5>2
        <5> QED
          BY <3>2, <5>1, <5>2
      <4>2. Len(calls') = Len(handlers') /\ extracts' \in BOOLEAN
        BY <2>1, <2>3, <2>4, <3>1
      <4> QED
        BY <2>4, <2>5, <3>1, <4>1, <4>2, Zenon DEF L!TypeOK
    <3>5. Owned'
      <4> SUFFICES ASSUME NEW j \in 1..Len(handlers')
                   PROVE  /\ calls'[j] = handlers'[j].next \o Held(arrays', handlers'[j].ops)
                          /\ extracts => handlers'[j].next = <<>>
                          /\ ~extracts => handlers'[j].ops = L!Nil
        BY <2>3 DEF Owned
      <4>1. CASE j \in 1..Len(handlers)
        <5>1. Held(arrays', handlers[j].ops) = Held(arrays, handlers[j].ops)
          BY <3>3, <4>1 DEF Held
        <5>2. handlers'[j] = handlers[j] /\ calls'[j] = calls[j]
          BY <2>4, <3>1, <4>1
        <5> QED
          BY <4>1, <5>1, <5>2 DEF LogInv, Owned
      <4>2. CASE j = Len(handlers) + 1
        BY <2>4, <2>5, <3>1, <4>2
      <4> QED
        BY <3>2, <4>1, <4>2
    <3> QED
      BY <3>4, <3>5 DEF LogInv
  <2>6. /\ calls[i] = handlers[i].next \o Held(arrays, handlers[i].ops)
        /\ extracts => handlers[i].next = <<>>
        /\ ~extracts => handlers[i].ops = L!Nil
    BY DEF LogInv, Owned
  <2>7. handlers[i].next \in Seq(L!Ops) /\ handlers[i].ops \in [array : Nat, len : Nat, cap : Nat]
    BY <2>2
  <2>8. CASE ~extracts
    <3> DEFINE h == [handlers[i] EXCEPT !.next = Append(@, o)]
    <3>1. handlers' = Append(handlers, h) /\ arrays' = arrays
      BY <1>2, <2>8 DEF L!Derive
    <3>2. h.next = Append(handlers[i].next, o) /\ h.ops = handlers[i].ops
      BY <2>2
    <3>3. h.next \in Seq(L!Ops) /\ h \in H
      BY <2>2, <2>7, <3>2, AppendProperties
    <3> HIDE DEF h
    <3>4. /\ Held(arrays', h.ops) = <<>> /\ Held(arrays, handlers[i].ops) = <<>>
          /\ h.ops = L!Nil
      <4>1. handlers[i].ops = L!Nil /\ h.ops = L!Nil
        BY <2>6, <2>8, <3>2
      <4> QED
        BY <4>1, Zenon DEF Held
    <3>5. Append(calls[i], o) = h.next \o Held(arrays', h.ops)
      <4>1. calls[i] = handlers[i].next
        BY <2>6, <2>7, <3>4, ConcatEmptySeq
      <4> QED
        BY <3>2, <3>3, <3>4, <4>1, ConcatEmptySeq
    <3> HIDE DEF H, T
    <3>6. Fits(arrays', h.ops) /\ arrays' \in Seq(Seq(T))
      BY <2>1, <3>1, <3>4
    <3>7. \A j \in 1..Len(arrays) : j \in 1..Len(arrays') /\ arrays'[j] = arrays[j]
      BY <3>1
    <3> HIDE DEF Fits
    <3> QED
      BY <2>5, <2>8, <3>1, <3>3, <3>4, <3>5, <3>6, <3>7
  <2>9. CASE extracts
    <3>1. PICK r \in L!Appended(L!Clip(handlers[i].ops), o) :
            /\ handlers' = Append(handlers, [handlers[i] EXCEPT !.ops = r.slice])
            /\ arrays' = r.arrays
      BY <1>2, <2>9, Zenon DEF L!Derive
    <3> DEFINE h == [handlers[i] EXCEPT !.ops = r.slice]
    <3>2. PICK a \in Seq(T) :
              /\ r.arrays = Append(arrays, a)
              /\ r.slice.array = Len(arrays) + 1 /\ r.slice.cap = Len(a)
              /\ r.slice.len \in 1..Len(a)
              /\ r.slice \in [array : Nat, len : Nat, cap : Nat]
              /\ SubSeq(a, 1, r.slice.len) = Append(L!Window(handlers[i].ops), o)
      BY AppendedIsNew DEF LogInv
    <3>3. h.next = handlers[i].next /\ h.ops = r.slice /\ h.next = <<>>
      <4>1. h.next = handlers[i].next /\ h.ops = r.slice
        BY <2>2
      <4>2. handlers[i].next = <<>>
        BY <2>6, <2>9
      <4> HIDE DEF h
      <4> QED
        BY <4>1, <4>2
    <3>4. h \in H
      BY <2>2, <3>2
    <3>5. /\ arrays' \in Seq(Seq(T)) /\ Len(arrays') = Len(arrays) + 1 /\ Len(arrays) \in Nat
          /\ arrays'[Len(arrays) + 1] = a
          /\ \A j \in 1..Len(arrays) : arrays'[j] = arrays[j]
      <4> DEFINE S == Seq(T)
      <4>1. arrays \in Seq(S) /\ a \in S /\ arrays' = Append(arrays, a)
        BY <2>1, <3>1, <3>2
      <4> HIDE DEF S
      <4> QED
        BY <4>1, AppendProperties DEF S
    <3> HIDE DEF h, H, T
    <3>6. Fits(arrays', h.ops)
      BY <3>2, <3>3, <3>5
    <3>7. h.ops # L!Nil
      BY <3>2, <3>3, <3>5 DEF L!Nil
    <3>8. Held(arrays', h.ops) = Append(L!Window(handlers[i].ops), o)
      BY <3>2, <3>3, <3>5, <3>7 DEF Held
    <3>9. calls[i] = L!Window(handlers[i].ops)
      <4>1. L!Window(handlers[i].ops) \in Seq(T)
        BY WindowOf DEF LogInv, T
      <4>2. L!Window(handlers[i].ops) = Held(arrays, handlers[i].ops)
        BY Zenon DEF Held, L!Window
      <4>3. calls[i] = <<>> \o L!Window(handlers[i].ops)
        BY <2>6, <2>9, <4>2
      <4> QED
        BY <4>1, <4>3, ConcatEmptySeq
    <3>10. Append(calls[i], o) = h.next \o Held(arrays', h.ops)
      BY <2>3, <3>3, <3>8, <3>9, ConcatEmptySeq
    <3> HIDE DEF Fits
    <3>11. handlers' = Append(handlers, h)
      BY <3>1 DEF h
    <3>12. \A j \in 1..Len(arrays) : j \in 1..Len(arrays')
      BY <3>5
    <3> QED
      BY <2>5, <2>9, <3>3, <3>4, <3>5, <3>6, <3>10, <3>11, <3>12
  <2> QED
    BY <2>8, <2>9
<1> QED
  BY <1>1, <1>2 DEF L!Next

(* What a line of a handler is.                                            *)
LEMMA LineOf ==
    ASSUME LogInv, NEW i \in 1..Len(handlers), NEW found \in BOOLEAN
    PROVE  LET ids == IF extracts /\ found THEN <<"ids">> ELSE <<>>
               line == L!Handle(i, found)
           IN  /\ line \in Seq(L!Ops \cup {"ids", "record", "blank"})
               /\ line \in {ids \o calls[i] \o <<"record">>, calls[i] \o <<"record">> \o ids}
               /\ handlers[i].ops = L!Nil => line = calls[i] \o <<"record">> \o ids
               /\ handlers[i].ops = L!Nil /\ extracts => calls[i] = <<>>
               /\ handlers[i].ops # L!Nil => line = ids \o calls[i] \o <<"record">>
<1> DEFINE ids == IF extracts /\ found THEN <<"ids">> ELSE <<>>
           T == L!Ops \cup {"ids", "record", "blank"}
           next == handlers[i].next   W == L!Window(handlers[i].ops)
<1>1. /\ calls[i] = next \o W /\ W \in Seq(T) /\ next \in Seq(T) /\ calls[i] \in Seq(T)
      /\ handlers[i].ops = L!Nil => W = <<>>
      /\ handlers[i].ops # L!Nil => next = <<>>
      /\ extracts => next = <<>>
  <2>1. W \in Seq(L!Ops \cup {"blank"}) /\ W = Held(arrays, handlers[i].ops)
    BY WindowOf, Zenon DEF LogInv, Held, L!Window
  <2>2. next \in Seq(L!Ops) /\ calls[i] \in Seq(L!Ops)
    <3>1. /\ handlers \in Seq([next : Seq(L!Ops), ops : [array : Nat, len : Nat, cap : Nat]])
          /\ calls \in Seq(Seq(L!Ops)) /\ Len(calls) = Len(handlers)
      BY Zenon DEF LogInv, L!TypeOK
    <3>2. handlers[i] \in [next : Seq(L!Ops), ops : [array : Nat, len : Nat, cap : Nat]]
      BY <3>1, ElementOfSeq
    <3> QED
      BY <3>1, <3>2, ElementOfSeq
  <2>3. W \in Seq(T) /\ next \in Seq(T) /\ calls[i] \in Seq(T)
    BY <2>1, <2>2, SeqMonotonic
  <2>4. handlers[i].ops = L!Nil => W = <<>>
    BY Zenon DEF L!Window
  <2>5. /\ calls[i] = next \o Held(arrays, handlers[i].ops)
        /\ extracts => next = <<>>
        /\ ~extracts => handlers[i].ops = L!Nil
    BY Zenon DEF LogInv, Owned
  <2>6. extracts \in BOOLEAN
    BY Zenon DEF LogInv, L!TypeOK
  <2> HIDE DEF T, W, next
  <2> QED
    BY <2>1, <2>3, <2>4, <2>5, <2>6
<1>2. L!Handle(i, found) = IF handlers[i].ops = L!Nil THEN next \o <<"record">> \o ids
                           ELSE next \o ids \o W \o <<"record">>
  BY Zenon DEF L!Handle
<1>3. ids \in Seq(T) /\ <<"record">> \in Seq(T)
  <2>1. <<>> \in Seq(T) /\ <<"ids">> \in Seq(T) /\ <<"record">> \in Seq(T)
    OBVIOUS
  <2> HIDE DEF T
  <2> QED
    BY <2>1
<1> DEFINE rec == <<"record">>
<1> HIDE DEF ids, T, W, next, rec
<1>4. CASE handlers[i].ops = L!Nil
  <2>1. calls[i] = next /\ L!Handle(i, found) = next \o rec \o ids
    BY <1>1, <1>2, <1>4, ConcatEmptySeq DEF rec
  <2>2. next \o rec \o ids \in Seq(T)
    BY <1>1, <1>3, ConcatProperties DEF rec
  <2> QED
    BY <1>1, <1>4, <2>1, <2>2 DEF ids, T, rec
<1>5. CASE handlers[i].ops # L!Nil
  <2>1. calls[i] = W /\ next \o ids = ids /\ L!Handle(i, found) = next \o ids \o W \o rec
    <3>1. next = <<>> /\ W \in Seq(T) /\ ids \in Seq(T)
      BY <1>1, <1>3, <1>5
    <3>2. <<>> \o W = W /\ <<>> \o ids = ids
      BY <3>1, ConcatEmptySeq
    <3> QED
      BY <1>1, <1>2, <1>5, <3>1, <3>2 DEF rec
  <2>2. ids \o W \o rec \in Seq(T)
    BY <1>1, <1>3, ConcatProperties DEF rec
  <2> QED
    BY <1>5, <2>1, <2>2 DEF ids, T, rec
<1> QED
  BY <1>4, <1>5

LEMMA HeadOfConcat ==
    ASSUME NEW T, NEW s \in Seq(T), NEW t \in Seq(T), Len(s) >= 1
    PROVE  /\ s \o t \in Seq(T) /\ Len(s \o t) = Len(s) + Len(t) /\ Len(s \o t) >= 1
           /\ (s \o t)[1] = s[1]
           /\ Len(t) >= 1 => (s \o t)[Len(s) + 1] = t[1]
<1>1. /\ s \o t \in Seq(T) /\ Len(s \o t) = Len(s) + Len(t)
      /\ \A i \in 1..Len(s) + Len(t) :
            (s \o t)[i] = IF i <= Len(s) THEN s[i] ELSE t[i - Len(s)]
  BY ConcatProperties
<1>2. Len(s) \in Nat /\ Len(t) \in Nat
  OBVIOUS
<1> QED
  BY <1>1, <1>2

LEMMA IdsAreTopLevel ==
    ASSUME LogInv, extracts, NEW i \in 1..Len(handlers)
    PROVE  L!TopLevel(L!Handle(i, TRUE), "ids")
<1> DEFINE line == L!Handle(i, TRUE)
<1>1. "ids" \notin Groups /\ "record" \notin Groups
  BY ResponseAssumption DEF L!LogHandlerAssumption, L!Ops
<1>2. CASE handlers[i].ops = L!Nil
  <2>1. line = <<>> \o <<"record">> \o <<"ids">>
    BY <1>2, LineOf
  <2>2. Len(line) = 2 /\ line[1] = "record" /\ line[2] = "ids"
        /\ line \in Seq({"ids", "record"})
    <3> DEFINE a == <<"record">>  b == <<"ids">>  T == {"ids", "record"}
    <3>1. /\ a \in Seq(T) /\ Len(a) = 1 /\ a[1] = "record"
          /\ b \in Seq(T) /\ Len(b) = 1 /\ b[1] = "ids"
      OBVIOUS
    <3>2. line = <<>> \o a \o b
      BY <2>1
    <3> HIDE DEF a, b, T, line
    <3>3. <<>> \o a = a /\ Len(a) >= 1 /\ Len(b) >= 1
      BY <3>1, ConcatEmptySeq
    <3>4. /\ a \o b \in Seq(T) /\ Len(a \o b) = Len(a) + Len(b) /\ (a \o b)[1] = a[1]
          /\ (a \o b)[Len(a) + 1] = b[1]
      <4>1. a \in Seq(T) /\ b \in Seq(T)
        BY <3>1
      <4>2. Len(a) >= 1 => (Len(b) >= 1 => (a \o b)[Len(a) + 1] = b[1])
        BY <4>1, HeadOfConcat
      <4>3. Len(a) >= 1 =>
              a \o b \in Seq(T) /\ Len(a \o b) = Len(a) + Len(b) /\ (a \o b)[1] = a[1]
        BY <4>1, HeadOfConcat
      <4> QED
        BY <3>3, <4>2, <4>3
    <3> QED
      BY <3>1, <3>2, <3>3, <3>4 DEF T
  <2> HIDE DEF line
  <2>3. 2 \in DOMAIN line /\ line[2] = "ids" /\ \A k \in 1..2 : line[k] \notin Groups
    BY <1>1, <2>2
  <2> QED
    BY <2>3 DEF L!TopLevel, line
<1>3. CASE handlers[i].ops # L!Nil
  <2>1. line = <<"ids">> \o calls[i] \o <<"record">>
    BY <1>3, LineOf
  <2>2. calls[i] \in Seq(L!Ops)
    BY ElementOfSeq DEF LogInv, L!TypeOK
  <2>3. 1 \in DOMAIN line /\ line[1] = "ids" /\ \A k \in 1..1 : line[k] \notin Groups
    <3> DEFINE T == L!Ops \cup {"ids", "record"}
    <3>1. calls[i] \in Seq(T) /\ <<"ids">> \in Seq(T) /\ <<"record">> \in Seq(T)
      BY <2>2, SeqMonotonic
    <3>2. /\ line \in Seq(T) /\ Len(line) \in Nat /\ Len(line) >= 1
          /\ line[1] = "ids"
      <4> DEFINE c == calls[i]  a == <<"ids">>  b == <<"record">>
      <4>1. Len(a) >= 1 /\ a[1] = "ids"
        OBVIOUS
      <4>2. c \in Seq(T) /\ a \in Seq(T) /\ b \in Seq(T) /\ line = a \o c \o b
        BY <2>1, <3>1
      <4> HIDE DEF T, a, b, c, line
      <4>3. a \o c \in Seq(T) /\ Len(a \o c) >= 1 /\ (a \o c)[1] = "ids"
        BY <4>1, <4>2, HeadOfConcat
      <4> QED
        BY <4>2, <4>3, HeadOfConcat
    <3> HIDE DEF T, line
    <3> QED
      BY <1>1, <3>2
  <2> HIDE DEF line
  <2> QED
    BY <2>3 DEF L!TopLevel, line
<1> QED
  BY <1>2, <1>3

-----------------------------------------------------------------------------
(* The request.                                                            *)

Begun == stage \in {"leaving", "ended"}

(* The deferred call of the j-th layer has run.                            *)
Left(j) == Begun /\ depth < j

(* The layers are on the stack while the handler runs, and gone at the     *)
(* end; before the handler there is no response and no panic.              *)
Staged ==
    /\ stage = "handler" => depth = Len(args)
    /\ stage = "ended" => depth = 0
    /\ ~Begun => panic = "none"
    /\ stage = "entering" => first = "none" /\ pattern = "none"

(* What the statusWriters on the stack know of the response.  After a      *)
(* handler that did nothing to it there is none, or Recover's 500.         *)
Agreed ==
    /\ first = "none" =>
         /\ ~sent
         /\ \/ head = Nothing /\ \A k \in 1..depth : ~sw[k].written
            \/ /\ head = InternalServerError /\ panic = "none" /\ Begun
               /\ \A k \in 1..depth : sw[k].written /\ sw[k].status = head
    /\ first = "final" =>
         /\ head # Nothing
         /\ \A k \in 1..depth : sw[k].written /\ sw[k].status = head
    /\ first = "info" => \A k \in 1..depth : sw[k].written
    /\ first = "flush" => head # Nothing

(* A deferred call runs once.  Recover's record means that it answered.    *)
Made ==
    /\ \A j \in 1..Len(args) : args[j] # "recover" =>
          record[args[j]].made = IF Left(j) THEN 1 ELSE 0
    /\ record["recover"].made # 0 => Begun /\ (first = "none" => head = InternalServerError)

(* What a layer that left has recorded of the status: none when the        *)
(* handler wrote none, whatever a Recover outside of the layer then did.   *)
Told ==
    \A j \in 1..Len(args) : args[j] # "recover" /\ Left(j) =>
        LET status == record[args[j]].status IN
        /\ first = "final" => status = head
        /\ first = "info" => status # Nothing
        /\ first = "none" =>
             status = head \/ (status = Nothing /\ \E i \in 1..Len(args) : i < j /\ args[i] = "recover")

(* The mux set Pattern on the instance of the innermost layer.             *)
Routed ==
    /\ pattern \in {"none", Instance(Len(args))}
    /\ \A j \in 1..Len(args) : args[j] # "recover" /\ Left(j) =>
          record[args[j]].route = (pattern = Instance(j))

Lined ==
    \A j \in 1..Len(args) :
        args[j] = "log" /\ Left(j) /\ extracts /\ Instance(j) = "rebound" =>
            L!TopLevel(record["log"].line, "ids")

Received ==
    stage = "ended" =>
        received = IF panic = "none" THEN (IF head = Nothing THEN OK ELSE head)
                   ELSE IF sent THEN head ELSE Nothing

RequestInv == TypeOK /\ Staged /\ Agreed /\ Made /\ Told /\ Routed /\ Lined /\ Received

Inv == LogInv /\ RequestInv

LEMMA RequestInit == Init => Inv
<1> SUFFICES ASSUME Init PROVE Inv
  OBVIOUS
<1>1. LogInv
  BY LogInit DEF Init
<1>2. Len(handlers) = 1
  BY Zenon DEF Init, L!Init
<1>3. args \in Seq(Layers) /\ IsInjective(args)
  <2>1. args \in UNION {[1..n -> Layers] : n \in 0..3} /\ IsInjective(args)
    BY DEF Init
  <2>2. PICK n \in 0..3 : args \in [1..n -> Layers]
    BY <2>1
  <2> QED
    BY <2>1, <2>2, SeqDef
<1>4. record = [l \in Layers |-> Blank] /\ \A l \in Layers : record[l] = Blank
  BY DEF Init
<1>5. Blank \in [made : Nat, route : BOOLEAN, status : Statuses,
                line : Seq(L!Ops \cup {"ids", "record", "blank"})]
  BY DEF Blank, Statuses
<1>6. \A j \in 1..Len(args) : args[j] \in Layers
  BY <1>3
<1>7. TypeOK
  <2>1. record \in [Layers -> [made : Nat, route : BOOLEAN, status : Statuses,
                line : Seq(L!Ops \cup {"ids", "record", "blank"})]]
    BY <1>4, <1>5, Zenon
  <2>2. L!TypeOK
    BY <1>1 DEF LogInv
  <2>3. /\ logger \in 1..Len(handlers)
        /\ depth \in 0..Len(args) /\ Len(sw) = depth
        /\ sw \in Seq([status : Statuses \ {Nothing}, written : BOOLEAN])
        /\ stage = "entering" /\ pattern = "none" /\ panic = "none" /\ first = "none"
        /\ head = Nothing /\ sent = FALSE /\ received = Nothing
    <3>1. sw = <<>> /\ <<>> \in Seq([status : Statuses \ {Nothing}, written : BOOLEAN])
      BY DEF Init
    <3>2. Len(args) \in Nat
      BY <1>3
    <3> QED
      BY <1>2, <3>1, <3>2 DEF Init
  <2>4. head \in Statuses \ {EarlyHints} /\ received \in Statuses \ {EarlyHints}
        /\ sent \in BOOLEAN
    <3>1. Nothing \in Statuses \ {EarlyHints}
      BY DEF Statuses, Nothing, EarlyHints
    <3>2. head = Nothing /\ received = Nothing /\ sent = FALSE
      BY <2>3
    <3> QED
      BY <3>1, <3>2
  <2> QED
    BY <1>3, <2>1, <2>2, <2>3, <2>4 DEF TypeOK
<1>8. Staged /\ Agreed /\ Told /\ Lined /\ Received
  BY DEF Init, Staged, Agreed, Told, Lined, Received, Begun, Left
<1>9. Made /\ Routed
  <2>1. \A j \in 1..Len(args) : record[args[j]].made = 0
    BY <1>4, <1>6 DEF Blank
  <2>2. record["recover"].made = 0
    BY <1>4 DEF Blank, Layers
  <2> QED
    BY <2>1, <2>2 DEF Init, Made, Routed, Left, Begun
<1> QED
  BY <1>1, <1>7, <1>8, <1>9 DEF Inv, RequestInv

(* Nothing that happens to the loggers reaches the request, but that the   *)
(* service may choose another before it.                                   *)
LEMMA DeriveStep ==
    ASSUME Inv, LogInv', DeriveLogger
    PROVE  RequestInv'
<1>1. Len(handlers') = Len(handlers) + 1 /\ Len(handlers) \in Nat /\ extracts' = extracts
  <2>1. PICK i \in 1..Len(handlers), o \in L!Ops : L!Derive(i, o)
    BY Zenon DEF DeriveLogger, L!Next
  <2>2. \E h : handlers' = Append(handlers, h)
    BY <2>1, Zenon DEF L!Derive
  <2>3. \E S : handlers \in Seq(S)
    BY DEF Inv, LogInv, L!TypeOK
  <2>4. extracts' = extracts
    BY <2>1, Zenon DEF L!Derive
  <2> QED
    BY <2>2, <2>3, <2>4
<1>2. logger' \in 1..Len(handlers')
  BY <1>1 DEF DeriveLogger, Inv, RequestInv, TypeOK
<1>3. /\ UNCHANGED <<args, sw, first, head, sent, stage, depth, pattern, panic, received, record>>
  BY DEF DeriveLogger, response
<1>4. TypeOK'
  <2>1. L!TypeOK'
    BY DEF LogInv
  <2> QED
    BY <1>2, <1>3, <2>1 DEF Inv, RequestInv, TypeOK
<1>5. Staged' /\ Agreed' /\ Made' /\ Told' /\ Routed' /\ Received'
  BY <1>3 DEF Inv, RequestInv, Staged, Agreed, Made, Told, Routed, Received, Begun, Left,
              Instance, Stack
<1>6. Lined'
  BY <1>1, <1>3 DEF Inv, RequestInv, Lined, Left, Begun, Instance, Stack
<1> QED
  BY <1>4, <1>5, <1>6 DEF RequestInv

(* The way in.                                                             *)
LEMMA EnterStep ==
    ASSUME Inv, LogInv', Enter
    PROVE  RequestInv'
<1> DEFINE S == [status : Statuses \ {Nothing}, written : BOOLEAN]
           e == [status |-> OK, written |-> FALSE]
<1>1. /\ UNCHANGED <<args, first, head, sent, stage, pattern, panic, received, record,
                     extracts, logger, handlers>>
      /\ stage = "entering" /\ depth < Len(args) /\ depth' = depth + 1 /\ sw' = Append(sw, e)
  BY Zenon DEF Enter, Stack, choices, logging
<1>2. e \in S /\ sw \in Seq(S) /\ Len(sw) = depth /\ depth \in Nat /\ Len(args) \in Nat
      /\ first = "none"
  <2>1. /\ args \in Seq(Layers) /\ depth \in 0..Len(args) /\ sw \in Seq(S) /\ Len(sw) = depth
    BY DEF Inv, RequestInv, TypeOK
  <2>2. OK \in Statuses \ {Nothing}
    BY DEF Statuses, OK, Nothing
  <2>3. first = "none"
    BY <1>1 DEF Inv, RequestInv, Staged
  <2> QED
    BY <2>1, <2>2, <2>3
<1>3. /\ sw' \in Seq(S) /\ Len(sw') = depth + 1 /\ sw'[depth + 1] = e
      /\ \A k \in 1..depth : sw'[k] = sw[k]
  <2> HIDE DEF S, e
  <2> QED
    BY <1>1, <1>2, AppendProperties
<1>4. TypeOK'
  <2>1. L!TypeOK'
    BY DEF LogInv
  <2>2. depth' \in 0..Len(args') /\ Len(sw') = depth'
    BY <1>1, <1>2, <1>3
  <2> QED
    BY <1>1, <1>3, <2>1, <2>2 DEF Inv, RequestInv, TypeOK
<1>5. Agreed'
  <2>1. ~sent /\ head = Nothing /\ \A k \in 1..depth : ~sw[k].written
    BY <1>1, <1>2 DEF Inv, RequestInv, Agreed, Begun
  <2>2. \A k \in 1..depth' : ~sw'[k].written
    BY <1>1, <1>2, <1>3, <2>1
  <2> QED
    BY <1>1, <1>2, <2>1, <2>2 DEF Agreed
<1>6. Staged' /\ Made' /\ Told' /\ Routed' /\ Lined' /\ Received'
  BY <1>1 DEF Inv, RequestInv, Staged, Made, Told, Routed, Lined, Received, Begun, Left,
              Instance, Stack
<1> QED
  BY <1>4, <1>5, <1>6 DEF RequestInv

LEMMA DispatchStep ==
    ASSUME Inv, LogInv', NEW matches \in BOOLEAN, Dispatch(matches)
    PROVE  RequestInv'
<1>1. /\ UNCHANGED <<args, first, head, sent, sw, depth, panic, received, record,
                     extracts, logger, handlers>>
      /\ stage = "entering" /\ depth = Len(args) /\ stage' = "handler"
      /\ pattern' = IF matches THEN Instance(depth) ELSE "none"
  BY Zenon DEF Dispatch, Stack, choices, logging, response
<1>2. pattern' \in {"none", Instance(Len(args))} /\ pattern' \in {"none", "original", "rebound"}
  BY <1>1 DEF Instance
<1>3. TypeOK'
  <2>1. L!TypeOK'
    BY DEF LogInv
  <2> QED
    BY <1>1, <1>2, <2>1 DEF Inv, RequestInv, TypeOK
<1>4. Staged' /\ Agreed' /\ Made' /\ Told' /\ Lined' /\ Received'
  BY <1>1 DEF Inv, RequestInv, Staged, Agreed, Made, Told, Lined, Received, Begun, Left,
              Instance, Stack
<1>5. Routed'
  <2>1. Instance(Len(args))' = Instance(Len(args)) /\ ~Begun'
    BY <1>1 DEF Instance, Stack, Begun
  <2> QED
    BY <1>2, <2>1 DEF Routed, Left
<1> QED
  BY <1>3, <1>4, <1>5 DEF RequestInv

(* What the handler does, with its layers on the stack.                    *)
LEMMA RecordedWrites ==
    ASSUME TypeOK, NEW status \in Statuses \ {Nothing}
    PROVE  /\ Recorded(status) \in Seq([status : Statuses \ {Nothing}, written : BOOLEAN])
           /\ Len(Recorded(status)) = depth
           /\ \A k \in 1..depth :
                /\ Recorded(status)[k].written
                /\ Recorded(status)[k].status = IF sw[k].written THEN sw[k].status ELSE status
<1> DEFINE S == [status : Statuses \ {Nothing}, written : BOOLEAN]
           e(k) == IF sw[k].written THEN sw[k] ELSE [status |-> status, written |-> TRUE]
<1>1. sw \in Seq(S) /\ Len(sw) = depth /\ depth \in Nat
  BY DEF TypeOK
<1>2. \A k \in 1..depth : e(k) \in S /\ e(k).written
           /\ e(k).status = IF sw[k].written THEN sw[k].status ELSE status
  <2> SUFFICES ASSUME NEW k \in 1..depth
               PROVE  /\ e(k) \in S /\ e(k).written
                      /\ e(k).status = IF sw[k].written THEN sw[k].status ELSE status
    OBVIOUS
  <2>1. sw[k] \in S
    BY <1>1, ElementOfSeq
  <2> QED
    BY <2>1
<1> HIDE DEF S, e
<1>3. Recorded(status) = [k \in 1..depth |-> e(k)]
  BY DEF Recorded, e
<1>4. Recorded(status) \in [1..depth -> S]
  BY <1>2, <1>3
<1>5. Recorded(status) \in Seq(S) /\ Len(Recorded(status)) = depth
  BY <1>1, <1>4, SeqDef
<1> QED
  BY <1>2, <1>3, <1>5 DEF S

LEMMA WriteHeaderStep ==
    ASSUME Inv, LogInv', NEW status \in Statuses \ {Nothing}, NEW what, NEW large \in BOOLEAN,
           stage = "handler", what = IF status = EarlyHints THEN "info" ELSE "final",
           sw' = Recorded(status), ServerHeader(status), First(what),
           sent' = (sent \/ large), UNCHANGED <<stage, panic>>, Inside,
           large => status # EarlyHints
    PROVE  RequestInv'
<1>1. /\ UNCHANGED <<args, depth, panic, received, record, stage, pattern,
                     extracts, logger, handlers>>
      /\ depth = Len(args) /\ ~Begun
  BY Zenon DEF Inside, choices, logging, Begun, Inv, RequestInv, Staged
<1>2. /\ sw' \in Seq([status : Statuses \ {Nothing}, written : BOOLEAN])
      /\ Len(sw') = depth
      /\ \A k \in 1..depth :
           sw'[k].written /\ sw'[k].status = IF sw[k].written THEN sw[k].status ELSE status
  BY RecordedWrites DEF Inv, RequestInv
<1>3. /\ head' = IF status = EarlyHints \/ head # Nothing THEN head ELSE status
      /\ head' \in Statuses \ {EarlyHints}
  <2>1. head \in Statuses \ {EarlyHints}
    BY DEF Inv, RequestInv, TypeOK
  <2> QED
    BY <2>1 DEF ServerHeader
<1>4. first' = (IF first = "none" THEN what ELSE first) /\ what \in {"info", "final"}
  BY DEF First
<1>5. TypeOK'
  <2>1. L!TypeOK'
    BY DEF LogInv
  <2>2. sent' \in BOOLEAN /\ first' \in {"none", "final", "info", "flush"}
    BY <1>4 DEF Inv, RequestInv, TypeOK
  <2> QED
    BY <1>1, <1>2, <1>3, <2>1, <2>2 DEF Inv, RequestInv, TypeOK
<1>6. Agreed'
  <2>1. Agreed /\ first \in {"none", "final", "info", "flush"}
    BY DEF Inv, RequestInv, TypeOK
  <2>2. status # Nothing /\ first' # "none"
    BY <1>4, <2>1
  <2>3. CASE first = "none"
    <3>1. head = Nothing /\ \A k \in 1..depth : ~sw[k].written
      BY <1>1, <2>1, <2>3 DEF Agreed
    <3> QED
      BY <1>1, <1>2, <1>3, <1>4, <2>2, <2>3, <3>1 DEF Agreed
  <2>4. CASE first # "none"
    <3>1. first' = first
      BY <1>4, <2>4
    <3> QED
      BY <1>1, <1>2, <1>3, <2>1, <2>2, <3>1 DEF Agreed
  <2> QED
    BY <2>3, <2>4
<1>7. Staged' /\ Made' /\ Told' /\ Routed' /\ Lined' /\ Received'
  BY <1>1 DEF Inv, RequestInv, Staged, Made, Told, Routed, Lined, Received, Begun, Left,
              Instance, Stack
<1> QED
  BY <1>5, <1>6, <1>7 DEF RequestInv

LEMMA HandlerStep ==
    ASSUME Inv, LogInv', Handler
    PROVE  RequestInv'
<1>1. ASSUME NEW status \in Statuses \ {Nothing}, WriteHeader(status) PROVE RequestInv'
  <2> DEFINE what == IF status = EarlyHints THEN "info" ELSE "final"
  <2>1. /\ stage = "handler" /\ sw' = Recorded(status) /\ ServerHeader(status) /\ First(what)
        /\ sent' = sent /\ UNCHANGED <<stage, panic>> /\ Inside
    BY <1>1, Zenon DEF WriteHeader
  <2>2. sent' = (sent \/ FALSE)
    BY <2>1 DEF Inv, RequestInv, TypeOK
  <2> QED
    BY <2>1, <2>2, WriteHeaderStep, Zenon
<1>2. ASSUME NEW large \in BOOLEAN, Write(large) PROVE RequestInv'
  <2>1. OK \in Statuses \ {Nothing} /\ OK # EarlyHints
    BY DEF OK, EarlyHints, Statuses, Nothing
  <2>2. /\ stage = "handler" /\ sw' = Recorded(OK) /\ ServerHeader(OK) /\ First("final")
        /\ sent' = (sent \/ large) /\ UNCHANGED <<stage, panic>> /\ Inside
    BY <1>2, Zenon DEF Write
  <2>3. "final" = IF OK = EarlyHints THEN "info" ELSE "final"
    BY <2>1
  <2> QED
    BY <2>1, <2>2, <2>3, WriteHeaderStep, Zenon
<1>3. ASSUME Flush PROVE RequestInv'
  <2>1. /\ UNCHANGED <<args, depth, panic, received, record, stage, pattern, sw,
                       extracts, logger, handlers>>
        /\ sent' = TRUE /\ first' = IF first = "none" THEN "flush" ELSE first
        /\ ServerHeader(OK) /\ stage = "handler"
    BY <1>3, Zenon DEF Flush, Inside, choices, logging, First
  <2>2. head' = IF head = Nothing THEN OK ELSE head
    BY <2>1 DEF ServerHeader, OK, EarlyHints
  <2>3. head' \in Statuses \ {EarlyHints} /\ head' # Nothing
    BY <2>2 DEF Inv, RequestInv, TypeOK, Statuses, OK, EarlyHints, Nothing, InternalServerError
  <2>4. TypeOK'
    <3>1. L!TypeOK'
      BY DEF LogInv
    <3> QED
      BY <2>1, <2>3, <3>1 DEF Inv, RequestInv, TypeOK
  <2>5. Agreed'
    <3>1. Agreed /\ first' # "none"
      BY <2>1 DEF Inv, RequestInv
    <3> QED
      BY <2>1, <2>2, <2>3, <3>1 DEF Agreed
  <2>6. Staged' /\ Made' /\ Told' /\ Routed' /\ Lined' /\ Received'
    BY <2>1 DEF Inv, RequestInv, Staged, Made, Told, Routed, Lined, Received, Begun, Left,
                Instance, Stack
  <2> QED
    BY <2>4, <2>5, <2>6 DEF RequestInv
<1>4. ASSUME NEW value \in {"none", "panic", "abort"}, stage = "handler", stage' = "leaving",
             panic' = value, UNCHANGED response, Inside
      PROVE  RequestInv'
  <2>1. /\ UNCHANGED <<args, depth, head, sent, first, received, record, pattern, sw,
                       extracts, logger, handlers>>
        /\ depth = Len(args)
    BY <1>4, Zenon DEF response, Inside, choices, logging, Inv, RequestInv, Staged
  <2>2. \A j \in 1..Len(args) : ~Left(j)'
    <3>1. args \in Seq(Layers)
      BY DEF Inv, RequestInv, TypeOK
    <3> QED
      BY <2>1, <3>1 DEF Left
  <2>3. TypeOK'
    <3>1. L!TypeOK'
      BY DEF LogInv
    <3> QED
      BY <1>4, <2>1, <3>1 DEF Inv, RequestInv, TypeOK
  <2>4. Agreed'
    BY <1>4, <2>1 DEF Agreed, Inv, RequestInv, Begun
  <2>5. Staged' /\ Received'
    BY <1>4, <2>1 DEF Inv, RequestInv, Staged, Received, Begun
  <2>6. Made'
    BY <1>4, <2>1, <2>2 DEF Inv, RequestInv, Made, Begun, Left
  <2>7. Told' /\ Lined'
    BY <2>1, <2>2 DEF Told, Lined
  <2>8. Routed'
    BY <2>1, <2>2 DEF Inv, RequestInv, Routed, Instance, Stack
  <2> QED
    BY <2>3, <2>4, <2>5, <2>6, <2>7, <2>8 DEF RequestInv
<1>5. CASE Return
  BY <1>4, <1>5 DEF Return, Inv, RequestInv, Staged, Begun
<1>6. ASSUME NEW value \in {"panic", "abort"}, Panic(value) PROVE RequestInv'
  BY <1>4, <1>6 DEF Panic
<1> QED
  BY <1>1, <1>2, <1>3, <1>5, <1>6 DEF Handler

(* A deferred call: the innermost layer that is left leaves.               *)
LEMMA FrontOf ==
    ASSUME NEW S, NEW s \in Seq(S), Len(s) # 0
    PROVE  /\ Front(s) \in Seq(S) /\ Len(Front(s)) = Len(s) - 1
           /\ \A k \in 1..Len(s) - 1 : Front(s)[k] = s[k]
<1>1. \A k \in 1..Len(s) - 1 : s[k] \in S
  BY ElementOfSeq
<1>2. Len(s) \in Nat /\ Len(s) - 1 \in Int /\ Len(s) >= 1
  OBVIOUS
<1>3. /\ SubSeq(s, 1, Len(s) - 1) \in Seq(S)
      /\ Len(SubSeq(s, 1, Len(s) - 1)) = IF 1 <= Len(s) - 1 THEN Len(s) - 1 - 1 + 1 ELSE 0
      /\ \A k \in 1..Len(s) - 1 - 1 + 1 : SubSeq(s, 1, Len(s) - 1)[k] = s[1 + k - 1]
  BY <1>1, <1>2, SubSeqProperties
<1>4. /\ Len(s) - 1 - 1 + 1 = Len(s) - 1
      /\ \A k \in 1..Len(s) - 1 : 1 + k - 1 = k
  BY <1>2
<1>5. Front(s) = SubSeq(s, 1, Len(s) - 1)
  BY DEF Front
<1>6. Len(Front(s)) = Len(s) - 1
  <2> DEFINE n == Len(s)  front == SubSeq(s, 1, n - 1)
  <2>1. n \in Nat /\ n >= 1 /\ Len(front) = IF 1 <= n - 1 THEN n - 1 - 1 + 1 ELSE 0
    BY <1>2, <1>3
  <2> HIDE DEF n, front
  <2>2. Len(front) = n - 1
    BY <2>1
  <2> QED
    BY <1>5, <2>2 DEF n, front
<1> QED
  BY <1>3, <1>4, <1>5, <1>6

LEMMA LeaveStep ==
    ASSUME Inv, Leave
    PROVE  /\ UNCHANGED <<args, stage, pattern, first, sent, received, extracts, logger, handlers>>
           /\ args \in Seq(Layers) /\ Len(args) \in Nat /\ stage = "leaving" /\ Begun /\ Begun'
           /\ depth \in 1..Len(args) /\ depth' = depth - 1 /\ Top = args[depth]
           /\ depth' \in 0..Len(args)
           /\ \A j \in 1..Len(args) : Left(j)' <=> Left(j) \/ j = depth
           /\ \A j \in 1..Len(args) : args[j] = args[depth] => j = depth
<1>1. /\ UNCHANGED <<args, stage, pattern, first, sent, received, extracts, logger, handlers>>
      /\ stage = "leaving" /\ depth' = depth - 1 /\ depth > 0
  BY Zenon DEF Leave, choices, logging
<1>2. args \in Seq(Layers) /\ depth \in 0..Len(args) /\ IsInjective(args)
  BY DEF Inv, RequestInv, TypeOK
<1>3. Begun /\ Begun'
  BY <1>1 DEF Begun
<1>4. depth \in 1..Len(args) /\ Len(args) \in Nat
  BY <1>1, <1>2
<1>5. \A j \in 1..Len(args) : Left(j)' <=> Left(j) \/ j = depth
  BY <1>1, <1>3, <1>4 DEF Left
<1>6. \A j \in 1..Len(args) : args[j] = args[depth] => j = depth
  BY <1>2, <1>4 DEF IsInjective
<1> QED
  BY <1>1, <1>2, <1>3, <1>4, <1>5, <1>6 DEF Top, Stack

LEMMA ObserverStep ==
    ASSUME Inv, LogInv', Leave, Top # "recover",
           NEW line \in Seq(L!Ops \cup {"ids", "record", "blank"}),
           record' = [record EXCEPT ![Top] = [Seen EXCEPT !.line = line]],
           Top = "log" /\ extracts /\ Instance(depth) = "rebound" => L!TopLevel(line, "ids"),
           sw' = Front(sw), UNCHANGED <<head, panic>>
    PROVE  RequestInv'
<1> DEFINE S == [status : Statuses \ {Nothing}, written : BOOLEAN]
           Lines == Seq(L!Ops \cup {"ids", "record", "blank"})
           R == [made : Nat, route : BOOLEAN, status : Statuses, line : Lines]
           rec == [Seen EXCEPT !.line = line]
           status == IF sw[depth].written THEN sw[depth].status ELSE Nothing
<1>1. /\ UNCHANGED <<args, stage, pattern, first, sent, received, extracts, logger, handlers>>
      /\ args \in Seq(Layers) /\ Len(args) \in Nat /\ stage = "leaving" /\ Begun /\ Begun'
      /\ depth \in 1..Len(args) /\ depth' = depth - 1 /\ Top = args[depth]
      /\ depth' \in 0..Len(args)
  BY LeaveStep, Zenon
<1>2. /\ \A j \in 1..Len(args) : Left(j)' <=> Left(j) \/ j = depth
      /\ \A j \in 1..Len(args) : args[j] = args[depth] => j = depth
  BY LeaveStep
<1>3. sw \in Seq(S) /\ Len(sw) = depth /\ record \in [Layers -> R]
  BY DEF Inv, RequestInv, TypeOK
<1>4. /\ sw' \in Seq(S) /\ Len(sw') = depth' /\ \A k \in 1..depth' : sw'[k] = sw[k]
  <2> HIDE DEF S
  <2> QED
    BY <1>1, <1>3, FrontOf, SMTT(30)
<1>5. /\ rec \in R /\ rec.made = record[Top].made + 1 /\ rec.status = status
      /\ rec.route = (pattern = Instance(depth)) /\ rec.line = line
  <2>1. record[Top] \in R
    BY <1>1, <1>3
  <2>2. sw[depth] \in S
    <3> HIDE DEF S
    <3>1. depth \in 1..Len(sw)
      BY <1>1, <1>3
    <3> QED
      BY <1>3, <3>1, ElementOfSeq
  <2>3. status \in Statuses
    BY <2>2 DEF Statuses
  <2>4. line \in Lines
    OBVIOUS
  <2> HIDE DEF Lines, status
  <2>5. Seen = [made |-> record[Top].made + 1, route |-> pattern = Instance(depth),
               status |-> status, line |-> <<>>]
    BY DEF Seen, status
  <2>6. rec = [made |-> record[Top].made + 1, route |-> pattern = Instance(depth),
              status |-> status, line |-> line]
    BY <2>5
  <2>7. record[Top].made + 1 \in Nat
    BY <2>1
  <2> HIDE DEF rec
  <2> QED
    BY <2>3, <2>4, <2>6, <2>7
<1>6. Top \in Layers /\ Top # "recover"
  BY <1>1
<1>6a. sw[depth].status # Nothing
  <2> HIDE DEF S
  <2>1. depth \in 1..Len(sw)
    BY <1>1, <1>3
  <2>2. sw[depth] \in S
    BY <1>3, <2>1, ElementOfSeq
  <2> QED
    BY <2>2 DEF S
<1> HIDE DEF R, rec, status, S
<1>7. /\ record' \in [Layers -> R] /\ record'[Top] = rec
      /\ \A l \in Layers : l # Top => record'[l] = record[l]
  BY <1>3, <1>5, <1>6 DEF rec
<1>8. \A j \in 1..Len(args) : args[j] \in Layers /\ (j # depth => args[j] # Top)
  BY <1>1, <1>2
<1>9. TypeOK'
  <2>1. L!TypeOK'
    BY DEF LogInv
  <2> QED
    BY <1>1, <1>4, <1>7, <2>1 DEF Inv, RequestInv, TypeOK, S, R
<1>10. Agreed'
  <2>1. \A k \in 1..depth' : k \in 1..depth /\ sw'[k] = sw[k]
    BY <1>1, <1>4
  <2>2. Agreed /\ UNCHANGED <<first, sent, head, panic>> /\ Begun /\ Begun'
    BY <1>1 DEF Inv, RequestInv
  <2> QED
    BY <2>1, <2>2 DEF Agreed
<1>11. Staged' /\ Received'
  BY <1>1 DEF Inv, RequestInv, Staged, Received
<1>12. Made'
  <2>1. record'["recover"] = record["recover"]
    BY <1>6, <1>7 DEF Layers
  <2>2. ASSUME NEW j \in 1..Len(args), args[j] # "recover"
        PROVE  record'[args[j]].made = IF Left(j)' THEN 1 ELSE 0
    <3>1. record[args[j]].made = IF Left(j) THEN 1 ELSE 0
      BY <2>2 DEF Inv, RequestInv, Made
    <3>2. CASE j = depth
      <4>1. ~Left(depth) /\ Left(j)'
        BY <1>1, <1>2, <3>2 DEF Left
      <4> QED
        <5>1. record'[args[j]].made = record[args[j]].made + 1
          BY <1>1, <1>5, <1>7, <3>2
        <5>2. record[args[j]].made = 0
          BY <3>1, <3>2, <4>1
        <5> QED
          BY <4>1, <5>1, <5>2
    <3>3. CASE j # depth
      BY <1>2, <1>7, <1>8, <3>1, <3>3
    <3> QED
      BY <3>2, <3>3
  <2> QED
    BY <1>1, <2>1, <2>2 DEF Inv, RequestInv, Made
<1>13. Told'
  <2> SUFFICES ASSUME NEW j \in 1..Len(args), args[j] # "recover", Left(j)'
               PROVE  LET s == record'[args[j]].status IN
                      /\ first = "final" => s = head
                      /\ first = "info" => s # Nothing
                      /\ first = "none" =>
                           s = head \/ (s = Nothing /\ \E i \in 1..Len(args) :
                                                         i < j /\ args[i] = "recover")
    BY <1>1 DEF Told
  <2>1. CASE j = depth
    <3>1. record'[args[j]].status = status
      BY <1>1, <1>5, <1>7, <2>1
    <3>2. depth \in 1..depth /\ sw[depth].status # Nothing
      BY <1>1, <1>6a
    <3>3. first = "final" => status = head
      BY <3>2 DEF Inv, RequestInv, Agreed, status
    <3>4. first = "info" => status # Nothing
      BY <3>2 DEF Inv, RequestInv, Agreed, status
    <3>5. first = "none" => status = head
      BY <3>2 DEF Inv, RequestInv, Agreed, status
    <3> QED
      BY <3>1, <3>3, <3>4, <3>5
  <2>2. CASE j # depth
    <3>1. record'[args[j]] = record[args[j]] /\ Left(j)
      BY <1>2, <1>7, <1>8, <2>2
    <3> QED
      BY <3>1 DEF Inv, RequestInv, Told
  <2> QED
    BY <2>1, <2>2
<1>14. Routed'
  <2>1. ASSUME NEW j \in 1..Len(args), args[j] # "recover", Left(j)'
        PROVE  record'[args[j]].route = (pattern = Instance(j))
    <3>1. CASE j = depth
      BY <1>1, <1>5, <1>7, <3>1
    <3>2. CASE j # depth
      BY <1>2, <1>7, <1>8, <2>1, <3>2 DEF Inv, RequestInv, Routed
    <3> QED
      BY <3>1, <3>2
  <2>2. args' = args /\ pattern' = pattern /\ Routed
    BY <1>1 DEF Inv, RequestInv
  <2>3. \A j : Instance(j)' = Instance(j)
    BY <2>2 DEF Instance, Stack
  <2> QED
    BY <2>1, <2>2, <2>3 DEF Routed
<1>15. Lined'
  <2>1. ASSUME NEW j \in 1..Len(args), args[j] = "log", Left(j)', extracts,
               Instance(j) = "rebound"
        PROVE  L!TopLevel(record'["log"].line, "ids")
    <3>1. CASE j = depth
      BY <1>1, <1>5, <1>7, <2>1, <3>1
    <3>2. CASE j # depth
      <4>1. Left(j) /\ record'["log"] = record["log"]
        BY <1>2, <1>7, <1>8, <2>1, <3>2
      <4> QED
        BY <2>1, <4>1 DEF Inv, RequestInv, Lined
    <3> QED
      BY <3>1, <3>2
  <2>2. \A j : Instance(j)' = Instance(j)
    BY <1>1 DEF Instance, Stack
  <2> QED
    BY <1>1, <2>1, <2>2 DEF Lined, L!TopLevel
<1> QED
  BY <1>9, <1>10, <1>11, <1>12, <1>13, <1>14, <1>15 DEF RequestInv

LEMMA RecoversStep ==
    ASSUME Inv, LogInv', Recovers
    PROVE  RequestInv'
<1> DEFINE S == [status : Statuses \ {Nothing}, written : BOOLEAN]
           Lines == Seq(L!Ops \cup {"ids", "record", "blank"})
           R == [made : Nat, route : BOOLEAN, status : Statuses, line : Lines]
           quiet == sw[depth].written
<1>1. /\ UNCHANGED <<args, stage, pattern, first, sent, received, extracts, logger, handlers>>
      /\ args \in Seq(Layers) /\ Len(args) \in Nat /\ stage = "leaving" /\ Begun /\ Begun'
      /\ depth \in 1..Len(args) /\ depth' = depth - 1 /\ Top = args[depth]
      /\ depth' \in 0..Len(args)
  BY LeaveStep, Zenon DEF Recovers
<1>2. /\ \A j \in 1..Len(args) : Left(j)' <=> Left(j) \/ j = depth
      /\ \A j \in 1..Len(args) : args[j] = args[depth] => j = depth
  BY LeaveStep DEF Recovers
<1>3. /\ args[depth] = "recover" /\ panic = "panic" /\ panic' = "none"
      /\ quiet => sw' = Front(sw) /\ head' = head
      /\ ~quiet => sw' = Front(Recorded(InternalServerError)) /\ ServerHeader(InternalServerError)
      /\ record' = [record EXCEPT !["recover"].made = @ + 1, !["recover"].status = head]
  BY <1>1, Zenon DEF Recovers
<1>4. InternalServerError \in Statuses \ {Nothing, EarlyHints}
  BY DEF Statuses, InternalServerError, Nothing, EarlyHints
<1>5. /\ sw \in Seq(S) /\ Len(sw) = depth /\ record \in [Layers -> R]
      /\ head \in Statuses \ {EarlyHints}
  BY DEF Inv, RequestInv, TypeOK
\* It answers only if nothing did, and every statusWriter outside hears it.
<1>6. /\ head' = IF quiet \/ head # Nothing THEN head ELSE InternalServerError
      /\ head' \in Statuses \ {EarlyHints}
  BY <1>3, <1>4, <1>5 DEF ServerHeader
<1>7. /\ sw' \in Seq(S) /\ Len(sw') = depth'
      /\ quiet => \A k \in 1..depth' : sw'[k] = sw[k]
      /\ ~quiet => \A k \in 1..depth' :
           /\ sw'[k].written
           /\ sw'[k].status = IF sw[k].written THEN sw[k].status ELSE InternalServerError
  <2>1. CASE quiet
    <3> HIDE DEF S, quiet
    <3> QED
      BY <1>1, <1>3, <1>5, <2>1, FrontOf, SMTT(30)
  <2>2. CASE ~quiet
    <3> DEFINE t == Recorded(InternalServerError)
    <3>1. /\ t \in Seq(S) /\ Len(t) = depth
          /\ \A k \in 1..depth : t[k].written /\
                t[k].status = IF sw[k].written THEN sw[k].status ELSE InternalServerError
      BY <1>4, RecordedWrites DEF Inv, RequestInv
    <3>2. sw' = Front(t)
      BY <1>3, <2>2
    <3> HIDE DEF S, quiet, t
    <3>3. Front(t) \in Seq(S) /\ Len(Front(t)) = depth - 1
          /\ \A k \in 1..depth - 1 : Front(t)[k] = t[k]
      BY <1>1, <3>1, FrontOf
    <3>4. sw' \in Seq(S) /\ Len(sw') = depth'
      BY <1>1, <3>2, <3>3
    <3>5. ASSUME NEW k \in 1..depth' PROVE k \in 1..depth /\ sw'[k] = t[k]
      <4>1. k \in 1..depth - 1 /\ k \in 1..depth
        BY <1>1
      <4> QED
        BY <3>2, <3>3, <4>1
    <3> QED
      BY <2>2, <3>1, <3>4, <3>5
  <2> QED
    BY <2>1, <2>2
<1>8. /\ record' \in [Layers -> R] /\ record'["recover"].made # 0
      /\ \A l \in Layers : l # "recover" => record'[l] = record[l]
  <2> HIDE DEF Lines
  <2>1. record["recover"] \in R
    BY <1>5 DEF Layers
  <2>2. record["recover"].made + 1 \in Nat \ {0}
    BY <2>1
  <2> QED
    BY <1>3, <1>5, <2>1, <2>2 DEF Layers
<1> HIDE DEF S, R, Lines
<1>9. \A j \in 1..Len(args) : args[j] # "recover" =>
          /\ record'[args[j]] = record[args[j]]
          /\ Left(j)' <=> Left(j)
          /\ Left(j) => depth < j
  BY <1>1, <1>2, <1>3, <1>8 DEF Left
<1>10. TypeOK'
  <2>1. L!TypeOK'
    BY DEF LogInv
  <2> QED
    BY <1>1, <1>3, <1>6, <1>7, <1>8, <2>1 DEF Inv, RequestInv, TypeOK, S, R, Lines
<1>11. first = "none" => ~quiet /\ head = Nothing /\ \A k \in 1..depth : ~sw[k].written
  BY <1>1, <1>3 DEF Inv, RequestInv, Agreed
<1>12. Agreed'
  <2>1. \A k \in 1..depth' : k \in 1..depth
    BY <1>1
  <2>2. CASE first = "none"
    <3>1. \A k \in 1..depth' : sw'[k].written /\ sw'[k].status = InternalServerError
      BY <1>7, <1>11, <2>1, <2>2
    <3>2. head' = InternalServerError /\ ~sent
      BY <1>6, <1>11, <2>2 DEF Inv, RequestInv, Agreed
    <3> QED
      BY <1>1, <1>3, <2>2, <3>1, <3>2 DEF Agreed
  <2>3. CASE first = "final" \/ first = "info"
    <3>1. quiet
      BY <1>1, <2>3 DEF Inv, RequestInv, Agreed
    <3> QED
      BY <1>1, <1>6, <1>7, <2>1, <2>3, <3>1 DEF Inv, RequestInv, Agreed
  <2>4. CASE first = "flush"
    BY <1>1, <1>6, <2>4 DEF Inv, RequestInv, Agreed
  <2> QED
    BY <2>2, <2>3, <2>4 DEF Inv, RequestInv, TypeOK
<1>13. Staged' /\ Received'
  BY <1>1, <1>3 DEF Inv, RequestInv, Staged, Received
<1>14. Made'
  <2>1. first = "none" => head' = InternalServerError
    BY <1>6, <1>11
  <2>2. \A j \in 1..Len(args) : args[j] # "recover" =>
            record'[args[j]].made = IF Left(j)' THEN 1 ELSE 0
    BY <1>9 DEF Inv, RequestInv, Made
  <2> QED
    BY <1>1, <2>1, <2>2 DEF Made
<1>15. Told'
  <2> SUFFICES ASSUME NEW j \in 1..Len(args), args[j] # "recover", Left(j), depth < j
               PROVE  LET s == record[args[j]].status IN
                      /\ first = "final" => s = head'
                      /\ first = "info" => s # Nothing
                      /\ first = "none" =>
                           s = head' \/ (s = Nothing /\ \E i \in 1..Len(args) :
                                                          i < j /\ args[i] = "recover")
    BY <1>1, <1>9 DEF Told
  <2> DEFINE s == record[args[j]].status
  <2>1. /\ first = "final" => s = head
        /\ first = "info" => s # Nothing
        /\ first = "none" => s = head \/ s = Nothing
    BY DEF Inv, RequestInv, Told
  <2>2. first = "final" => head' = head
    <3>1. first = "final" => head # Nothing
      BY DEF Inv, RequestInv, Agreed
    <3> QED
      BY <1>6, <3>1
  <2>3. first = "none" => s = Nothing
    BY <1>11, <2>1
  <2> QED
    BY <1>1, <1>3, <2>1, <2>2, <2>3
<1>16. Routed'
  <2>1. \A j : Instance(j)' = Instance(j)
    BY <1>1 DEF Instance, Stack
  <2> QED
    BY <1>1, <1>9, <2>1 DEF Inv, RequestInv, Routed
<1>17. Lined'
  <2>1. \A j : Instance(j)' = Instance(j)
    BY <1>1 DEF Instance, Stack
  <2>2. record'["log"] = record["log"]
    BY <1>8 DEF Layers
  <2> QED
    BY <1>1, <1>9, <2>1, <2>2 DEF Inv, RequestInv, Lined, L!TopLevel
<1> QED
  BY <1>10, <1>12, <1>13, <1>14, <1>15, <1>16, <1>17 DEF RequestInv

LEMMA PassesThroughStep ==
    ASSUME Inv, LogInv', PassesThrough
    PROVE  RequestInv'
<1> DEFINE S == [status : Statuses \ {Nothing}, written : BOOLEAN]
<1>1. /\ UNCHANGED <<args, stage, pattern, first, sent, received, extracts, logger, handlers>>
      /\ args \in Seq(Layers) /\ Len(args) \in Nat /\ stage = "leaving" /\ Begun /\ Begun'
      /\ depth \in 1..Len(args) /\ depth' = depth - 1 /\ Top = args[depth]
      /\ depth' \in 0..Len(args)
  BY LeaveStep, Zenon DEF PassesThrough
<1>2. \A j \in 1..Len(args) : Left(j)' <=> Left(j) \/ j = depth
  BY LeaveStep DEF PassesThrough
<1>3. /\ args[depth] = "recover" /\ sw' = Front(sw) /\ UNCHANGED <<head, panic, record>>
  BY <1>1 DEF PassesThrough
<1>4. /\ sw' \in Seq(S) /\ Len(sw') = depth'
      /\ \A k \in 1..depth' : k \in 1..depth /\ sw'[k] = sw[k]
  <2>1. sw \in Seq(S) /\ Len(sw) = depth
    BY DEF Inv, RequestInv, TypeOK
  <2> HIDE DEF S
  <2>2. /\ Front(sw) \in Seq(S) /\ Len(Front(sw)) = depth - 1
        /\ \A k \in 1..depth - 1 : Front(sw)[k] = sw[k]
    BY <1>1, <2>1, FrontOf
  <2>3. \A k \in 1..depth' : k \in 1..depth
    BY <1>1
  <2> QED
    BY <1>1, <1>3, <2>2, <2>3
<1>5. \A j \in 1..Len(args) : args[j] # "recover" => (Left(j)' <=> Left(j))
  BY <1>2, <1>3
<1>6. \A j : Instance(j)' = Instance(j)
  BY <1>1 DEF Instance, Stack
<1>7. TypeOK'
  <2>1. L!TypeOK'
    BY DEF LogInv
  <2> QED
    BY <1>1, <1>3, <1>4, <2>1 DEF Inv, RequestInv, TypeOK
<1>8. Agreed'
  <2>1. Agreed /\ UNCHANGED <<first, sent, head, panic>> /\ Begun /\ Begun'
    BY <1>1, <1>3 DEF Inv, RequestInv
  <2> QED
    BY <1>4, <2>1 DEF Agreed
<1>9. Staged' /\ Received' /\ Made' /\ Told' /\ Routed' /\ Lined'
  <2>1. Staged' /\ Received'
    BY <1>1, <1>3 DEF Inv, RequestInv, Staged, Received
  <2>2. Made' /\ Told'
    BY <1>1, <1>3, <1>5 DEF Inv, RequestInv, Made, Told
  <2>3. Routed' /\ Lined'
    BY <1>1, <1>3, <1>5, <1>6 DEF Inv, RequestInv, Routed, Lined, L!TopLevel
  <2> QED
    BY <2>1, <2>2, <2>3
<1> QED
  BY <1>7, <1>8, <1>9 DEF RequestInv

LEMMA ServerEndsStep ==
    ASSUME Inv, LogInv', ServerEnds
    PROVE  RequestInv'
<1>1. /\ UNCHANGED <<args, depth, pattern, first, sent, head, panic, sw, record,
                     extracts, logger, handlers>>
      /\ stage = "leaving" /\ stage' = "ended" /\ depth = 0
      /\ received' = IF panic = "none" THEN (IF head = Nothing THEN OK ELSE head)
                     ELSE IF sent THEN head ELSE Nothing
  BY Zenon DEF ServerEnds, choices, logging, response
<1>2. received' \in Statuses \ {EarlyHints}
  <2>1. head \in Statuses \ {EarlyHints}
    BY DEF Inv, RequestInv, TypeOK
  <2>2. OK \in Statuses \ {EarlyHints} /\ Nothing \in Statuses \ {EarlyHints}
    BY DEF Statuses, OK, EarlyHints, Nothing
  <2> QED
    BY <1>1, <2>1, <2>2
<1>3. TypeOK'
  <2>1. L!TypeOK'
    BY DEF LogInv
  <2> QED
    BY <1>1, <1>2, <2>1 DEF Inv, RequestInv, TypeOK
<1>4. Begun /\ Begun' /\ \A j : Left(j)' <=> Left(j)
  BY <1>1 DEF Begun, Left
<1>5. \A j : Instance(j)' = Instance(j)
  BY <1>1 DEF Instance, Stack
<1>6. Staged' /\ Received' /\ Agreed'
  BY <1>1, <1>4 DEF Inv, RequestInv, Staged, Received, Agreed
<1>7. Made' /\ Told'
  BY <1>1, <1>4 DEF Inv, RequestInv, Made, Told
<1>8. Routed' /\ Lined'
  BY <1>1, <1>4, <1>5 DEF Inv, RequestInv, Routed, Lined, L!TopLevel
<1> QED
  BY <1>3, <1>6, <1>7, <1>8 DEF RequestInv

LEMMA Step == Inv /\ [Next]_vars => Inv'
<1> SUFFICES ASSUME Inv, [Next]_vars PROVE Inv'
  OBVIOUS
<1>1. L!Next \/ UNCHANGED logging
  BY Zenon DEF Next, vars, DeriveLogger, Enter, Dispatch, Handler, WriteHeader, Write, Flush,
               Return, Panic, Inside, LeaveServer, LeaveAccessLog, Recovers, PassesThrough,
               Leave, ServerEnds, Over
<1>2. LogInv'
  BY <1>1, LogStep DEF Inv
<1>3. CASE DeriveLogger
  BY <1>2, <1>3, DeriveStep DEF Inv
<1>4. CASE Enter
  BY <1>2, <1>4, EnterStep DEF Inv
<1>5. ASSUME NEW matches \in BOOLEAN, Dispatch(matches) PROVE Inv'
  BY <1>2, <1>5, DispatchStep DEF Inv
<1>6. CASE Handler
  BY <1>2, <1>6, HandlerStep DEF Inv
<1>7. CASE LeaveServer
  <2>1. /\ Leave /\ Top = "span" /\ record' = [record EXCEPT !["span"] = Seen]
        /\ sw' = Front(sw) /\ UNCHANGED <<head, panic>>
    BY <1>7, Zenon DEF LeaveServer
  <2>2. Seen = [Seen EXCEPT !.line = <<>>]
    BY DEF Seen
  <2>3. <<>> \in Seq(L!Ops \cup {"ids", "record", "blank"})
    OBVIOUS
  <2> HIDE DEF Seen
  <2>4. record' = [record EXCEPT ![Top] = [Seen EXCEPT !.line = <<>>]]
    BY <2>1, <2>2
  <2> QED
    BY <1>2, <2>1, <2>3, <2>4, ObserverStep DEF Inv
<1>8. CASE LeaveAccessLog
  <2> DEFINE line == L!Handle(logger, Correlated(Instance(depth)))
  <2>1. /\ Leave /\ Top = "log" /\ record' = [record EXCEPT !["log"] = [Seen EXCEPT !.line = line]]
        /\ sw' = Front(sw) /\ UNCHANGED <<head, panic>>
    BY <1>8, Zenon DEF LeaveAccessLog
  <2>2. logger \in 1..Len(handlers) /\ Correlated(Instance(depth)) \in BOOLEAN
    BY DEF Inv, RequestInv, TypeOK, Correlated
  <2>3. line \in Seq(L!Ops \cup {"ids", "record", "blank"})
    BY <2>2, LineOf DEF Inv
  <2>4. extracts /\ Instance(depth) = "rebound" => L!TopLevel(line, "ids")
    BY <2>2, IdsAreTopLevel DEF Inv, Correlated
  <2> HIDE DEF line
  <2> QED
    BY <1>2, <2>1, <2>3, <2>4, ObserverStep DEF Inv
<1>9. CASE Recovers
  BY <1>2, <1>9, RecoversStep DEF Inv
<1>10. CASE PassesThrough
  BY <1>2, <1>10, PassesThroughStep DEF Inv
<1>11. CASE ServerEnds
  BY <1>2, <1>11, ServerEndsStep DEF Inv
<1>12. CASE UNCHANGED vars
  <2>1. UNCHANGED <<args, stage, depth, sw, pattern, panic, first, head, sent, received, record,
                   extracts, logger, handlers>>
    BY <1>12, Zenon DEF vars, choices, response, logging
  <2>2. \A j : Instance(j)' = Instance(j)
    BY <2>1 DEF Instance, Stack
  <2>3. TypeOK' /\ Staged' /\ Received' /\ Agreed'
    BY <1>2, <2>1 DEF LogInv, Inv, RequestInv, TypeOK, Staged, Received, Agreed, Begun
  <2>4. Made' /\ Told'
    BY <2>1 DEF Inv, RequestInv, Made, Told, Left, Begun
  <2>5. Routed' /\ Lined'
    BY <2>1, <2>2 DEF Inv, RequestInv, Routed, Lined, Left, Begun, L!TopLevel
  <2> QED
    BY <1>2, <2>3, <2>4, <2>5 DEF Inv, RequestInv
<1> QED
  BY <1>3, <1>4, <1>5, <1>6, <1>7, <1>8, <1>9, <1>10, <1>11, <1>12 DEF Next, Over

-----------------------------------------------------------------------------
(* The theorems.                                                           *)

LEMMA Always == Spec => []Inv
<1>1. Init => Inv
  BY RequestInit
<1> QED
  BY <1>1, Step, PTL DEF Spec

(* Every status, record and writer of the request has the form the code    *)
(* gives it; every slice of a logger lies in its array.                    *)
THEOREM ResponseTyping == Spec => []TypeOK
<1>1. Inv => TypeOK
  BY DEF Inv, RequestInv
<1> QED
  BY <1>1, Always, PTL

(* However goroutines derive loggers from one another, and whatever room   *)
(* append leaves in the arrays, a logger has the calls that led to it and  *)
(* no other (handler.go:58-60).                                            *)
THEOREM DerivedIsItsOwn == Spec => []DerivedKeepsCalls
<1>1. Inv => DerivedKeepsCalls
  <2> SUFFICES ASSUME LogInv PROVE L!DerivedKeepsCalls
    BY DEF Inv, DerivedKeepsCalls
  <2>1. extracts \in BOOLEAN
    BY Zenon DEF LogInv, L!TypeOK
  <2> DEFINE ids == IF extracts THEN <<"ids">> ELSE <<>>
  <2>2. ASSUME NEW i \in 1..Len(handlers)
        PROVE  L!Handle(i, TRUE) \in {ids \o calls[i] \o <<"record">>,
                                     calls[i] \o <<"record">> \o ids}
    <3>1. ids = IF extracts /\ TRUE THEN <<"ids">> ELSE <<>>
      BY <2>1
    <3> HIDE DEF ids
    <3> QED
      BY <3>1, LineOf
  <2> QED
    BY <2>2, Zenon DEF L!DerivedKeepsCalls
<1> QED
  BY <1>1, Always, PTL

(* The layers of a request that ended have left.                           *)
LEMMA AllLeft ==
    ASSUME Inv, stage = "ended"
    PROVE  /\ args \in Seq(Layers) /\ Len(args) \in Nat /\ depth = 0
           /\ \A j \in 1..Len(args) : Left(j)
           /\ \A i, j \in 1..Len(args) : args[i] = args[j] => i = j
           /\ DOMAIN args = 1..Len(args)
<1>1. args \in Seq(Layers) /\ IsInjective(args) /\ depth = 0
  BY DEF Inv, RequestInv, TypeOK, Staged
<1>2. Len(args) \in Nat /\ DOMAIN args = 1..Len(args)
  BY <1>1
<1>3. \A j \in 1..Len(args) : Left(j)
  BY <1>1, <1>2 DEF Left, Begun
<1> QED
  BY <1>1, <1>2, <1>3 DEF IsInjective

LEMMA ObserverIsPlaced ==
    ASSUME Inv, NEW l \in Observers
    PROVE  \E j \in 1..Len(args) : args[j] = l /\ args[j] # "recover"
<1>1. args \in Seq(Layers) /\ l \in {args[j] : j \in DOMAIN args} /\ l # "recover"
  BY DEF Observers, ToSet, Inv, RequestInv, TypeOK
<1> QED
  BY <1>1

(* In every order of the layers, and whatever the handler does after it    *)
(* began with a final status, or with nothing, the span and the line state *)
(* what the client received.                                               *)
THEOREM SpanAndLineAreTrue == Spec => []RecordedIsReceived
<1>1. Inv => RecordedIsReceived
  <2> SUFFICES ASSUME Inv, stage = "ended", NEW l \in Observers
               PROVE  /\ record[l].made = 1
                      /\ panic = "none" /\ first \in {"none", "final"} =>
                           \/ record[l].status = received
                           \/ /\ record[l].status = Nothing /\ first = "none"
                              /\ received = OK \/ Outside("recover", l)
                      /\ panic # "none" /\ first # "flush" /\ record[l].status = Nothing =>
                           received = Nothing
    BY DEF RecordedIsReceived
  <2>1. PICK j \in 1..Len(args) : args[j] = l /\ args[j] # "recover"
    BY ObserverIsPlaced
  <2>2. Left(j) /\ DOMAIN args = 1..Len(args)
    BY AllLeft
  <2>3. record[l].made = 1
    BY <2>1, <2>2 DEF Inv, RequestInv, Made
  <2> DEFINE s == record[l].status
  <2>4. /\ first = "final" => s = head
        /\ first = "info" => s # Nothing
        /\ first = "none" =>
             s = head \/ (s = Nothing /\ \E i \in 1..Len(args) : i < j /\ args[i] = "recover")
    BY <2>1, <2>2 DEF Inv, RequestInv, Told
  <2>5. /\ first = "final" => head # Nothing
        /\ first = "none" => ~sent
        /\ first \in {"none", "final", "info", "flush"}
        /\ received = IF panic = "none" THEN (IF head = Nothing THEN OK ELSE head)
                      ELSE IF sent THEN head ELSE Nothing
    BY DEF Inv, RequestInv, Agreed, Received, TypeOK
  <2>6. (\E i \in 1..Len(args) : i < j /\ args[i] = "recover") => Outside("recover", l)
    BY <2>1, <2>2 DEF Outside
  <2> HIDE DEF s
  <2>7. panic = "none" /\ first \in {"none", "final"} =>
          s = received \/ (s = Nothing /\ first = "none" /\ (received = OK \/ Outside("recover", l)))
    BY <2>4, <2>5, <2>6
  <2>8. panic # "none" /\ first # "flush" /\ s = Nothing => received = Nothing
    BY <2>4, <2>5
  <2> QED
    BY <2>3, <2>7, <2>8 DEF s
<1> QED
  BY <1>1, Always, PTL

(* A panic that Recover caught before anything was written is a 500 for    *)
(* the client and for every layer outside of it (recover.go:31-37).        *)
THEOREM CaughtPanicIs500 == Spec => []PanicIsAnswered
<1>1. Inv => PanicIsAnswered
  <2> SUFFICES ASSUME Inv, stage = "ended", record["recover"].made = 1, first = "none"
               PROVE  /\ received = InternalServerError
                      /\ \A l \in Observers :
                           Outside(l, "recover") => record[l].status = InternalServerError
    BY DEF PanicIsAnswered
  <2>1. head = InternalServerError
    BY DEF Inv, RequestInv, Made
  <2>2. panic = "none" /\ head # Nothing
    BY <2>1 DEF Inv, RequestInv, Agreed, InternalServerError, Nothing
  <2>3. received = InternalServerError
    BY <2>1, <2>2 DEF Inv, RequestInv, Received
  <2>4. ASSUME NEW l \in Observers, Outside(l, "recover")
        PROVE  record[l].status = InternalServerError
    <3>1. PICK i, r \in 1..Len(args) : i < r /\ args[i] = l /\ args[r] = "recover"
      BY <2>4, AllLeft DEF Outside
    <3>2. l # "recover" /\ Left(i)
      BY AllLeft DEF Observers
    <3>3. \A k \in 1..Len(args) : args[k] = "recover" => k = r
      BY <3>1, AllLeft
    <3>4. ~\E k \in 1..Len(args) : k < i /\ args[k] = "recover"
      BY <3>1, <3>3
    <3> QED
      BY <2>1, <3>1, <3>2, <3>4 DEF Inv, RequestInv, Told
  <2> QED
    BY <2>3, <2>4
<1> QED
  BY <1>1, Always, PTL

(* With telemetry.Server outside of AccessLog, whatever else is in the     *)
(* stack and whatever groups the logger has, the line has the matched      *)
(* route and the ids at its top level (server.go:86-96, handler.go:47-49). *)
THEOREM LineHasRouteAndIds == Spec => []LineIsCorrelated
<1>1. Inv => LineIsCorrelated
  <2> SUFFICES ASSUME Inv, stage = "ended", Outside("span", "log")
               PROVE  /\ record["log"].route = (pattern # "none")
                      /\ record["span"].route = record["log"].route
                      /\ extracts => L!TopLevel(record["log"].line, "ids")
    BY DEF LineIsCorrelated
  <2>1. PICK i, j \in 1..Len(args) : i < j /\ args[i] = "span" /\ args[j] = "log"
    BY AllLeft DEF Outside
  <2>2. Left(i) /\ Left(j) /\ Len(args) \in Nat
    BY AllLeft
  <2>3. \A k \in i..Len(args) : Instance(k) = "rebound"
    BY <2>1, <2>2 DEF Instance, Stack
  <2>4. Instance(i) = "rebound" /\ Instance(j) = "rebound" /\ Instance(Len(args)) = "rebound"
    BY <2>1, <2>2, <2>3
  <2>5. /\ record["span"].route = (pattern = "rebound")
        /\ record["log"].route = (pattern = "rebound")
        /\ pattern \in {"none", "rebound"}
    BY <2>1, <2>2, <2>4 DEF Inv, RequestInv, Routed
  <2>6. extracts => L!TopLevel(record["log"].line, "ids")
    BY <2>1, <2>2, <2>4 DEF Inv, RequestInv, Lined
  <2> QED
    BY <2>5, <2>6
<1> QED
  BY <1>1, Always, PTL
=============================================================================
