---------------------------- MODULE LogHandler -----------------------------
(***************************************************************************)
(* logging's slog.Handler.  With and WithGroup derive a handler from       *)
(* another; with extractors they are only recorded, so that Handle can put *)
(* the correlation attributes beneath them.  The records of a handler are  *)
(* a slice: a window on an array that handlers may share, and that append  *)
(* writes in place when there is room.  Nothing is locked: any goroutine   *)
(* may derive from, or log with, any handler.                              *)
(***************************************************************************)
EXTENDS Naturals, Sequences, SequencesExt

CONSTANTS
    Attrs,         \* the attributes given to With
    Groups,        \* the names given to WithGroup
    MaxHandlers,   \* bound: handlers there may be
    Spare          \* the room append may leave in an array it makes

Ops == Attrs \cup Groups

LogHandlerAssumption ==
    /\ Attrs \cap Groups = {} /\ {"ids", "record", "blank"} \cap Ops = {}
    /\ MaxHandlers \in Nat \ {0} /\ Spare \subseteq Nat /\ Spare # {}

VARIABLES
    extracts,      \* NewHandler was given extractors
    handlers,      \* the handlers there are: next, what the handler it wraps
                   \* had applied to it, and ops
    arrays,        \* the arrays behind the slices of ops
    calls          \* calls[i]: the calls that led to handlers[i]

vars == <<extracts, handlers, arrays, calls>>

Nil == [array |-> 0, len |-> 0, cap |-> 0]

TypeOK ==
    /\ extracts \in BOOLEAN
    /\ arrays \in Seq(Seq(Ops \cup {"blank"}))
    /\ calls \in Seq(Seq(Ops)) /\ Len(calls) = Len(handlers)
    /\ handlers \in Seq([next : Seq(Ops), ops : [array : Nat, len : Nat, cap : Nat]])
    /\ \A i \in 1..Len(handlers) :
         LET s == handlers[i].ops IN
         s = Nil \/ /\ s.array \in 1..Len(arrays)
                    /\ s.cap = Len(arrays[s.array])
                    /\ s.len \in 1..s.cap

(* NewHandler.                                                             *)
Init ==
    /\ extracts \in BOOLEAN
    /\ handlers = <<[next |-> <<>>, ops |-> Nil]>>
    /\ arrays = <<>> /\ calls = << <<>> >>

(* What a slice holds.                                                     *)
Window(s) == IF s = Nil THEN <<>> ELSE SubSeq(arrays[s.array], 1, s.len)

(* Mutant of Clip: nothing is clipped.                                     *)
Unclipped(s) == s

(* slices.Clip: the room beyond the slice is no longer its own.            *)
Clip(s) == [s EXCEPT !.cap = s.len]

(* append: in place when there is room, in a larger array when there is    *)
(* none.  The slices it may return, each with the arrays it leaves.        *)
Appended(s, o) ==
    IF s.len < s.cap
    THEN {[slice |-> [s EXCEPT !.len = @ + 1],
           arrays |-> [arrays EXCEPT ![s.array][s.len + 1] = o]]}
    ELSE {[slice |-> [array |-> Len(arrays) + 1, len |-> s.len + 1, cap |-> s.len + 1 + room],
           arrays |-> Append(arrays, Append(Window(s), o) \o [i \in 1..room |-> "blank"])] :
              room \in Spare}

(* WithAttrs and WithGroup, called on handlers[i].  With no extractor the  *)
(* call is made on next at once.  An empty call returns the receiver.      *)
Derive(i, o) ==
    /\ Len(handlers) < MaxHandlers
    /\ LET h == handlers[i] IN
       \/ /\ ~extracts
          /\ handlers' = Append(handlers, [h EXCEPT !.next = Append(@, o)])
          /\ UNCHANGED arrays
       \/ /\ extracts
          /\ \E r \in Appended(Clip(h.ops), o) :
               /\ handlers' = Append(handlers, [h EXCEPT !.ops = r.slice])
               /\ arrays' = r.arrays
    /\ calls' = Append(calls, Append(calls[i], o))
    /\ UNCHANGED extracts

Next == \E i \in 1..Len(handlers) : \E o \in Ops : Derive(i, o)

Spec == Init /\ [][Next]_vars

-----------------------------------------------------------------------------
(* Handle: what next is called with, outermost first; found says whether   *)
(* the context has something to extract.  Where nothing was recorded the   *)
(* attributes go on the record, and elsewhere beneath the recorded calls.  *)
Handle(i, found) ==
    LET h == handlers[i]
        ids == IF extracts /\ found THEN <<"ids">> ELSE <<>>
    IN  IF h.ops = Nil THEN h.next \o <<"record">> \o ids
                       ELSE h.next \o ids \o Window(h.ops) \o <<"record">>

(* An attribute is at the top level when no group was opened before it.    *)
TopLevel(line, x) ==
    \E n \in DOMAIN line : line[n] = x /\ \A k \in 1..n : line[k] \notin Groups

-----------------------------------------------------------------------------
(* Whatever is derived from a handler, or from its siblings, afterwards, a *)
(* line of it carries the attributes and groups it was built with, all of  *)
(* them and in that order; the ids are outside of them, or on the record   *)
(* (handler.go:58-60).                                                     *)
DerivedKeepsCalls ==
    LET ids == IF extracts THEN <<"ids">> ELSE <<>>
    IN  \A i \in 1..Len(handlers) :
           Handle(i, TRUE) \in {ids \o calls[i] \o <<"record">>,
                                calls[i] \o <<"record">> \o ids}
=============================================================================
