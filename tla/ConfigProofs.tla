---------------------------- MODULE ConfigProofs ----------------------------
(***************************************************************************)
(* Theorems about config.Load, for every set of struct types and .env      *)
(* files, and every environment.                                           *)
(***************************************************************************)
EXTENDS Config, TLAPS, SequenceTheorems, FiniteSetTheorems, WellFoundedInduction

-----------------------------------------------------------------------------
(* Types.                                                                  *)
Bare == [exported : BOOLEAN, env : {NoTag, Dash} \cup Keys, prefix : {NoTag} \cup Keys,
         ty : DOMAIN types \cup {"value"}, ptr : BOOLEAN, def : {NoTag, "good", "bad"},
         supported : BOOLEAN]

FileLine == [form : {"blank", "no =", "no key", "assign"}, key : Keys,
             val : {"good", "bad", "open"}]

(* What Load is given stays as it was.                                     *)
Program ==
    /\ IsFiniteSet(DOMAIN types) /\ Root \in DOMAIN types
    /\ \A t \in DOMAIN types : types[t] \in Seq(Bare)
    /\ file \in Seq(FileLine)

Indices == Seq(Nat \ {0})
Frame   == [ty : DOMAIN types, at : Nat \ {0}, prefix : Keys, index : Indices]
Binding == [index : Indices, env : Keys, def : {NoTag, "good", "bad"}, ptr : BOOLEAN]

(* The stack of the walk is never empty; it is the struct types on it that *)
(* differ from one another, and w.active has them in step.                 *)
Stacked ==
    /\ frames \in Seq(Frame) /\ frames # <<>>
    /\ \A d \in 1..Len(frames) : frames[d].at <= Len(types[frames[d].ty]) + 1
    /\ \A d, e \in 1..Len(frames) : frames[d].ty = frames[e].ty => d = e
    /\ active \in Seq(DOMAIN types) /\ Len(active) = Len(frames)
    /\ \A d \in 1..Len(frames) : active[d] = frames[d].ty

OnPath == {frames[d].ty : d \in DOMAIN frames}

LEMMA PathIsActive == Stacked => ToSet(active) = OnPath
<1> SUFFICES ASSUME Stacked PROVE ToSet(active) = OnPath
  OBVIOUS
<1>1. DOMAIN active = 1..Len(frames) /\ DOMAIN frames = 1..Len(frames)
  BY LenProperties DEF Stacked
<1> QED
  BY <1>1 DEF Stacked, OnPath, ToSet

LEMMA ProgramInit == Init => Program
<1> SUFFICES ASSUME Init PROVE Program
  OBVIOUS
<1>1. PICK p \in Programs : types = p.types /\ file = p.file
  BY DEF Init
<1> QED
  BY <1>1, ConfigAssumption DEF Program, Bare, FileLine

LEMMA ProgramStep == Program /\ [Next]_vars => Program' /\ UNCHANGED program
<1> SUFFICES ASSUME Program, [Next]_vars PROVE Program' /\ UNCHANGED program
  OBVIOUS
<1>1. UNCHANGED program
  BY DEF Next, vars, program, SkipLine, BadLine, Assign, LoadBegins, WalkSkips, WalkRejects,
         WalkEnters, WalkBinds, WalkReturns, WalkEnds, Resolve, DecodeSkips, DecodeMisses,
         Decode, DecodeEnds, Validate, Finished
<1> QED
  BY <1>1 DEF Program, program, Bare

LEMMA TopOfStack ==
    ASSUME Program, Stacked
    PROVE  /\ Len(frames) \in Nat \ {0} /\ Len(frames) \in 1..Len(frames)
           /\ Top = frames[Len(frames)] /\ Top \in Frame
           /\ types[Top.ty] \in Seq(Bare) /\ Len(types[Top.ty]) \in Nat
           /\ Top.at \in 1..Len(types[Top.ty]) + 1
           /\ Walking => Field \in Bare
<1>1. Len(frames) \in Nat \ {0}
  BY EmptySeq DEF Stacked
<1>2. Top = frames[Len(frames)] /\ Top \in Frame
  BY <1>1, ElementOfSeq DEF Stacked, Top, Last
<1>3. types[Top.ty] \in Seq(Bare) /\ Len(types[Top.ty]) \in Nat
  BY <1>2, LenProperties DEF Program, Frame
<1>4. Top.at \in 1..Len(types[Top.ty]) + 1
  BY <1>1, <1>2, <1>3 DEF Stacked, Frame
<1>5. ASSUME Walking PROVE Field \in Bare
  <2>1. Top.at \in 1..Len(types[Top.ty])
    BY <1>3, <1>4, <1>5 DEF Walking
  <2> QED
    BY <1>3, <2>1, ElementOfSeq DEF Field
<1> QED
  BY <1>1, <1>2, <1>3, <1>4, <1>5

(* The field is done: the next one of its struct.                          *)
LEMMA NextFieldKeeps ==
    ASSUME Program, Stacked, Walking
    PROVE  /\ NextField \in Seq(Frame) /\ Len(NextField) = Len(frames)
           /\ \A d \in 1..Len(frames) :
                /\ NextField[d].ty = frames[d].ty /\ NextField[d].prefix = frames[d].prefix
                /\ NextField[d].index = frames[d].index
                /\ d # Len(frames) => NextField[d] = frames[d]
           /\ NextField[Len(frames)].at = Top.at + 1
<1> DEFINE e == [frames[Len(frames)] EXCEPT !.at = @ + 1]
<1>1. /\ Len(frames) \in 1..Len(frames) /\ Top = frames[Len(frames)] /\ Top \in Frame
      /\ frames \in Seq(Frame)
  BY TopOfStack DEF Stacked
<1>2. e \in Frame /\ e.ty = Top.ty /\ e.prefix = Top.prefix /\ e.index = Top.index
      /\ e.at = Top.at + 1
  BY <1>1 DEF Frame
<1>3. NextField = [frames EXCEPT ![Len(frames)] = e]
  BY DEF NextField
<1> HIDE DEF e
<1>4. /\ NextField \in Seq(Frame) /\ Len(NextField) = Len(frames)
      /\ \A d \in 1..Len(frames) :
           NextField[d] = IF d = Len(frames) THEN e ELSE frames[d]
  BY <1>1, <1>2, <1>3, ExceptSeq
<1> QED
  BY <1>1, <1>2, <1>4

LEMMA StackedNextField ==
    ASSUME Program, Stacked, Walking, frames' = NextField,
           UNCHANGED <<types, active>>
    PROVE  Stacked'
<1>1. Frame' = Frame
  BY DEF Frame
<1>2. frames' \in Seq(Frame) /\ Len(frames') = Len(frames) /\ Len(frames) \in Nat \ {0}
  BY NextFieldKeeps, TopOfStack
<1>3. frames' # <<>>
  BY <1>2, EmptySeq
<1>4. ASSUME NEW d \in 1..Len(frames')
      PROVE  frames'[d].at <= Len(types[frames'[d].ty]) + 1
  <2>1. CASE d # Len(frames)
    BY <1>2, <2>1, NextFieldKeeps DEF Stacked
  <2>2. CASE d = Len(frames)
    <3>1. frames'[d].at = Top.at + 1 /\ frames'[d].ty = Top.ty
      BY <1>2, <2>2, NextFieldKeeps, TopOfStack
    <3>2. Top.at \in Nat /\ Len(types[Top.ty]) \in Nat /\ Top.at <= Len(types[Top.ty])
      BY TopOfStack DEF Walking
    <3> QED
      BY <3>1, <3>2
  <2> QED
    BY <2>1, <2>2
<1>5. \A d, e \in 1..Len(frames') : frames'[d].ty = frames'[e].ty => d = e
  BY <1>2, NextFieldKeeps DEF Stacked
<1>6. /\ active' \in Seq(DOMAIN types') /\ Len(active') = Len(frames')
      /\ \A d \in 1..Len(frames') : active'[d] = frames'[d].ty
  BY <1>2, NextFieldKeeps DEF Stacked
<1> QED
  BY <1>1, <1>2, <1>3, <1>4, <1>5, <1>6 DEF Stacked

(* The walk goes a level down: the type of the field is not on the stack.  *)
LEMMA WalkEntersKeeps ==
    ASSUME Program, Stacked, WalkEnters
    PROVE  /\ Len(frames') = Len(frames) + 1
           /\ \A d \in 1..Len(frames) : frames'[d] = NextField[d]
           /\ frames'[Len(frames) + 1] = [ty |-> Field.ty, at |-> 1,
                        prefix |-> Top.prefix \o Field.prefix, index |-> Index]
           /\ frames' \in Seq(Frame)
           /\ Field.ty \notin OnPath /\ Field.ty \in DOMAIN types
           /\ Index \in Indices /\ Field.prefix \in Keys /\ Field.env = NoTag
<1> DEFINE f == [ty |-> Field.ty, at |-> 1,
                 prefix |-> Top.prefix \o Field.prefix, index |-> Index]
<1>1. /\ Walking /\ Nested(Field) /\ ~Faulty
      /\ frames' = Append(NextField, f)
  BY DEF WalkEnters
<1>2. Top \in Frame /\ Field \in Bare
  BY <1>1, TopOfStack
<1>3. /\ Field.ty \notin OnPath /\ Field.ty \in DOMAIN types
      /\ Field.prefix \in Keys /\ Field.env = NoTag
  BY <1>1, <1>2, PathIsActive DEF Faulty, Nested, Bare
<1>4. Index \in Indices
  BY <1>2, AppendProperties DEF Index, Frame, Indices
<1>5. Top.prefix \o Field.prefix \in Keys
  BY <1>2, <1>3, ConcatProperties DEF Keys, Frame
<1>6. f \in Frame
  BY <1>3, <1>4, <1>5 DEF Frame
<1> HIDE DEF f
<1>7. /\ Append(NextField, f) \in Seq(Frame) /\ Len(Append(NextField, f)) = Len(frames) + 1
      /\ \A d \in 1..Len(frames) : Append(NextField, f)[d] = NextField[d]
      /\ Append(NextField, f)[Len(frames) + 1] = f
  BY <1>1, <1>6, NextFieldKeeps, AppendProperties
<1> QED
  BY <1>1, <1>3, <1>4, <1>7 DEF f

LEMMA StackedEnters ==
    ASSUME Program, Stacked, WalkEnters
    PROVE  Stacked'
<1>0. UNCHANGED types /\ Walking
  BY DEF WalkEnters, program
<1> DEFINE k == Len(frames) + 1
<1>1. Frame' = Frame
  BY <1>0 DEF Frame
<1>2. frames' \in Seq(Frame) /\ Len(frames') = k /\ Len(frames) \in Nat \ {0}
  BY WalkEntersKeeps, TopOfStack
<1>3. frames' # <<>>
  BY <1>2, EmptySeq
<1>4. \A d \in 1..Len(frames) :
        frames'[d].ty = frames[d].ty /\ frames'[d].at <= Len(types[frames[d].ty]) + 1
  <2> SUFFICES ASSUME NEW d \in 1..Len(frames)
               PROVE  frames'[d].ty = frames[d].ty /\ frames'[d].at <= Len(types[frames[d].ty]) + 1
    OBVIOUS
  <2>1. frames'[d].ty = frames[d].ty
    BY <1>0, WalkEntersKeeps, NextFieldKeeps
  <2>2. CASE d # Len(frames)
    BY <1>0, <2>1, <2>2, WalkEntersKeeps, NextFieldKeeps DEF Stacked
  <2>3. CASE d = Len(frames)
    <3>1. frames'[d].at = Top.at + 1 /\ Top = frames[d]
      BY <1>0, <2>3, WalkEntersKeeps, NextFieldKeeps, TopOfStack
    <3>2. Top.at \in Nat /\ Len(types[Top.ty]) \in Nat /\ Top.at <= Len(types[Top.ty])
      BY <1>0, TopOfStack DEF Walking
    <3> QED
      BY <2>1, <3>1, <3>2
  <2> QED
    BY <2>1, <2>2, <2>3
<1>5. /\ frames'[k].ty = Field.ty /\ frames'[k].at = 1
      /\ Field.ty \in DOMAIN types /\ Field.ty \notin OnPath
  BY WalkEntersKeeps
<1>6. Len(types[Field.ty]) \in Nat
  BY <1>5, LenProperties DEF Program
<1>7. \A d \in 1..Len(frames) : frames[d].ty # Field.ty
  BY <1>5, LenProperties DEF OnPath, Stacked
<1>8. \A d \in 1..Len(frames') : d = k \/ d \in 1..Len(frames)
  BY <1>2
<1>9. ASSUME NEW d \in 1..Len(frames')
      PROVE  frames'[d].at <= Len(types[frames'[d].ty]) + 1
  <2>1. CASE d = k
    BY <1>5, <1>6, <2>1
  <2>2. CASE d \in 1..Len(frames)
    BY <1>4, <2>2
  <2> QED
    BY <1>8, <2>1, <2>2
<1>10. \A d, e \in 1..Len(frames') : frames'[d].ty = frames'[e].ty => d = e
  BY <1>4, <1>5, <1>7, <1>8 DEF Stacked
<1>11. /\ active' \in Seq(DOMAIN types') /\ Len(active') = k
       /\ \A d \in 1..k : active'[d] = frames'[d].ty
  <2>1. active' = Append(active, Field.ty) /\ active \in Seq(DOMAIN types) /\ Len(active) = Len(frames)
    BY DEF WalkEnters, Stacked
  <2>2. /\ active' \in Seq(DOMAIN types) /\ Len(active') = k /\ active'[k] = Field.ty
        /\ \A d \in 1..Len(frames) : active'[d] = active[d]
    BY <1>5, <2>1, AppendProperties
  <2>3. \A d \in 1..Len(frames) : active'[d] = frames'[d].ty
    BY <1>4, <2>2 DEF Stacked
  <2> QED
    BY <1>0, <1>2, <1>5, <1>8, <2>2, <2>3
<1> QED
  BY <1>0, <1>1, <1>2, <1>3, <1>9, <1>10, <1>11 DEF Stacked

LEMMA WalkReturnsKeeps ==
    ASSUME Program, Stacked, WalkReturns
    PROVE  /\ frames' \in Seq(Frame) /\ Len(frames') = Len(frames) - 1
           /\ \A d \in 1..Len(frames) - 1 : frames'[d] = frames[d]
           /\ Len(frames) - 1 \in Nat \ {0}
<1>1. /\ frames' = SubSeq(frames, 1, Len(frames) - 1) /\ Len(frames) > 1
      /\ Len(frames) \in Nat /\ frames \in Seq(Frame)
  BY TopOfStack DEF WalkReturns, Front, Stacked
<1>2. \A d \in 1..Len(frames) - 1 : frames[d] \in Frame
  BY <1>1, ElementOfSeq
<1> QED
  BY <1>1, <1>2, SubSeqProperties

LEMMA StackedReturns ==
    ASSUME Program, Stacked, WalkReturns
    PROVE  Stacked'
<1>0. UNCHANGED types
  BY DEF WalkReturns, program
<1>1. Frame' = Frame
  BY <1>0 DEF Frame
<1>2. /\ frames' \in Seq(Frame) /\ Len(frames') = Len(frames) - 1
      /\ Len(frames) - 1 \in Nat \ {0}
      /\ \A d \in 1..Len(frames') : d \in 1..Len(frames) /\ frames'[d] = frames[d]
  BY WalkReturnsKeeps
<1>3. frames' # <<>>
  BY <1>2, EmptySeq
<1>4. /\ active' \in Seq(DOMAIN types) /\ Len(active') = Len(frames')
      /\ \A d \in 1..Len(frames') : active'[d] = active[d]
  <2>1. /\ active' = SubSeq(active, 1, Len(active) - 1) /\ active \in Seq(DOMAIN types)
        /\ Len(active) = Len(frames)
    BY DEF WalkReturns, Front, Stacked
  <2>2. \A d \in 1..Len(active) - 1 : active[d] \in DOMAIN types
    BY <1>2, <2>1, ElementOfSeq
  <2> QED
    BY <1>2, <2>1, <2>2, SubSeqProperties
<1> QED
  BY <1>0, <1>1, <1>2, <1>3, <1>4 DEF Stacked

LEMMA StackedInit == Init => Stacked
<1> SUFFICES ASSUME Init PROVE Stacked
  OBVIOUS
<1> DEFINE f == [ty |-> Root, at |-> 1, prefix |-> Prefix, index |-> <<>>]
<1>1. frames = <<f>> /\ Root \in DOMAIN types /\ types[Root] \in Seq(Bare)
  BY ProgramInit DEF Init, Program
<1>2. f \in Frame
  <2>1. Prefix \in Keys
    BY ConfigAssumption
  <2>2. <<>> \in Indices
    BY EmptySeq DEF Indices
  <2> QED
    BY <1>1, <2>1, <2>2 DEF Frame
<1>3. Len(types[Root]) \in Nat
  BY <1>1, LenProperties
<1>4. f.ty = Root /\ f.at = 1
  OBVIOUS
<1> HIDE DEF f
<1>5. frames \in Seq(Frame) /\ Len(frames) = 1 /\ frames[1] = f
  <2>1. <<f>> \in Seq(Frame) /\ Len(<<f>>) = 1 /\ <<f>>[1] = f
    BY <1>2
  <2>2. frames = <<f>>
    BY <1>1 DEF f
  <2> QED
    BY <2>1, <2>2
<1>6. frames # <<>>
  <2>1. Len(frames) = 1
    BY <1>5
  <2> QED
    BY <2>1
<1>8. \A d \in 1..Len(frames) : d = 1
  BY <1>5
<1>7. frames[1].at <= Len(types[frames[1].ty]) + 1
  BY <1>3, <1>4, <1>5
<1>9. active = <<Root>> /\ active \in Seq(DOMAIN types) /\ Len(active) = 1 /\ active[1] = Root
  <2>1. active = <<Root>>
    BY DEF Init
  <2>2. \A r \in DOMAIN types : <<r>> \in Seq(DOMAIN types) /\ Len(<<r>>) = 1 /\ <<r>>[1] = r
    OBVIOUS
  <2> QED
    BY <1>1, <2>1, <2>2
<1> QED
  BY <1>4, <1>5, <1>6, <1>7, <1>8, <1>9 DEF Stacked

LEMMA StackedStep == Program /\ Stacked /\ [Next]_vars => Stacked'
<1> SUFFICES ASSUME Program, Stacked, [Next]_vars PROVE Stacked'
  OBVIOUS
<1>1. UNCHANGED types
  BY ProgramStep DEF program
<1>2. CASE WalkSkips \/ WalkRejects \/ WalkBinds
  BY <1>1, <1>2, StackedNextField DEF WalkSkips, WalkRejects, WalkBinds
<1>3. CASE WalkEnters
  BY <1>3, StackedEnters
<1>4. CASE WalkReturns
  BY <1>4, StackedReturns
<1>5. CASE UNCHANGED <<frames, active>>
  BY <1>1, <1>5 DEF Stacked, Frame
<1>6. ASSUME SkipLine \/ BadLine \/ Assign \/ LoadBegins \/ WalkEnds \/ Resolve \/ DecodeSkips
             \/ DecodeMisses \/ Decode \/ DecodeEnds \/ Validate \/ Finished \/ UNCHANGED vars
      PROVE  UNCHANGED <<frames, active>>
  BY <1>6 DEF SkipLine, BadLine, Assign, LoadBegins, WalkEnds, Resolve, DecodeSkips,
              DecodeMisses, Decode, DecodeEnds, Validate, Finished, vars, plan
<1> QED
  BY <1>2, <1>3, <1>4, <1>5, <1>6 DEF Next

LEMMA WalkInvariant == Spec => [](Program /\ Stacked)
<1>1. Init => Program /\ Stacked
  BY ProgramInit, StackedInit
<1>2. Program /\ Stacked /\ [Next]_vars => (Program /\ Stacked)'
  BY ProgramStep, StackedStep
<1> QED
  BY <1>1, <1>2, PTL DEF Spec

-----------------------------------------------------------------------------
(* The type invariant.                                                     *)
Good == {"good", "bad"}
Raw  == {"os", "dot", "default"} \X Good
Violation == {"schema", "required", "decode", "validate"} \X Indices

SourceTyped == line \in 1..Len(file) + 1 /\ \A key \in DOMAIN dot : dot[key] \in Good
PlanTyped   == bindings \in Seq(Binding) /\ blocks \in Seq(Indices)
LookupTyped ==
    /\ \A key \in DOMAIN os : os[key] \in Good
    /\ \A b \in DOMAIN res : res[b] \in Raw \cup {Unset}
    /\ skip \subseteq DOMAIN bindings /\ i \in 1..Len(bindings) + 1
    /\ pc \in {"dotenv", "walk", "resolve"} => res = <<>> /\ skip = {} /\ i = 1
    /\ pc \in {"decode", "validate"} => DOMAIN res = DOMAIN bindings
StructTyped ==
    /\ DOMAIN value \subseteq Indices /\ \A index \in DOMAIN value : value[index] \in Raw
    /\ made \subseteq ToSet(blocks)
    /\ violations \subseteq Violation
    /\ pc \in {"dotenv", "walk", "resolve", "decode", "validate", "done"}
    /\ outcome \in {"none", "no source", "error", "loaded"}

Typed == SourceTyped /\ PlanTyped /\ LookupTyped /\ StructTyped

LEMMA ViolationsAre ==
    \A kind \in {"schema", "required", "decode", "validate"}, index \in Indices :
        <<kind, index>> \in Violation
  BY DEF Violation

LEMMA InSequence == \A S : \A s \in Seq(S) : ToSet(s) \subseteq S
  BY ElementOfSeq, LenProperties DEF ToSet

LEMMA TypedIsTypeOK == Program /\ Stacked /\ Typed => TypeOK
<1> SUFFICES ASSUME Program, Stacked, Typed PROVE TypeOK
  OBVIOUS
<1>1. \A d \in DOMAIN frames :
        /\ frames[d].ty \in DOMAIN types
        /\ frames[d].at \in 1..Len(types[frames[d].ty]) + 1 /\ frames[d].index \in Indices
  <2> SUFFICES ASSUME NEW d \in 1..Len(frames)
               PROVE  /\ frames[d].ty \in DOMAIN types
                      /\ frames[d].at \in 1..Len(types[frames[d].ty]) + 1
                      /\ frames[d].index \in Indices
    BY LenProperties DEF Stacked
  <2>1. frames[d] \in Frame
    BY ElementOfSeq DEF Stacked
  <2>2. Len(types[frames[d].ty]) \in Nat
    BY <2>1, LenProperties DEF Program, Frame
  <2>3. frames[d].ty \in DOMAIN types /\ frames[d].at \in Nat \ {0} /\ frames[d].index \in Indices
    BY <2>1 DEF Frame
  <2>4. frames[d].at <= Len(types[frames[d].ty]) + 1
    BY DEF Stacked
  <2> QED
    BY <2>2, <2>3, <2>4
<1>2. ToSet(bindings) \subseteq Binding /\ ToSet(blocks) \subseteq Indices
  BY InSequence DEF Typed, PlanTyped
<1>3. \A b \in ToSet(bindings) : b.index \in Indices
  BY <1>2 DEF Binding
<1>4. \A r \in ToSet(res) : r = Unset \/ r \in Raw
  BY DEF Typed, LookupTyped, ToSet
<1>5. ToSet(active) \subseteq DOMAIN types
  BY InSequence DEF Stacked
<1> QED
  BY <1>1, <1>2, <1>3, <1>4, <1>5
     DEF TypeOK, Typed, SourceTyped, LookupTyped, StructTyped, Indices, Raw, Good, Violation

LEMMA SourceTypedStep ==
    Program /\ SourceTyped /\ [Next]_vars => SourceTyped'
<1> SUFFICES ASSUME Program, SourceTyped, [Next]_vars PROVE SourceTyped'
  OBVIOUS
<1>1. UNCHANGED file /\ Len(file) \in Nat
  BY ProgramStep, LenProperties DEF program, Program
<1>2. ASSUME SkipLine PROVE SourceTyped'
  BY <1>1, <1>2 DEF SkipLine, SourceTyped
<1>3. ASSUME Assign PROVE SourceTyped'
  <2>1. line \in 1..Len(file) /\ line' = line + 1
    BY <1>1, <1>3 DEF Assign, SourceTyped
  <2>2. file[line].val \in Good
    <3>1. file[line] \in FileLine
      BY <2>1, ElementOfSeq DEF Program
    <3> QED
      BY <1>3, <3>1 DEF Assign, Good, FileLine
  <2>3. dot' = Put(dot, file[line].key, file[line].val)
    BY <1>3 DEF Assign
  <2>4. \A key \in DOMAIN dot' : dot'[key] \in Good
    BY <2>2, <2>3 DEF Put, SourceTyped
  <2> QED
    BY <1>1, <2>1, <2>4 DEF SourceTyped
<1>4. ASSUME ~SkipLine, ~Assign PROVE UNCHANGED source
  BY <1>4 DEF Next, vars, source, BadLine, LoadBegins, WalkSkips, WalkRejects,
         WalkEnters, WalkBinds, WalkReturns, WalkEnds, Resolve, DecodeSkips, DecodeMisses,
         Decode, DecodeEnds, Validate, Finished
<1>5. UNCHANGED source => SourceTyped'
  BY <1>1 DEF SourceTyped, source
<1> QED
  BY <1>2, <1>3, <1>4, <1>5

LEMMA PlanTypedStep ==
    Program /\ Stacked /\ PlanTyped /\ [Next]_vars =>
        /\ PlanTyped' /\ Len(bindings) \in Nat
        /\ Len(bindings') >= Len(bindings) /\ Len(bindings') \in Nat
        /\ ToSet(blocks) \subseteq ToSet(blocks')
        /\ (Walking \/ UNCHANGED <<bindings, blocks>>)
<1> SUFFICES ASSUME Program, Stacked, PlanTyped, [Next]_vars
             PROVE  /\ PlanTyped' /\ Len(bindings') >= Len(bindings)
                    /\ ToSet(blocks) \subseteq ToSet(blocks')
                    /\ (Walking \/ UNCHANGED <<bindings, blocks>>)
  BY LenProperties DEF PlanTyped
<1>1. Len(bindings) \in Nat
  BY LenProperties DEF PlanTyped
<1>2. ASSUME WalkEnters
      PROVE  blocks' \in Seq(Indices) /\ ToSet(blocks) \subseteq ToSet(blocks')
  <2>1. Index \in Indices /\ (blocks' = Append(blocks, Index) \/ blocks' = blocks)
    BY <1>2, WalkEntersKeeps DEF WalkEnters
  <2>2. blocks' \in Seq(Indices)
    BY <2>1, AppendProperties DEF PlanTyped
  <2>3. DOMAIN blocks \subseteq DOMAIN blocks' /\ \A b \in DOMAIN blocks : blocks'[b] = blocks[b]
    BY <2>1, AppendProperties, LenProperties DEF PlanTyped
  <2> QED
    BY <2>2, <2>3 DEF ToSet
<1>3. ASSUME WalkBinds
      PROVE  bindings' \in Seq(Binding) /\ Len(bindings') >= Len(bindings)
  <2> DEFINE b == [index |-> Index, env |-> Key, def |-> Field.def, ptr |-> Field.ptr]
  <2>1. Walking /\ ~Unexported /\ ~Faulty /\ ~Nested(Field) /\ bindings' = Append(bindings, b)
    BY <1>3 DEF WalkBinds
  <2>2. Top \in Frame /\ Field \in Bare
    BY <2>1, TopOfStack
  <2>3. Index \in Indices
    BY <2>2, AppendProperties DEF Index, Frame, Indices
  <2>4. Field.env \in Keys
    BY <2>1, <2>2 DEF Faulty, HasKey, Unexported, Bare
  <2>5. Key \in Keys
    BY <2>2, <2>4, ConcatProperties DEF Key, Keys, Frame
  <2>6. b \in Binding
    BY <2>2, <2>3, <2>5 DEF Binding, Bare
  <2> HIDE DEF b
  <2> QED
    BY <1>1, <2>1, <2>6, AppendProperties DEF PlanTyped
<1>4. ASSUME WalkEnters PROVE UNCHANGED bindings /\ Walking
  BY <1>4 DEF WalkEnters
<1>5. ASSUME WalkBinds PROVE UNCHANGED blocks /\ Walking
  BY <1>5 DEF WalkBinds
<1>6. ASSUME ~WalkEnters, ~WalkBinds PROVE UNCHANGED <<bindings, blocks>>
  BY <1>6 DEF Next, vars, plan, SkipLine, BadLine, Assign, LoadBegins, WalkSkips, WalkRejects,
         WalkReturns, WalkEnds, Resolve, DecodeSkips, DecodeMisses,
         Decode, DecodeEnds, Validate, Finished
<1>7. Binding' = Binding /\ Indices' = Indices
  BY DEF Binding, Indices
<1> QED
  BY <1>1, <1>2, <1>3, <1>4, <1>5, <1>6, <1>7 DEF PlanTyped

LEMMA LookupTypedStep ==
    Program /\ Stacked /\ Typed /\ [Next]_vars => LookupTyped'
<1> SUFFICES ASSUME Program, Stacked, Typed, [Next]_vars PROVE LookupTyped'
  OBVIOUS
<1> USE DEF Typed
<1>1. /\ Len(bindings') >= Len(bindings) /\ Len(bindings) \in Nat /\ Len(bindings') \in Nat
      /\ DOMAIN bindings = 1..Len(bindings) /\ DOMAIN bindings' = 1..Len(bindings')
      /\ DOMAIN bindings \subseteq DOMAIN bindings'
  BY PlanTypedStep, LenProperties DEF PlanTyped
<1>2. ASSUME Resolve PROVE LookupTyped'
  <2>1. /\ DOMAIN res' = DOMAIN bindings /\ skip' \subseteq DOMAIN bindings
        /\ UNCHANGED bindings /\ i' = i /\ pc' = "decode"
    BY <1>2 DEF Resolve, plan
  <2>2. \A key \in DOMAIN os' : os'[key] \in Good
    BY <1>2 DEF Resolve, Good
  <2>3. ASSUME NEW b \in DOMAIN res' PROVE res'[b] \in Raw \cup {Unset}
    <3>1. res'[b] = Layer(os', bindings[b].env)
      BY <1>2, <2>3 DEF Resolve
    <3> QED
      BY <2>2, <3>1 DEF Layer, SourceTyped, Raw
  <2> QED
    BY <1>1, <2>1, <2>2, <2>3 DEF LookupTyped
<1>3. ASSUME DecodeSkips \/ DecodeMisses \/ Decode PROVE LookupTyped'
  <2>1. /\ i' = i + 1 /\ UNCHANGED <<os, res, skip, bindings, pc>>
        /\ pc = "decode" /\ i <= Len(bindings)
    BY <1>3 DEF DecodeSkips, DecodeMisses, Decode, Decoding, lookup, plan
  <2> QED
    BY <1>1, <2>1 DEF LookupTyped, Raw, Good
<1>4. ASSUME ~Resolve, ~DecodeSkips, ~DecodeMisses, ~Decode
      PROVE  UNCHANGED <<os, res, skip, i>>
  BY <1>4 DEF Next, vars, lookup, SkipLine, BadLine, Assign, LoadBegins, WalkSkips, WalkRejects,
         WalkEnters, WalkBinds, WalkReturns, WalkEnds, DecodeEnds, Validate, Finished
<1>5. ASSUME ~Resolve, ~DecodeSkips, ~DecodeMisses, ~Decode
      PROVE  /\ pc' \in {"dotenv", "walk", "resolve"} => pc \in {"dotenv", "walk", "resolve"}
             /\ pc' \in {"decode", "validate"} =>
                  pc \in {"decode", "validate"} /\ UNCHANGED bindings
  BY <1>5 DEF Next, vars, plan, SkipLine, BadLine, Assign, LoadBegins, WalkSkips, WalkRejects,
         WalkEnters, WalkBinds, WalkReturns, WalkEnds, DecodeEnds, Validate, Finished, Walking
<1>6. ASSUME ~Resolve, ~DecodeSkips, ~DecodeMisses, ~Decode
      PROVE  LookupTyped'
  BY <1>1, <1>4, <1>5, <1>6 DEF LookupTyped, Raw, Good
<1> QED
  BY <1>2, <1>3, <1>6

LEMMA StructTypedStep ==
    Program /\ Stacked /\ Typed /\ [Next]_vars => StructTyped'
<1> SUFFICES ASSUME Program, Stacked, Typed, [Next]_vars PROVE StructTyped'
  OBVIOUS
<1> USE DEF Typed
<1>0. ToSet(blocks) \subseteq ToSet(blocks')
  BY PlanTypedStep
<1>1. ASSUME Decoding PROVE bindings[i] \in Binding /\ i \in DOMAIN bindings /\ i \in DOMAIN res
  <2>1. i \in 1..Len(bindings) /\ DOMAIN bindings = 1..Len(bindings)
    BY <1>1, LenProperties DEF Decoding, LookupTyped, PlanTyped
  <2> QED
    BY <1>1, <2>1, ElementOfSeq DEF LookupTyped, PlanTyped, Decoding
<1>2. ASSUME WalkRejects PROVE StructTyped'
  <2>1. Top \in Frame
    BY <1>2, TopOfStack DEF WalkRejects
  <2>2. Index \in Indices
    BY <2>1, AppendProperties DEF Index, Frame, Indices
  <2>3. violations' \subseteq Violation
    BY <1>2, <2>2, ViolationsAre DEF WalkRejects, StructTyped
  <2>4. UNCHANGED <<value, made, blocks, pc, outcome>>
    BY <1>2 DEF WalkRejects, struct
  <2> QED
    BY <2>3, <2>4 DEF StructTyped, Raw, Good, Indices, Violation
<1>3. ASSUME DecodeMisses PROVE StructTyped'
  <2>1. bindings[i].index \in Indices
    BY <1>1, <1>3 DEF DecodeMisses, Binding
  <2>2. violations' \subseteq Violation
    BY <1>3, <2>1, ViolationsAre DEF DecodeMisses, StructTyped
  <2>3. UNCHANGED <<value, made, blocks, pc, outcome>>
    BY <1>3 DEF DecodeMisses, struct, plan
  <2> QED
    BY <2>2, <2>3 DEF StructTyped, Raw, Good, Indices, Violation
<1>4. ASSUME Decode PROVE StructTyped'
  <2> DEFINE b == bindings[i]
             raw == IF res[i] # Unset THEN res[i] ELSE <<"default", b.def>>
  <2>1. /\ Decoding /\ b.index \in Indices /\ b.def \in {NoTag, "good", "bad"}
        /\ res[i] \in Raw \cup {Unset} /\ (res[i] # Unset \/ b.def # NoTag)
    BY <1>1, <1>4 DEF Decode, Binding, LookupTyped
  <2>2. raw \in Raw
    BY <2>1 DEF Raw, Good
  <2>3. /\ made' = made \cup {block \in ToSet(blocks) : UnderBlock(b.index, block)}
        /\ \/ value' = Put(value, b.index, raw) /\ UNCHANGED violations
           \/ violations' = violations \cup {<<"decode", b.index>>} /\ UNCHANGED value
        /\ UNCHANGED <<pc, outcome, blocks>>
    BY <1>4 DEF Decode, plan
  <2> HIDE DEF raw
  <2>4. DOMAIN value' \subseteq Indices /\ \A index \in DOMAIN value' : value'[index] \in Raw
    BY <2>1, <2>2, <2>3 DEF Put, StructTyped
  <2>5. made' \subseteq ToSet(blocks)
    BY <2>3 DEF StructTyped
  <2>6. violations' \subseteq Violation
    <3>1. <<"decode", b.index>> \in Violation
      BY <2>1, ViolationsAre
    <3> QED
      BY <2>3, <3>1 DEF StructTyped
  <2> QED
    BY <2>3, <2>4, <2>5, <2>6 DEF StructTyped, Raw, Good, Indices, Violation
<1>5. ASSUME Validate PROVE StructTyped'
  <2>1. <<>> \in Indices
    BY EmptySeq DEF Indices
  <2>2. <<"validate", <<>>>> \in Violation
    BY <2>1, ViolationsAre
  <2>3. violations' = violations \/ violations' = {<<"validate", <<>>>>}
    BY <1>5 DEF Validate
  <2>4. violations' \subseteq Violation
    BY <2>2, <2>3 DEF StructTyped
  <2> QED
    BY <1>0, <1>5, <2>4 DEF Validate, StructTyped, struct, Raw, Good, Indices, Violation
<1>6. ASSUME ~WalkRejects, ~DecodeMisses, ~Decode, ~Validate
      PROVE  /\ UNCHANGED <<value, made, violations>>
             /\ (pc' = pc \/ pc' \in {"walk", "resolve", "decode", "validate", "done"})
             /\ (outcome' = outcome \/ outcome' \in {"no source", "error"})
  BY <1>6 DEF Next, vars, struct, SkipLine, BadLine, Assign, LoadBegins, WalkSkips,
         WalkEnters, WalkBinds, WalkReturns, WalkEnds, Resolve, DecodeSkips, DecodeEnds, Finished
<1>7. ASSUME ~WalkRejects, ~DecodeMisses, ~Decode, ~Validate PROVE StructTyped'
  BY <1>0, <1>6, <1>7 DEF StructTyped, Raw, Good, Indices, Violation
<1> QED
  BY <1>2, <1>3, <1>4, <1>5, <1>7

LEMMA TypedInit == Init => Typed
<1> SUFFICES ASSUME Init PROVE Typed
  OBVIOUS
<1>1. Len(file) \in Nat
  BY ProgramInit, LenProperties DEF Program
<1>2. <<>> \in Seq(Binding) /\ <<>> \in Seq(Indices) /\ Len(<<>>) = 0 /\ DOMAIN <<>> = {}
  BY EmptySeq
<1>3. SourceTyped
  BY <1>1, <1>2 DEF Init, SourceTyped
<1>4. PlanTyped
  BY <1>2 DEF Init, PlanTyped
<1>5. LookupTyped
  BY <1>2 DEF Init, LookupTyped
<1>6. StructTyped
  BY <1>2 DEF Init, StructTyped
<1> QED
  BY <1>3, <1>4, <1>5, <1>6 DEF Typed

LEMMA TypedInvariant == Spec => [](Program /\ Stacked /\ Typed)
<1>1. Init => Program /\ Stacked /\ Typed
  BY ProgramInit, StackedInit, TypedInit
<1>2. Program /\ Stacked /\ Typed /\ [Next]_vars => (Program /\ Stacked /\ Typed)'
  BY ProgramStep, StackedStep, SourceTypedStep, PlanTypedStep, LookupTypedStep, StructTypedStep
     DEF Typed
<1> QED
  BY <1>1, <1>2, PTL DEF Spec

(* TypeOK.                                                                 *)
THEOREM ConfigTyping == Spec => []TypeOK
BY TypedInvariant, TypedIsTypeOK, PTL

-----------------------------------------------------------------------------
(* Induction on the naturals, for a set in place of a predicate.           *)
LEMMA LeastNatural ==
    ASSUME NEW T, T \subseteq Nat, T # {}
    PROVE  \E x \in T : \A y \in T : ~(y < x)
<1>1. IsWellFoundedOn(OpToRel(<, Nat), Nat)
  BY NatLessThanWellFounded
<1> DEFINE R == OpToRel(<, Nat)
<1>2. \A x, y \in Nat : y < x => <<y, x>> \in R
  BY DEF OpToRel
<1> HIDE DEF R
<1>3. IsWellFoundedOn(R, Nat)
  BY <1>1 DEF R
<1>4. \E x \in T : \A y \in T : <<y, x>> \notin R
  BY <1>3, WFMin
<1> QED
  BY <1>2, <1>4

(* A set with 0 and every successor of its members has every natural.      *)
LEMMA SetInduction ==
    ASSUME NEW T, 0 \in T, \A n \in Nat : n \in T => n + 1 \in T
    PROVE  Nat \subseteq T
<1> SUFFICES ASSUME Nat \ T # {} PROVE FALSE
  OBVIOUS
<1>1. PICK x \in Nat \ T : \A y \in Nat \ T : ~(y < x)
  BY LeastNatural
<1>2. x # 0 /\ x - 1 \in Nat /\ x - 1 < x
  BY <1>1
<1>3. x - 1 \in T
  BY <1>1, <1>2
<1>4. x - 1 + 1 \in T
  BY <1>2, <1>3
<1> QED
  BY <1>1, <1>2, <1>4

-----------------------------------------------------------------------------
(* The order of index paths: a walk meets a path before those that are     *)
(* under it and before those that are later.                               *)
Before(p, q) == Earlier(p, q) \/ UnderBlock(q, p)

LEMMA SameStart ==
    ASSUME NEW p \in Indices, NEW q \in Indices, NEW n \in Nat, n <= Len(p), n <= Len(q)
    PROVE  SubSeq(p, 1, n) = SubSeq(q, 1, n) <=> \A e \in 1..n : p[e] = q[e]
<1> DEFINE a == SubSeq(p, 1, n)  b == SubSeq(q, 1, n)
<1>1. Len(p) \in Nat /\ Len(q) \in Nat
  BY LenProperties DEF Indices
<1>2. \A e \in 1..n : p[e] \in Nat \ {0} /\ q[e] \in Nat \ {0}
  BY <1>1, ElementOfSeq DEF Indices
<1>3. a \in Indices /\ Len(a) = n /\ \A e \in 1..n : a[e] = p[e]
  BY <1>2, SubSeqProperties DEF Indices
<1>4. b \in Indices /\ Len(b) = n /\ \A e \in 1..n : b[e] = q[e]
  BY <1>2, SubSeqProperties DEF Indices
<1> HIDE DEF a, b
<1>5. (\A e \in 1..n : p[e] = q[e]) => a = b
  BY <1>3, <1>4, SeqEqual DEF Indices
<1>6. a = b => \A e \in 1..n : p[e] = q[e]
  BY <1>3, <1>4
<1> QED
  BY <1>5, <1>6 DEF a, b

LEMMA EarlierIs ==
    \A p, q \in Indices :
        Earlier(p, q) <=> \E d \in 1..Len(p) :
            d <= Len(q) /\ (\A e \in 1..d - 1 : p[e] = q[e]) /\ p[d] < q[d]
<1> SUFFICES ASSUME NEW p \in Indices, NEW q \in Indices
             PROVE  Earlier(p, q) <=> \E d \in 1..Len(p) :
                        d <= Len(q) /\ (\A e \in 1..d - 1 : p[e] = q[e]) /\ p[d] < q[d]
  OBVIOUS
<1>1. /\ Len(p) \in Nat /\ Len(q) \in Nat
      /\ DOMAIN p = 1..Len(p) /\ DOMAIN q = 1..Len(q)
  BY LenProperties DEF Indices
<1>2. ASSUME NEW d \in 1..Len(p), d <= Len(q)
      PROVE  SubSeq(p, 1, d - 1) = SubSeq(q, 1, d - 1) <=> \A e \in 1..d - 1 : p[e] = q[e]
  BY <1>1, <1>2, SameStart
<1>3. \A d : d \in DOMAIN p \cap DOMAIN q <=> d \in 1..Len(p) /\ d <= Len(q)
  BY <1>1
<1> QED
  BY <1>2, <1>3 DEF Earlier

LEMMA UnderIs ==
    \A p, q \in Indices :
        UnderBlock(q, p) <=> Len(p) < Len(q) /\ \A e \in 1..Len(p) : p[e] = q[e]
<1> SUFFICES ASSUME NEW p \in Indices, NEW q \in Indices
             PROVE  UnderBlock(q, p) <=> Len(p) < Len(q) /\ \A e \in 1..Len(p) : p[e] = q[e]
  OBVIOUS
<1>1. Len(p) \in Nat /\ Len(q) \in Nat
  BY LenProperties DEF Indices
<1>2. UnderBlock(q, p) <=> Len(p) <= Len(q) /\ (\A e \in 1..Len(p) : p[e] = q[e]) /\ p # q
  BY <1>1, SameStart DEF UnderBlock, IsStrictPrefix, IsPrefix
<1>3. Len(p) = Len(q) /\ (\A e \in 1..Len(p) : p[e] = q[e]) => p = q
  BY SeqEqual DEF Indices
<1> QED
  BY <1>1, <1>2, <1>3

LEMMA NotBeforeItself == \A p \in Indices : ~Before(p, p)
<1> SUFFICES ASSUME NEW p \in Indices PROVE ~Before(p, p)
  OBVIOUS
<1>1. Len(p) \in Nat /\ \A d \in 1..Len(p) : p[d] \in Nat
  BY LenProperties, ElementOfSeq DEF Indices
<1> QED
  BY <1>1, EarlierIs, UnderIs DEF Before

LEMMA LongerPath ==
    ASSUME NEW p \in Indices, NEW k \in Nat \ {0}
    PROVE  /\ Append(p, k) \in Indices /\ Len(Append(p, k)) = Len(p) + 1 /\ Len(p) \in Nat
           /\ \A e \in 1..Len(p) : Append(p, k)[e] = p[e]
           /\ Append(p, k)[Len(p) + 1] = k /\ Append(p, k) # <<>>
  BY AppendProperties, LenProperties DEF Indices

LEMMA BeforeLonger ==
    ASSUME NEW m \in Indices, NEW p \in Indices, NEW k \in Nat \ {0}
    PROVE  Before(m, Append(p, k)) <=>
               \/ Before(m, p) \/ m = p
               \/ UnderBlock(m, p) /\ m[Len(p) + 1] < k
<1> DEFINE q == Append(p, k)
<1>1. /\ q \in Indices /\ Len(q) = Len(p) + 1 /\ Len(p) \in Nat /\ Len(m) \in Nat
      /\ \A e \in 1..Len(p) : q[e] = p[e]
      /\ q[Len(p) + 1] = k
  BY LongerPath, LenProperties DEF Indices
<1>2. \A d \in 1..Len(m) : m[d] \in Nat
  BY ElementOfSeq DEF Indices
<1>3. \A d \in 1..Len(p) : p[d] \in Nat
  BY ElementOfSeq DEF Indices
<1> HIDE DEF q
<1>4. UnderBlock(q, m) <=> UnderBlock(p, m) \/ m = p
  <2>1. UnderBlock(q, m) <=> Len(m) <= Len(p) /\ \A e \in 1..Len(m) : m[e] = p[e]
    BY <1>1, UnderIs
  <2>2. UnderBlock(p, m) <=> Len(m) < Len(p) /\ \A e \in 1..Len(m) : m[e] = p[e]
    BY UnderIs
  <2>3. Len(m) = Len(p) /\ (\A e \in 1..Len(m) : m[e] = p[e]) => m = p
    BY SeqEqual DEF Indices
  <2> QED
    BY <1>1, <2>1, <2>2, <2>3
<1>6. ASSUME Earlier(m, q) PROVE Earlier(m, p) \/ (UnderBlock(m, p) /\ m[Len(p) + 1] < k)
  <2>1. PICK d \in 1..Len(m) : d <= Len(q) /\ (\A e \in 1..d - 1 : m[e] = q[e]) /\ m[d] < q[d]
    BY <1>1, <1>6, EarlierIs
  <2>2. CASE d <= Len(p)
    <3>1. (\A e \in 1..d - 1 : m[e] = p[e]) /\ m[d] < p[d]
      BY <1>1, <2>1, <2>2
    <3> QED
      BY <2>1, <2>2, <3>1, EarlierIs
  <2>3. CASE d = Len(p) + 1
    <3>1. Len(p) < Len(m) /\ (\A e \in 1..Len(p) : p[e] = m[e]) /\ m[Len(p) + 1] < k
      BY <1>1, <2>1, <2>3
    <3> QED
      BY <3>1, UnderIs
  <2> QED
    BY <1>1, <2>1, <2>2, <2>3
<1>7. ASSUME Earlier(m, p) PROVE Earlier(m, q)
  <2>1. PICK d \in 1..Len(m) : d <= Len(p) /\ (\A e \in 1..d - 1 : m[e] = p[e]) /\ m[d] < p[d]
    BY <1>7, EarlierIs
  <2>2. d <= Len(q) /\ (\A e \in 1..d - 1 : m[e] = q[e]) /\ m[d] < q[d]
    BY <1>1, <2>1
  <2> QED
    BY <1>1, <2>1, <2>2, EarlierIs
<1>8. ASSUME UnderBlock(m, p), m[Len(p) + 1] < k PROVE Earlier(m, q)
  <2>1. Len(p) < Len(m) /\ \A e \in 1..Len(p) : p[e] = m[e]
    BY <1>8, UnderIs
  <2>2. /\ Len(p) + 1 \in 1..Len(m) /\ Len(p) + 1 <= Len(q)
        /\ \A e \in 1..(Len(p) + 1) - 1 : m[e] = q[e]
        /\ m[Len(p) + 1] < q[Len(p) + 1]
    BY <1>1, <1>8, <2>1
  <2> QED
    BY <1>1, <2>2, EarlierIs
<1> QED
  BY <1>4, <1>6, <1>7, <1>8 DEF Before, q

LEMMA UnderLonger ==
    ASSUME NEW m \in Indices, NEW p \in Indices, NEW k \in Nat \ {0}
    PROVE  /\ UnderBlock(m, p) /\ m[Len(p) + 1] = k <=>
                 m = Append(p, k) \/ UnderBlock(m, Append(p, k))
           /\ UnderBlock(Append(p, k), m) <=> m = p \/ UnderBlock(p, m)
<1> DEFINE q == Append(p, k)
<1>1. /\ q \in Indices /\ Len(q) = Len(p) + 1 /\ Len(p) \in Nat /\ Len(m) \in Nat
      /\ \A e \in 1..Len(p) : q[e] = p[e]
      /\ q[Len(p) + 1] = k
  BY LongerPath, LenProperties DEF Indices
<1> HIDE DEF q
<1>2. UnderBlock(q, m) <=> UnderBlock(p, m) \/ m = p
  <2>1. UnderBlock(q, m) <=> Len(m) <= Len(p) /\ \A e \in 1..Len(m) : m[e] = p[e]
    BY <1>1, UnderIs
  <2>2. UnderBlock(p, m) <=> Len(m) < Len(p) /\ \A e \in 1..Len(m) : m[e] = p[e]
    BY UnderIs
  <2>3. Len(m) = Len(p) /\ (\A e \in 1..Len(m) : m[e] = p[e]) => m = p
    BY SeqEqual DEF Indices
  <2> QED
    BY <1>1, <2>1, <2>2, <2>3
<1>3. UnderBlock(m, p) /\ m[Len(p) + 1] = k <=>
        Len(q) <= Len(m) /\ \A e \in 1..Len(q) : q[e] = m[e]
  <2>1. UnderBlock(m, p) <=> Len(p) < Len(m) /\ \A e \in 1..Len(p) : p[e] = m[e]
    BY UnderIs
  <2>2. \A e \in 1..Len(q) : e \in 1..Len(p) \/ e = Len(p) + 1
    BY <1>1
  <2>3. \A e \in 1..Len(p) : e \in 1..Len(q)
    BY <1>1
  <2>4. Len(p) + 1 \in 1..Len(q)
    BY <1>1
  <2> QED
    BY <1>1, <2>1, <2>2, <2>3, <2>4
<1>4. UnderBlock(m, q) <=> Len(q) < Len(m) /\ \A e \in 1..Len(q) : q[e] = m[e]
  BY <1>1, UnderIs
<1>5. Len(q) = Len(m) /\ (\A e \in 1..Len(q) : q[e] = m[e]) <=> m = q
  BY <1>1, SeqEqual DEF Indices
<1> QED
  BY <1>1, <1>2, <1>3, <1>4, <1>5 DEF q

-----------------------------------------------------------------------------
(* The tree of the fields.                                                 *)
NodeOK(n, d) ==
    /\ n.at \in Indices /\ Len(n.at) = d
    /\ n.f \in Bare /\ n.f.exported /\ n.f.env # Dash
    /\ n.prefix \in Keys
    /\ n.around \subseteq DOMAIN types /\ Cardinality(n.around) = d

(* What FieldsOf and the levels are made of.                               *)
IsField(n, t, path, prefix, around) ==
    \E k \in 1..Len(types[t]) :
        /\ n = [at |-> Append(path, k), f |-> types[t][k], prefix |-> prefix,
                around |-> around \cup {t}]
        /\ types[t][k].exported /\ types[t][k].env # Dash

LEMMA FieldsOfAre ==
    ASSUME Program, NEW t \in DOMAIN types, NEW path, NEW prefix, NEW around
    PROVE  \A n : n \in FieldsOf(t, path, prefix, around) <=> IsField(n, t, path, prefix, around)
<1>1. DOMAIN types[t] = 1..Len(types[t])
  BY LenProperties DEF Program
<1> QED
  BY <1>1 DEF FieldsOf, IsField

LEMMA FieldsOfOK ==
    ASSUME Program, NEW t \in DOMAIN types, NEW path \in Indices, NEW prefix \in Keys,
           NEW around, around \subseteq DOMAIN types, t \notin around,
           Cardinality(around) = Len(path),
           NEW n \in FieldsOf(t, path, prefix, around)
    PROVE  NodeOK(n, Len(path) + 1)
<1>1. PICK k \in 1..Len(types[t]) :
        /\ n = [at |-> Append(path, k), f |-> types[t][k], prefix |-> prefix,
                around |-> around \cup {t}]
        /\ types[t][k].exported /\ types[t][k].env # Dash
  BY FieldsOfAre DEF IsField
<1>2. types[t][k] \in Bare
  BY ElementOfSeq DEF Program
<1>3. k \in Nat \ {0}
  BY LenProperties DEF Program
<1>4. Append(path, k) \in Indices /\ Len(Append(path, k)) = Len(path) + 1
  BY <1>3, LongerPath
<1>5. IsFiniteSet(around)
  BY FS_Subset DEF Program
<1>6. Cardinality(around \cup {t}) = Len(path) + 1
  BY <1>5, FS_AddElement
<1> QED
  BY <1>1, <1>2, <1>4, <1>6 DEF NodeOK

First == FieldsOf(Root, <<>>, Prefix, {})
Under(n) == FieldsOf(n.f.ty, n.at, n.prefix \o n.f.prefix, n.around)
Below(level) == UNION {Under(n) : n \in {n \in level : IsGroup(n)}}
Body(f) == [d \in Depths |-> IF d = 1 THEN First ELSE Below(f[d - 1])]

Upto(f, k) == f = [d \in 1..k |-> IF d = 1 THEN First ELSE Below(f[d - 1])]

LEMMA LevelsExist == Program => \E f : f = Body(f)
<1> SUFFICES ASSUME Program PROVE \E f : f = Body(f)
  OBVIOUS
<1> DEFINE Have == {k \in Nat : \E f : Upto(f, k)}
<1>1. 0 \in Have
  <2>1. Upto([d \in 1..0 |-> First], 0)
    BY DEF Upto
  <2> QED
    BY <2>1
<1>2. ASSUME NEW k \in Nat, k \in Have PROVE k + 1 \in Have
  <2>1. PICK f : Upto(f, k)
    BY <1>2
  <2> DEFINE next == IF k + 1 = 1 THEN First ELSE Below(f[k])
             longer == [d \in 1..k + 1 |-> IF d = k + 1 THEN next ELSE f[d]]
  <2>2. \A d \in 1..k : f[d] = IF d = 1 THEN First ELSE Below(f[d - 1])
    BY <2>1 DEF Upto
  <2>3. ASSUME NEW d \in 1..k + 1
        PROVE  longer[d] = IF d = 1 THEN First ELSE Below(longer[d - 1])
    <3>1. d # 1 => longer[d - 1] = f[d - 1]
      OBVIOUS
    <3>2. CASE d = k + 1
      BY <3>1, <3>2
    <3>3. CASE d \in 1..k
      BY <2>2, <3>1, <3>3
    <3> QED
      BY <3>2, <3>3
  <2>4. Upto(longer, k + 1)
    BY <2>3 DEF Upto
  <2> QED
    BY <2>4
<1>3. Cardinality(DOMAIN types) \in Nat
  BY FS_CardinalityType DEF Program
<1>4. Cardinality(DOMAIN types) \in Have
  <2> HIDE DEF Have
  <2> QED
    BY <1>1, <1>2, <1>3, SetInduction
<1> QED
  BY <1>4 DEF Body, Depths, Upto

LEMMA LevelsAre == Program => FieldsAt = Body(FieldsAt)
<1> SUFFICES ASSUME Program PROVE FieldsAt = Body(FieldsAt)
  OBVIOUS
<1>1. \E f : f = Body(f)
  BY LevelsExist
<1> QED
  BY <1>1, Zenon DEF FieldsAt, Body, First, Below, Under

LEMMA GroupsAre ==
    ASSUME NEW n, NEW d, NodeOK(n, d), IsGroup(n)
    PROVE  /\ n.f.ty \in DOMAIN types /\ n.f.ty \notin n.around
           /\ n.prefix \o n.f.prefix \in Keys
<1>1. n.f.prefix \in Keys /\ n.f.ty \in DOMAIN types /\ n.f.ty \notin n.around /\ n.prefix \in Keys
  BY DEF NodeOK, IsGroup, Nested, Bare
<1>2. n.prefix \o n.f.prefix \in Keys
  BY <1>1, ConcatProperties DEF Keys
<1> QED
  BY <1>1, <1>2

LEMMA UnderOK ==
    ASSUME Program, NEW n, NodeOK(n, Len(n.at)), IsGroup(n), NEW m \in Under(n)
    PROVE  NodeOK(m, Len(n.at) + 1)
<1>1. /\ n.f.ty \in DOMAIN types /\ n.f.ty \notin n.around /\ n.prefix \o n.f.prefix \in Keys
      /\ n.at \in Indices /\ n.around \subseteq DOMAIN types /\ Cardinality(n.around) = Len(n.at)
  BY GroupsAre DEF NodeOK
<1> QED
  BY <1>1, FieldsOfOK DEF Under

LEMMA FirstOK ==
    ASSUME Program, NEW n \in First
    PROVE  NodeOK(n, 1)
<1>1. <<>> \in Indices /\ Len(<<>>) = 0 /\ Cardinality({}) = 0 /\ Prefix \in Keys
  BY EmptySeq, FS_EmptySet, ConfigAssumption DEF Indices
<1>2. Root \in DOMAIN types
  BY DEF Program
<1>3. NodeOK(n, Len(<<>>) + 1)
  <2> HIDE DEF Root
  <2> QED
    BY <1>1, <1>2, FieldsOfOK DEF First
<1> QED
  BY <1>1, <1>3

LEMMA DepthsAre ==
    Program => /\ Cardinality(DOMAIN types) \in Nat \ {0}
               /\ Depths = 1..Cardinality(DOMAIN types) /\ 1 \in Depths
<1> SUFFICES ASSUME Program PROVE Cardinality(DOMAIN types) \in Nat \ {0}
  BY DEF Depths
<1> QED
  BY FS_CardinalityType, FS_EmptySet DEF Program

LEMMA LevelsOK ==
    Program => \A d \in Depths : \A n \in FieldsAt[d] : NodeOK(n, d)
<1> SUFFICES ASSUME Program PROVE \A d \in Depths : \A n \in FieldsAt[d] : NodeOK(n, d)
  OBVIOUS
<1> DEFINE Fine == {d \in Nat : d \in Depths => \A n \in FieldsAt[d] : NodeOK(n, d)}
<1>1. 0 \in Fine
  BY DepthsAre
<1>2. \A d \in Depths : FieldsAt[d] = IF d = 1 THEN First ELSE Below(FieldsAt[d - 1])
  BY LevelsAre DEF Body
<1>3. ASSUME NEW d \in Nat, d \in Fine PROVE d + 1 \in Fine
  <2> SUFFICES ASSUME d + 1 \in Depths, NEW n \in FieldsAt[d + 1] PROVE NodeOK(n, d + 1)
    OBVIOUS
  <2>1. CASE d = 0
    <3>1. n \in First
      BY <1>2, <2>1
    <3> QED
      BY <2>1, <3>1, FirstOK
  <2>2. CASE d # 0
    <3>1. d \in Depths /\ n \in Below(FieldsAt[d])
      BY <1>2, <2>2, DepthsAre
    <3>2. PICK m \in FieldsAt[d] : IsGroup(m) /\ n \in Under(m)
      BY <3>1 DEF Below
    <3>3. NodeOK(m, d) /\ Len(m.at) = d
      BY <1>3, <3>1, <3>2 DEF NodeOK
    <3> QED
      BY <3>2, <3>3, UnderOK
  <2> QED
    BY <2>1, <2>2
<1>4. Nat \subseteq Fine
  <2> HIDE DEF Fine
  <2> QED
    BY <1>1, <1>3, SetInduction
<1> QED
  BY <1>4, DepthsAre

(* The fields are those of the root and those of each group, and no others *)
(* are: no path that goes through groups alone is too long.                *)
LEMMA TreeOfFields ==
    ASSUME Program
    PROVE  /\ \A n \in Fields : NodeOK(n, Len(n.at)) /\ Len(n.at) \in Nat \ {0}
           /\ First \subseteq Fields
           /\ \A g \in Groups : Under(g) \subseteq Fields
           /\ \A n \in Fields : n \in First \/ \E g \in Groups : n \in Under(g)
<1>1. \A d \in Depths : FieldsAt[d] = IF d = 1 THEN First ELSE Below(FieldsAt[d - 1])
  BY LevelsAre DEF Body
<1>2. \A n : n \in Fields <=> \E d \in Depths : n \in FieldsAt[d]
  BY DEF Fields
<1>3. \A n \in Fields : NodeOK(n, Len(n.at)) /\ Len(n.at) \in Nat \ {0}
  BY <1>2, LevelsOK, DepthsAre DEF NodeOK
<1>4. First \subseteq Fields
  BY <1>1, <1>2, DepthsAre
<1>5. ASSUME NEW g \in Groups PROVE Under(g) \subseteq Fields
  <2>1. PICK d \in Depths : g \in FieldsAt[d]
    BY <1>2 DEF Groups
  <2>2. NodeOK(g, d) /\ IsGroup(g)
    BY <2>1, LevelsOK DEF Groups
  <2>3. /\ g.f.ty \in DOMAIN types /\ g.f.ty \notin g.around
        /\ g.around \subseteq DOMAIN types /\ Cardinality(g.around) = d
    BY <2>2, GroupsAre DEF NodeOK
  <2>4. IsFiniteSet(g.around) /\ IsFiniteSet(DOMAIN types)
    BY <2>3, FS_Subset DEF Program
  <2>5. Cardinality(g.around \cup {g.f.ty}) = d + 1
    BY <2>3, <2>4, FS_AddElement
  <2>6. d + 1 <= Cardinality(DOMAIN types)
    BY <2>3, <2>4, <2>5, FS_Subset
  <2>7. d + 1 \in Depths /\ d + 1 # 1 /\ (d + 1) - 1 = d
    BY <2>6, DepthsAre
  <2>8. FieldsAt[d + 1] = Below(FieldsAt[d])
    BY <1>1, <2>7
  <2>9. Under(g) \subseteq FieldsAt[d + 1]
    BY <2>1, <2>2, <2>8 DEF Below
  <2> QED
    BY <1>2, <2>7, <2>9
<1>6. ASSUME NEW n \in Fields PROVE n \in First \/ \E g \in Groups : n \in Under(g)
  <2>1. PICK d \in Depths : n \in FieldsAt[d]
    BY <1>2
  <2>2. CASE d # 1
    <3>1. d - 1 \in Depths /\ n \in Below(FieldsAt[d - 1])
      BY <1>1, <2>1, <2>2, DepthsAre
    <3>2. PICK g \in FieldsAt[d - 1] : IsGroup(g) /\ n \in Under(g)
      BY <3>1 DEF Below
    <3>3. g \in Groups
      BY <1>2, <3>1, <3>2 DEF Groups
    <3> QED
      BY <3>2, <3>3
  <2> QED
    BY <1>1, <2>1, <2>2
<1> QED
  BY <1>3, <1>4, <1>5, <1>6

(* What is under a group, by its path.                                     *)
LEMMA UnderGroup ==
    ASSUME Program, NEW g \in Groups, NEW n \in Under(g)
    PROVE  /\ IsField(n, g.f.ty, g.at, g.prefix \o g.f.prefix, g.around)
           /\ n \in Fields /\ UnderBlock(n.at, g.at) /\ Len(n.at) = Len(g.at) + 1
           /\ \E k \in Nat \ {0} : n.at = Append(g.at, k)
<1>1. g \in Fields /\ IsGroup(g) /\ NodeOK(g, Len(g.at)) /\ n \in Fields
  BY TreeOfFields DEF Groups
<1>2. g.f.ty \in DOMAIN types /\ g.at \in Indices
  BY <1>1, GroupsAre DEF NodeOK
<1>3. IsField(n, g.f.ty, g.at, g.prefix \o g.f.prefix, g.around)
  BY <1>2, FieldsOfAre DEF Under
<1>4. PICK k \in 1..Len(types[g.f.ty]) : n.at = Append(g.at, k)
  BY <1>3 DEF IsField
<1>5. k \in Nat \ {0}
  BY <1>2, LenProperties DEF Program
<1>6. UnderBlock(n.at, g.at) /\ Len(n.at) = Len(g.at) + 1
  <2> DEFINE q == Append(g.at, k)
  <2>1. /\ q \in Indices /\ Len(q) = Len(g.at) + 1 /\ Len(g.at) \in Nat
        /\ \A e \in 1..Len(g.at) : q[e] = g.at[e]
    BY <1>2, <1>5, LongerPath
  <2> HIDE DEF q
  <2>2. UnderBlock(q, g.at)
    BY <1>2, <2>1, UnderIs
  <2> QED
    BY <1>4, <2>1, <2>2 DEF q
<1> QED
  BY <1>1, <1>3, <1>4, <1>5, <1>6

LEMMA OfRoot ==
    ASSUME Program, NEW n \in First
    PROVE  /\ IsField(n, Root, <<>>, Prefix, {})
           /\ n \in Fields /\ <<>> \in Indices /\ Len(n.at) = 1
           /\ \E k \in Nat \ {0} : n.at = Append(<<>>, k)
<1>1. Root \in DOMAIN types /\ <<>> \in Indices /\ n \in Fields /\ Len(<<>>) = 0
  BY EmptySeq, TreeOfFields DEF Program, Indices
<1>2. IsField(n, Root, <<>>, Prefix, {})
  <2> HIDE DEF Root
  <2> QED
    BY <1>1, FieldsOfAre DEF First
<1>3. PICK k \in 1..Len(types[Root]) : n.at = Append(<<>>, k)
  BY <1>2 DEF IsField
<1>4. k \in Nat \ {0}
  BY <1>1, LenProperties DEF Program
<1>5. Len(n.at) = 1
  BY <1>1, <1>3, <1>4, LongerPath
<1> QED
  BY <1>1, <1>2, <1>3, <1>4, <1>5

(* Append by another name, which the provers do not look into.             *)
Child(p, k) == Append(p, k)

LEMMA SameParent ==
    \A p, q \in Indices, j, l \in Nat \ {0} : Append(p, j) = Append(q, l) => p = q /\ j = l
  BY AppendInjective DEF Indices

LEMMA ParentOfChild ==
    \A p, q \in Indices, j, l \in Nat \ {0} : Child(p, j) = Child(q, l) => p = q
  BY SameParent DEF Child

(* A field is named by its index path.                                     *)
LEMMA OneFieldAt == Program => \A n, m \in Fields : n.at = m.at => n = m
<1> SUFFICES ASSUME Program PROVE \A n, m \in Fields : n.at = m.at => n = m
  OBVIOUS
<1> DEFINE Twice == {k \in Nat : \E n, m \in Fields : n.at = m.at /\ n # m /\ Len(n.at) = k}
<1>1. ASSUME NEW k \in Twice, \A l \in Twice : ~(l < k) PROVE FALSE
  <2>1. PICK n, m \in Fields : n.at = m.at /\ n # m /\ Len(n.at) = k
    BY <1>1
  <2>0. \A a, b \in Fields : a.at = b.at /\ a # b => ~(Len(a.at) < k)
    <3>1. \A a \in Fields : Len(a.at) \in Nat
      BY TreeOfFields
    <3> QED
      BY <1>1, <3>1
  <2>10. k \in Nat
    OBVIOUS
  <2> HIDE DEF Twice
  <2>2. ASSUME NEW t, NEW p \in Indices, NEW prefix, NEW around,
               IsField(n, t, p, prefix, around), IsField(m, t, p, prefix, around),
               t \in DOMAIN types
        PROVE  FALSE
    <3>1. PICK j \in 1..Len(types[t]) :
            n = [at |-> Append(p, j), f |-> types[t][j], prefix |-> prefix,
                 around |-> around \cup {t}]
      BY <2>2 DEF IsField
    <3>2. PICK l \in 1..Len(types[t]) :
            m = [at |-> Append(p, l), f |-> types[t][l], prefix |-> prefix,
                 around |-> around \cup {t}]
      BY <2>2 DEF IsField
    <3>3. j \in Nat \ {0} /\ l \in Nat \ {0}
      BY <2>2, LenProperties DEF Program
    <3>4. j = l
      BY <2>1, <3>1, <3>2, <3>3, AppendInjective DEF Indices
    <3> QED
      BY <2>1, <3>1, <3>2, <3>4
  <2>3. CASE n \in First /\ m \in First
    <3>1. Root \in DOMAIN types
      BY DEF Program
    <3> HIDE DEF Root
    <3> QED
      BY <2>2, <2>3, <3>1, OfRoot
  <2>4. CASE n \in First /\ \E g \in Groups : m \in Under(g)
    <3>1. PICK g \in Groups : m \in Under(g)
      BY <2>4
    <3>2. Len(n.at) = 1 /\ Len(m.at) = Len(g.at) + 1 /\ Len(g.at) \in Nat \ {0}
      BY <2>4, <3>1, OfRoot, UnderGroup, TreeOfFields DEF Groups
    <3>3. Len(n.at) = Len(m.at)
      BY <2>1
    <3>4. Len(g.at) \in Nat /\ Len(g.at) # 0
      BY <3>2
    <3>5. Len(g.at) + 1 # 1
      BY <3>4
    <3> QED
      BY <3>2, <3>3, <3>5
  <2>5. CASE m \in First /\ \E g \in Groups : n \in Under(g)
    <3>1. PICK g \in Groups : n \in Under(g)
      BY <2>5
    <3>2. Len(m.at) = 1 /\ Len(n.at) = Len(g.at) + 1 /\ Len(g.at) \in Nat \ {0}
      BY <2>5, <3>1, OfRoot, UnderGroup, TreeOfFields DEF Groups
    <3>3. Len(n.at) = Len(m.at)
      BY <2>1
    <3>4. Len(g.at) \in Nat /\ Len(g.at) # 0
      BY <3>2
    <3>5. Len(g.at) + 1 # 1
      BY <3>4
    <3> QED
      BY <3>2, <3>3, <3>5
  <2>6. CASE (\E g \in Groups : n \in Under(g)) /\ (\E g \in Groups : m \in Under(g))
    <3>1. PICK g \in Groups : n \in Under(g)
      BY <2>6
    <3>2. PICK h \in Groups : m \in Under(h)
      BY <2>6
    <3>3. g \in Fields /\ h \in Fields /\ g.at \in Indices /\ h.at \in Indices
          /\ g.f.ty \in DOMAIN types
      BY TreeOfFields, GroupsAre DEF Groups, NodeOK
    <3>4. PICK j, l \in Nat \ {0} : n.at = Append(g.at, j) /\ m.at = Append(h.at, l)
      BY <3>1, <3>2, UnderGroup
    <3>5. g.at = h.at
      <4>1. Child(g.at, j) = Child(h.at, l)
        BY <2>1, <3>4 DEF Child
      <4>2. j \in Nat \ {0} /\ l \in Nat \ {0} /\ g.at \in Indices /\ h.at \in Indices
        BY <3>3
      <4> QED
        BY <4>1, <4>2, ParentOfChild
    <3>6. Len(g.at) \in Nat /\ Len(n.at) = Len(g.at) + 1
      BY <3>1, <3>3, UnderGroup, TreeOfFields
    <3>7. g = h
      BY <2>0, <2>1, <2>10, <3>3, <3>5, <3>6
    <3> QED
      BY <2>2, <3>1, <3>2, <3>3, <3>7, UnderGroup
  <2> QED
    BY <2>1, <2>3, <2>4, <2>5, <2>6, TreeOfFields
<1>2. Twice \subseteq Nat
  OBVIOUS
<1>3. Twice = {}
  <2> HIDE DEF Twice
  <2> QED
    BY <1>1, <1>2, LeastNatural
<1>4. ASSUME NEW n \in Fields, NEW m \in Fields, n.at = m.at, n # m PROVE FALSE
  <2>1. Len(n.at) \in Nat
    BY TreeOfFields
  <2>2. Len(n.at) \in Twice
    BY <1>4, <2>1
  <2> QED
    BY <1>3, <2>2
<1> QED
  BY <1>4

(* Whatever has a field under it is a group.                               *)
LEMMA GroupsAbove ==
    Program => \A n \in Fields : \A p \in Indices :
        p # <<>> /\ UnderBlock(n.at, p) => \E g \in Groups : g.at = p
<1> SUFFICES ASSUME Program
             PROVE  \A n \in Fields : \A p \in Indices :
                        p # <<>> /\ UnderBlock(n.at, p) => \E g \in Groups : g.at = p
  OBVIOUS
<1> DEFINE Odd(n) == \E p \in Indices : /\ p # <<>> /\ UnderBlock(n.at, p)
                                        /\ \A g \in Groups : g.at # p
           Lens == {k \in Nat : \E n \in Fields : Odd(n) /\ Len(n.at) = k}
<1>1. ASSUME NEW k \in Lens, \A l \in Lens : ~(l < k) PROVE FALSE
  <2>1. PICK n \in Fields : Odd(n) /\ Len(n.at) = k
    BY <1>1
  <2>2. PICK p \in Indices : p # <<>> /\ UnderBlock(n.at, p) /\ \A g \in Groups : g.at # p
    BY <2>1
  <2>3. CASE n \in First
    <3>1. n.at \in Indices /\ Len(n.at) = 1
      BY <2>3, OfRoot, TreeOfFields DEF NodeOK
    <3>2. Len(p) < 1 /\ Len(p) \in Nat
      BY <2>2, <3>1, UnderIs, LenProperties DEF Indices
    <3> QED
      BY <2>2, <3>2, EmptySeq DEF Indices
  <2>4. ASSUME NEW g \in Groups, n \in Under(g) PROVE FALSE
    <3>1. PICK j \in Nat \ {0} : n.at = Append(g.at, j)
      BY <2>4, UnderGroup
    <3>2. g \in Fields /\ g.at \in Indices /\ Len(g.at) \in Nat /\ Len(n.at) = Len(g.at) + 1
      BY <2>4, UnderGroup, TreeOfFields DEF Groups, NodeOK
    <3>3. p = g.at \/ UnderBlock(g.at, p)
      BY <2>2, <3>1, <3>2, UnderLonger
    <3>4. Odd(g)
      BY <2>2, <3>3
    <3>5. Len(g.at) \in Lens /\ Len(g.at) < k
      BY <2>1, <3>2, <3>4
    <3> QED
      BY <1>1, <3>5
  <2> QED
    BY <2>3, <2>4, TreeOfFields
<1>2. Lens \subseteq Nat
  OBVIOUS
<1>3. Lens = {}
  <2> HIDE DEF Lens
  <2> QED
    BY <1>1, <1>2, LeastNatural
<1>4. ASSUME NEW n \in Fields, Odd(n) PROVE FALSE
  <2>1. Len(n.at) \in Nat
    BY TreeOfFields
  <2>2. Len(n.at) \in Lens
    BY <1>4, <2>1
  <2> QED
    BY <1>3, <2>2
<1> QED
  BY <1>4

-----------------------------------------------------------------------------
(* What the type alone determines stays as it was.                         *)
LEMMA TreeStays ==
    types' = types =>
        Fields' = Fields /\ Groups' = Groups /\ Readable' = Readable /\ Owners' = Owners
<1> SUFFICES ASSUME types' = types
             PROVE  Fields' = Fields /\ Groups' = Groups /\ Readable' = Readable /\ Owners' = Owners
  OBVIOUS
<1>1. FieldsAt' = FieldsAt /\ Depths' = Depths
  BY DEF FieldsAt, FieldsOf, Depths
<1>2. Fields' = Fields
  BY <1>1 DEF Fields
<1>3. Groups' = Groups
  BY <1>2 DEF Groups
<1>4. Readable' = Readable
  BY <1>2 DEF Readable
<1>5. Owners' = Owners
  BY <1>4 DEF Owners
<1> QED
  BY <1>2, <1>3, <1>4, <1>5

(* The struct types around the frame at depth d, and its own.              *)
Around(d) == {frames[e].ty : e \in 1..d}

(* Each frame but the first is that of a group, which the frame below has  *)
(* just gone past.                                                         *)
Entered(d) ==
    /\ frames[d - 1].at > 1
    /\ frames[d].index = Append(frames[d - 1].index, frames[d - 1].at - 1)
    /\ \E g \in Groups :
         /\ g.at = frames[d].index /\ g.f.ty = frames[d].ty
         /\ g.prefix \o g.f.prefix = frames[d].prefix /\ g.around = Around(d - 1)
Descent ==
    /\ frames[1].ty = Root /\ frames[1].index = <<>> /\ frames[1].prefix = Prefix
    /\ \A d \in 2..Len(frames) : Entered(d)

(* The fields of the struct on top of the stack.                           *)
LEMMA FieldsOfTop ==
    ASSUME Program, Stacked, Descent
    PROVE  \E around :
             /\ around \cup {Top.ty} = OnPath
             /\ FieldsOf(Top.ty, Top.index, Top.prefix, around) \subseteq Fields
             /\ \A n \in Fields : \A k \in Nat \ {0} :
                  n.at = Append(Top.index, k)
                     => n \in FieldsOf(Top.ty, Top.index, Top.prefix, around)
<1>1. /\ Len(frames) \in Nat \ {0} /\ Top = frames[Len(frames)] /\ Top \in Frame
      /\ DOMAIN frames = 1..Len(frames)
  BY TopOfStack, LenProperties DEF Stacked
<1>2. Top.index \in Indices
  BY <1>1 DEF Frame
<1>3. CASE Len(frames) = 1
  <2>1. Top.ty = Root /\ Top.index = <<>> /\ Top.prefix = Prefix
    BY <1>1, <1>3 DEF Descent
  <2>2. OnPath = {} \cup {Top.ty}
    BY <1>1, <1>3 DEF OnPath
  <2>3. First \subseteq Fields
    BY TreeOfFields
  <2>4. ASSUME NEW n \in Fields, NEW k \in Nat \ {0}, n.at = Append(<<>>, k) PROVE n \in First
    <3>1. ASSUME NEW g \in Groups, n \in Under(g) PROVE FALSE
      <4>1. Len(g.at) \in Nat \ {0} /\ Len(n.at) = Len(g.at) + 1
        BY <3>1, UnderGroup, TreeOfFields DEF Groups
      <4>2. Len(n.at) = Len(<<>>) + 1
        BY <1>2, <2>1, <2>4, LongerPath
      <4>3. Len(g.at) # 0 /\ Len(g.at) \in Nat /\ Len(<<>>) = 0
        BY <4>1
      <4>4. Len(g.at) + 1 # 0 + 1
        BY <4>3
      <4> QED
        BY <4>1, <4>2, <4>3, <4>4
    <3> QED
      BY <3>1, TreeOfFields
  <2> QED
    BY <2>1, <2>2, <2>3, <2>4 DEF First
<1>4. CASE Len(frames) # 1
  <2>1. Len(frames) \in 2..Len(frames)
    BY <1>1, <1>4
  <2>2. PICK g \in Groups :
          /\ g.at = Top.index /\ g.f.ty = Top.ty
          /\ g.prefix \o g.f.prefix = Top.prefix /\ g.around = Around(Len(frames) - 1)
    BY <1>1, <2>1 DEF Descent, Entered
  <2>3. OnPath = Around(Len(frames) - 1) \cup {Top.ty}
    BY <1>1, <1>4 DEF OnPath, Around
  <2>4. Under(g) \subseteq Fields /\ Under(g) = FieldsOf(Top.ty, Top.index, Top.prefix, g.around)
    BY <2>2, TreeOfFields DEF Under
  <2>5. ASSUME NEW n \in Fields, NEW k \in Nat \ {0}, n.at = Append(Top.index, k)
        PROVE  n \in Under(g)
    <3>1. g \in Fields /\ g.at \in Indices /\ Len(g.at) # 0
      BY TreeOfFields DEF Groups, NodeOK
    <3>2. n \notin First
      <4>1. Len(n.at) = Len(g.at) + 1 /\ Len(g.at) \in Nat
        BY <2>2, <2>5, <3>1, LongerPath
      <4>2. Len(n.at) # 1
        BY <3>1, <4>1
      <4> QED
        BY <4>2, OfRoot
    <3>3. PICK h \in Groups : n \in Under(h)
      BY <3>2, TreeOfFields
    <3>4. PICK j \in Nat \ {0} : n.at = Append(h.at, j)
      BY <3>3, UnderGroup
    <3>5. h \in Fields /\ h.at \in Indices
      BY TreeOfFields DEF Groups, NodeOK
    <3>6. h.at = g.at
      <4>1. Child(h.at, j) = Child(g.at, k)
        BY <2>2, <2>5, <3>4 DEF Child
      <4>2. j \in Nat \ {0} /\ k \in Nat \ {0} /\ h.at \in Indices /\ g.at \in Indices
        BY <3>1, <3>5
      <4> QED
        BY <4>1, <4>2, ParentOfChild
    <3>7. h = g
      BY <3>1, <3>5, <3>6, OneFieldAt
    <3> QED
      BY <3>3, <3>7
  <2> QED
    BY <2>2, <2>3, <2>4, <2>5
<1> QED
  BY <1>3, <1>4

Node(k) == [at |-> Append(Top.index, k), f |-> types[Top.ty][k], prefix |-> Top.prefix,
            around |-> OnPath]

LEMMA NodesOfTop ==
    ASSUME Program, Stacked, Descent, NEW k \in Nat \ {0}
    PROVE  \A n : n \in Fields /\ n.at = Append(Top.index, k) <=>
                    /\ k \in 1..Len(types[Top.ty]) /\ n = Node(k)
                    /\ types[Top.ty][k].exported /\ types[Top.ty][k].env # Dash
<1>1. Top.ty \in DOMAIN types /\ Top.index \in Indices /\ Len(types[Top.ty]) \in Nat
  BY TopOfStack DEF Frame
<1>2. PICK around :
        /\ around \cup {Top.ty} = OnPath
        /\ FieldsOf(Top.ty, Top.index, Top.prefix, around) \subseteq Fields
        /\ \A n \in Fields : \A j \in Nat \ {0} :
             n.at = Append(Top.index, j) => n \in FieldsOf(Top.ty, Top.index, Top.prefix, around)
  BY FieldsOfTop
<1>3. ASSUME NEW n
      PROVE  n \in FieldsOf(Top.ty, Top.index, Top.prefix, around) <=>
               \E j \in 1..Len(types[Top.ty]) :
                 n = Node(j) /\ types[Top.ty][j].exported /\ types[Top.ty][j].env # Dash
  <2>1. n \in FieldsOf(Top.ty, Top.index, Top.prefix, around)
          <=> IsField(n, Top.ty, Top.index, Top.prefix, around)
    BY <1>1, FieldsOfAre
  <2> QED
    BY <1>2, <2>1 DEF IsField, Node
<1>4. \A j : Node(j).at = Append(Top.index, j)
  BY DEF Node
<1>5. ASSUME NEW n, n \in Fields, n.at = Append(Top.index, k)
      PROVE  /\ k \in 1..Len(types[Top.ty]) /\ n = Node(k)
             /\ types[Top.ty][k].exported /\ types[Top.ty][k].env # Dash
  <2>1. PICK j \in 1..Len(types[Top.ty]) :
          n = Node(j) /\ types[Top.ty][j].exported /\ types[Top.ty][j].env # Dash
    BY <1>2, <1>3, <1>5
  <2>2. j \in Nat \ {0} /\ n.at = Append(Top.index, j)
    BY <1>1, <1>4, <2>1
  <2>3. j = k
    <3>1. Append(Top.index, j) = Append(Top.index, k)
      BY <1>5, <2>2
    <3> QED
      BY <1>1, <2>2, <3>1, SameParent
  <2> QED
    BY <2>1, <2>3
<1>6. ASSUME NEW n, k \in 1..Len(types[Top.ty]), n = Node(k),
             types[Top.ty][k].exported, types[Top.ty][k].env # Dash
      PROVE  n \in Fields /\ n.at = Append(Top.index, k)
  <2>1. n \in FieldsOf(Top.ty, Top.index, Top.prefix, around)
    BY <1>3, <1>6
  <2> QED
    BY <1>2, <1>4, <1>6, <2>1
<1> QED
  BY <1>5, <1>6

LEMMA FieldsUnderTop ==
    ASSUME Program, Stacked, Descent, NEW n \in Fields
    PROVE  /\ n.at \in Indices /\ Top.index \in Indices
           /\ UnderBlock(n.at, Top.index) =>
                n.at[Len(Top.index) + 1] \in 1..Len(types[Top.ty])
<1>1. n.at \in Indices /\ Top.index \in Indices
  BY TopOfStack, TreeOfFields DEF Frame, NodeOK
<1>2. ASSUME UnderBlock(n.at, Top.index)
      PROVE  n.at[Len(Top.index) + 1] \in 1..Len(types[Top.ty])
  <2> DEFINE k == n.at[Len(Top.index) + 1]
  <2>1. Len(Top.index) < Len(n.at) /\ Len(Top.index) \in Nat /\ Len(n.at) \in Nat
    BY <1>1, <1>2, UnderIs, LenProperties DEF Indices
  <2>2. Len(Top.index) + 1 \in 1..Len(n.at)
    BY <2>1
  <2>3. k \in Nat \ {0}
    BY <1>1, <2>2, ElementOfSeq DEF Indices
  <2> HIDE DEF k
  <2>4. UnderBlock(n.at, Top.index) /\ n.at[Len(Top.index) + 1] = k
    BY <1>2 DEF k
  <2>5. n.at = Append(Top.index, k) \/ UnderBlock(n.at, Append(Top.index, k))
    BY <1>1, <2>3, <2>4, UnderLonger
  <2>6. CASE n.at = Append(Top.index, k)
    BY <2>3, <2>6, NodesOfTop DEF k
  <2>7. CASE UnderBlock(n.at, Append(Top.index, k))
    <3>1. Append(Top.index, k) \in Indices /\ Append(Top.index, k) # <<>>
      BY <1>1, <2>3, LongerPath
    <3>2. PICK g \in Groups : g.at = Append(Top.index, k)
      BY <2>7, <3>1, GroupsAbove
    <3>3. g \in Fields
      BY DEF Groups
    <3> QED
      BY <2>3, <3>2, <3>3, NodesOfTop DEF k
  <2> QED
    BY <2>5, <2>6, <2>7
<1> QED
  BY <1>1, <1>2

(* The fields that the walk has gone past.                                 *)
Done(n) == Before(n.at, Index)

LEMMA HereIs ==
    ASSUME Program, Stacked, Descent, Walking
    PROVE  /\ Index \in Indices /\ Index # <<>> /\ Index = Append(Top.index, Top.at)
           /\ Top.at \in Nat \ {0}
           /\ Node(Top.at) = [at |-> Index, f |-> Field, prefix |-> Top.prefix, around |-> OnPath]
           /\ \A n : n \in Fields /\ n.at = Index <=> ~Unexported /\ n = Node(Top.at)
<1>1. Top.at \in Nat \ {0} /\ Top.index \in Indices /\ Top.at \in 1..Len(types[Top.ty])
  BY TopOfStack DEF Frame, Walking
<1>2. Index \in Indices /\ Index # <<>> /\ Index = Append(Top.index, Top.at)
  <2>1. Index = Append(Top.index, Top.at)
    BY DEF Index
  <2> QED
    BY <1>1, <2>1, LongerPath
<1>3. Node(Top.at) = [at |-> Index, f |-> Field, prefix |-> Top.prefix, around |-> OnPath]
  BY DEF Node, Index, Field
<1>4. Unexported <=> ~types[Top.ty][Top.at].exported \/ types[Top.ty][Top.at].env = Dash
  BY DEF Unexported, Field
<1> QED
  BY <1>1, <1>2, <1>3, <1>4, NodesOfTop

(* The walk goes on in the same struct, past one field that is no group.   *)
LEMMA DoneNext ==
    ASSUME Program, Stacked, Descent, Walking, frames' = NextField,
           \A g \in Groups : g.at # Index
    PROVE  \A n \in Fields : Done(n)' <=> Done(n) \/ n.at = Index
<1>1. Index' = Append(Top.index, Top.at + 1)
  <2>1. /\ Len(frames') = Len(frames) /\ Len(frames) \in 1..Len(frames)
        /\ frames'[Len(frames)].at = Top.at + 1 /\ frames'[Len(frames)].index = Top.index
    BY NextFieldKeeps, TopOfStack
  <2> QED
    BY <2>1 DEF Index, Top, Last
<1>2. SUFFICES ASSUME NEW n \in Fields
               PROVE  Before(n.at, Append(Top.index, Top.at + 1)) <=>
                          Before(n.at, Index) \/ n.at = Index
  BY <1>1 DEF Done
<1>3. /\ Index \in Indices /\ Index # <<>> /\ Index = Append(Top.index, Top.at)
      /\ Top.at \in Nat \ {0} /\ Top.at + 1 \in Nat \ {0}
  BY HereIs
<1>4. /\ n.at \in Indices /\ Top.index \in Indices
      /\ UnderBlock(n.at, Top.index) => n.at[Len(Top.index) + 1] \in Nat
  BY FieldsUnderTop, TopOfStack
<1>5. ~UnderBlock(n.at, Index)
  BY <1>3, GroupsAbove
<1>6. Before(n.at, Append(Top.index, Top.at + 1)) <=>
        \/ Before(n.at, Top.index) \/ n.at = Top.index
        \/ UnderBlock(n.at, Top.index) /\ n.at[Len(Top.index) + 1] < Top.at + 1
  BY <1>3, <1>4, BeforeLonger
<1>7. Before(n.at, Index) <=>
        \/ Before(n.at, Top.index) \/ n.at = Top.index
        \/ UnderBlock(n.at, Top.index) /\ n.at[Len(Top.index) + 1] < Top.at
  BY <1>3, <1>4, BeforeLonger
<1>8. UnderBlock(n.at, Top.index) /\ n.at[Len(Top.index) + 1] = Top.at <=> n.at = Index
  BY <1>3, <1>4, <1>5, UnderLonger
<1> QED
  BY <1>3, <1>4, <1>6, <1>7, <1>8

LEMMA DoneEnters ==
    ASSUME Program, Stacked, Descent, WalkEnters
    PROVE  \A n \in Fields : Done(n)' <=> Done(n) \/ n.at = Index
<1>1. Index' = Append(Index, 1)
  <2>1. Top' = [ty |-> Field.ty, at |-> 1, prefix |-> Top.prefix \o Field.prefix, index |-> Index]
    BY WalkEntersKeeps, TopOfStack DEF Top, Last
  <2> QED
    BY <2>1 DEF Index
<1>2. SUFFICES ASSUME NEW n \in Fields
               PROVE  Before(n.at, Append(Index, 1)) <=> Before(n.at, Index) \/ n.at = Index
  BY <1>1 DEF Done
<1>3. Index \in Indices /\ n.at \in Indices
  BY HereIs, TreeOfFields DEF WalkEnters, NodeOK
<1>4. UnderBlock(n.at, Index) => n.at[Len(Index) + 1] \in Nat \ {0}
  <2> SUFFICES ASSUME UnderBlock(n.at, Index) PROVE n.at[Len(Index) + 1] \in Nat \ {0}
    OBVIOUS
  <2>1. Len(Index) < Len(n.at) /\ Len(Index) \in Nat /\ Len(n.at) \in Nat
    BY <1>3, UnderIs, LenProperties DEF Indices
  <2>2. Len(Index) + 1 \in 1..Len(n.at)
    BY <2>1
  <2> QED
    BY <1>3, <2>2, ElementOfSeq DEF Indices
<1> QED
  BY <1>3, <1>4, BeforeLonger

LEMMA DoneReturns ==
    ASSUME Program, Stacked, Descent, WalkReturns
    PROVE  \A n \in Fields : Done(n)' <=> Done(n)
<1> DEFINE F == frames[Len(frames) - 1]
<1>1. /\ Len(frames) \in 2..Len(frames) /\ Top = frames[Len(frames)] /\ Len(frames) - 1 \in 1..Len(frames)
      /\ Len(frames') = Len(frames) - 1 /\ frames'[Len(frames) - 1] = F
  BY WalkReturnsKeeps, TopOfStack
<1>2. F \in Frame
  BY <1>1, ElementOfSeq DEF Stacked
<1>3. F.index \in Indices /\ F.at \in Nat /\ F.at > 1 /\ Top.index = Append(F.index, F.at - 1)
  BY <1>1, <1>2 DEF Descent, Entered, Frame
<1>4. Index' = Append(F.index, F.at)
  BY <1>1 DEF Index, Top, Last
<1> HIDE DEF F
<1>5. SUFFICES ASSUME NEW n \in Fields
               PROVE  Before(n.at, Append(F.index, F.at)) <=> Before(n.at, Index)
  BY <1>4 DEF Done
<1>6. /\ n.at \in Indices /\ Top.index \in Indices /\ Index = Append(Top.index, Top.at)
      /\ Top.at \in Nat \ {0} /\ Len(types[Top.ty]) \in Nat /\ Top.at > Len(types[Top.ty])
      /\ UnderBlock(n.at, Top.index) => n.at[Len(Top.index) + 1] \in 1..Len(types[Top.ty])
  BY FieldsUnderTop, TopOfStack DEF WalkReturns, Frame, Index
<1>7. UnderBlock(n.at, F.index) => n.at[Len(F.index) + 1] \in Nat \ {0}
  <2> SUFFICES ASSUME UnderBlock(n.at, F.index) PROVE n.at[Len(F.index) + 1] \in Nat \ {0}
    OBVIOUS
  <2>1. Len(F.index) < Len(n.at) /\ Len(F.index) \in Nat /\ Len(n.at) \in Nat
    BY <1>3, <1>6, UnderIs, LenProperties DEF Indices
  <2>2. Len(F.index) + 1 \in 1..Len(n.at)
    BY <2>1
  <2> QED
    BY <1>6, <2>2, ElementOfSeq DEF Indices
<1>8. Before(n.at, Append(F.index, F.at)) <=>
        \/ Before(n.at, F.index) \/ n.at = F.index
        \/ UnderBlock(n.at, F.index) /\ n.at[Len(F.index) + 1] < F.at
  BY <1>3, <1>6, BeforeLonger
<1>9. Before(n.at, Top.index) <=>
        \/ Before(n.at, F.index) \/ n.at = F.index
        \/ UnderBlock(n.at, F.index) /\ n.at[Len(F.index) + 1] < F.at - 1
  BY <1>3, <1>6, BeforeLonger
<1>10. UnderBlock(n.at, F.index) /\ n.at[Len(F.index) + 1] = F.at - 1 <=>
         n.at = Top.index \/ UnderBlock(n.at, Top.index)
  <2>1. F.at - 1 \in Nat \ {0}
    BY <1>3
  <2> DEFINE j == F.at - 1
  <2>2. j \in Nat \ {0} /\ Top.index = Append(F.index, j)
    BY <1>3, <2>1
  <2> HIDE DEF j
  <2>3. UnderBlock(n.at, F.index) /\ n.at[Len(F.index) + 1] = j <=>
          n.at = Append(F.index, j) \/ UnderBlock(n.at, Append(F.index, j))
    BY <1>3, <1>6, <2>2, UnderLonger
  <2> QED
    BY <2>2, <2>3 DEF j
<1>11. Before(n.at, Index) <=>
         \/ Before(n.at, Top.index) \/ n.at = Top.index
         \/ UnderBlock(n.at, Top.index) /\ n.at[Len(Top.index) + 1] < Top.at
  BY <1>6, BeforeLonger
<1>12. UnderBlock(n.at, Top.index) => n.at[Len(Top.index) + 1] < Top.at
  BY <1>6
<1> QED
  BY <1>3, <1>7, <1>8, <1>9, <1>10, <1>11, <1>12

LEMMA DescentInit == Init => Descent
<1> SUFFICES ASSUME Init PROVE Descent
  OBVIOUS
<1>1. /\ frames = <<[ty |-> Root, at |-> 1, prefix |-> Prefix, index |-> <<>>]>>
      /\ Len(frames) = 1
  BY DEF Init
<1>2. frames[1].ty = Root /\ frames[1].index = <<>> /\ frames[1].prefix = Prefix
  BY <1>1
<1> QED
  BY <1>1, <1>2 DEF Descent

LEMMA DescentNext ==
    ASSUME Program, Stacked, Descent, Walking, frames' = NextField, UNCHANGED types
    PROVE  Descent'
<1>1. /\ Len(frames') = Len(frames) /\ Len(frames) \in Nat \ {0}
      /\ \A d \in 1..Len(frames) :
           /\ frames'[d].ty = frames[d].ty /\ frames'[d].prefix = frames[d].prefix
           /\ frames'[d].index = frames[d].index
           /\ d # Len(frames) => frames'[d] = frames[d]
  BY NextFieldKeeps, TopOfStack
<1>2. 1 \in 1..Len(frames)
  BY <1>1
<1>3. ASSUME NEW d \in 2..Len(frames') PROVE Entered(d)'
  <2>1. d \in 2..Len(frames) /\ d \in 1..Len(frames) /\ d - 1 \in 1..Len(frames) /\ d - 1 # Len(frames)
    BY <1>1
  <2>2. frames'[d - 1] = frames[d - 1]
    BY <1>1, <2>1
  <2>3. Around(d - 1)' = Around(d - 1)
    BY <1>1, <2>1 DEF Around
  <2>4. Groups' = Groups
    BY TreeStays
  <2>5. Entered(d)
    BY <2>1 DEF Descent
  <2> QED
    BY <1>1, <2>1, <2>2, <2>3, <2>4, <2>5 DEF Entered
<1> QED
  BY <1>1, <1>2, <1>3 DEF Descent

LEMMA DescentReturns ==
    ASSUME Program, Stacked, Descent, WalkReturns
    PROVE  Descent'
<1>1. /\ Len(frames') = Len(frames) - 1 /\ Len(frames) - 1 \in Nat \ {0}
      /\ \A d \in 1..Len(frames) - 1 : frames'[d] = frames[d]
  BY WalkReturnsKeeps
<1>2. 1 \in 1..Len(frames) - 1
  BY <1>1
<1>3. ASSUME NEW d \in 2..Len(frames') PROVE Entered(d)'
  <2>1. d \in 2..Len(frames) /\ d \in 1..Len(frames) - 1 /\ d - 1 \in 1..Len(frames) - 1
    BY <1>1
  <2>2. frames'[d - 1] = frames[d - 1] /\ frames'[d] = frames[d]
    BY <1>1, <2>1
  <2>3. Around(d - 1)' = Around(d - 1)
    BY <1>1, <2>1 DEF Around
  <2>4. Groups' = Groups
    BY TreeStays DEF WalkReturns, program
  <2>5. Entered(d)
    BY <2>1 DEF Descent
  <2> QED
    BY <2>1, <2>2, <2>3, <2>4, <2>5 DEF Entered
<1> QED
  BY <1>1, <1>2, <1>3 DEF Descent

LEMMA EntersGroup ==
    ASSUME Program, Stacked, Descent, WalkEnters
    PROVE  Node(Top.at) \in Groups
<1>1. /\ Walking /\ ~Unexported /\ Nested(Field) /\ Field.prefix # NoTag
      /\ Field.env = NoTag /\ Field.ty \notin OnPath
  BY WalkEntersKeeps DEF WalkEnters, Faulty
<1>2. /\ Node(Top.at) \in Fields
      /\ Node(Top.at) = [at |-> Index, f |-> Field, prefix |-> Top.prefix, around |-> OnPath]
  BY <1>1, HereIs
<1> QED
  BY <1>1, <1>2 DEF Groups, IsGroup

LEMMA DescentEnters ==
    ASSUME Program, Stacked, Descent, WalkEnters
    PROVE  Descent'
<1>0. PICK k \in Nat : k = Len(frames) + 1
  BY TopOfStack
<1>1. /\ Len(frames') = k /\ Len(frames) \in Nat \ {0} /\ k - 1 = Len(frames)
      /\ \A d \in 1..Len(frames) :
           /\ frames'[d].ty = frames[d].ty /\ frames'[d].prefix = frames[d].prefix
           /\ frames'[d].index = frames[d].index
           /\ d # Len(frames) => frames'[d] = frames[d]
      /\ frames'[Len(frames)].at = Top.at + 1
      /\ Top = frames[Len(frames)] /\ Top.at \in Nat \ {0} /\ Len(frames) \in 1..Len(frames)
  BY <1>0, WalkEntersKeeps, NextFieldKeeps, TopOfStack, HereIs DEF WalkEnters
<1>7. frames'[k] = [ty |-> Field.ty, at |-> 1, prefix |-> Top.prefix \o Field.prefix,
                    index |-> Index]
  BY <1>0, WalkEntersKeeps
<1>2. Groups' = Groups
  BY TreeStays DEF WalkEnters, program
<1>3. ASSUME NEW d \in 2..k - 1 PROVE Entered(d)'
  <2>1. d \in 1..Len(frames) /\ d - 1 \in 1..Len(frames) /\ d - 1 # Len(frames)
    BY <1>1
  <2>2. frames'[d - 1] = frames[d - 1]
    BY <1>1, <2>1
  <2>3. Around(d - 1)' = Around(d - 1)
    <3>1. \A e \in 1..d - 1 : frames'[e].ty = frames[e].ty
      BY <1>1, <2>1
    <3> QED
      BY <3>1 DEF Around
  <2>4. Entered(d)
    BY <1>1 DEF Descent
  <2>5. frames'[d].index = frames[d].index /\ frames'[d].ty = frames[d].ty
        /\ frames'[d].prefix = frames[d].prefix
    BY <1>1, <2>1
  <2> QED
    BY <1>2, <2>2, <2>3, <2>4, <2>5 DEF Entered
<1>4. Entered(k)'
  <2>1. /\ Node(Top.at) \in Groups
        /\ Node(Top.at) = [at |-> Index, f |-> Field, prefix |-> Top.prefix, around |-> OnPath]
    BY EntersGroup, HereIs DEF WalkEnters
  <2>2. \A e \in 1..k - 1 : frames'[e].ty = frames[e].ty
    BY <1>1
  <2>3. DOMAIN frames = 1..k - 1
    BY <1>1, LenProperties DEF Stacked
  <2>4. OnPath = Around(k - 1)'
    BY <2>2, <2>3 DEF OnPath, Around
  <2>6. /\ frames'[k].index = Index /\ frames'[k].ty = Field.ty
        /\ frames'[k].prefix = Top.prefix \o Field.prefix
    <3> DEFINE r == [ty |-> Field.ty, at |-> 1, prefix |-> Top.prefix \o Field.prefix,
                     index |-> Index]
    <3>1. r.index = Index /\ r.ty = Field.ty /\ r.prefix = Top.prefix \o Field.prefix
      OBVIOUS
    <3>2. frames'[k] = r
      BY <1>7
    <3> HIDE DEF r
    <3> QED
      BY <3>1, <3>2
  <2>7. frames'[k - 1].at > 1 /\ frames'[k - 1].at - 1 = Top.at
        /\ frames'[k - 1].index = Top.index /\ frames'[k - 1].prefix = Top.prefix
    BY <1>1
  <2>8. Index = Append(frames'[k - 1].index, frames'[k - 1].at - 1)
    BY <2>7 DEF Index
  <2>9. \E g \in Groups' : /\ g.at = Index /\ g.f = Field /\ g.prefix = Top.prefix /\ g.around = OnPath
    BY <1>2, <2>1
  <2> QED
    BY <2>4, <2>6, <2>7, <2>8, <2>9 DEF Entered
<1>5. \A d \in 2..Len(frames') : d \in 2..k - 1 \/ d = k
  BY <1>1
<1>6. frames'[1].ty = Root /\ frames'[1].index = <<>> /\ frames'[1].prefix = Prefix
  BY <1>1 DEF Descent
<1> QED
  BY <1>3, <1>4, <1>5, <1>6 DEF Descent

LEMMA DescentStep ==
    Program /\ Stacked /\ Descent /\ [Next]_vars => Descent'
<1> SUFFICES ASSUME Program, Stacked, Descent, [Next]_vars PROVE Descent'
  OBVIOUS
<1>1. UNCHANGED types
  BY ProgramStep DEF program
<1>2. CASE WalkSkips \/ WalkRejects \/ WalkBinds
  BY <1>1, <1>2, DescentNext DEF WalkSkips, WalkRejects, WalkBinds
<1>3. CASE WalkEnters
  BY <1>3, DescentEnters
<1>4. CASE WalkReturns
  BY <1>4, DescentReturns
<1>5. CASE UNCHANGED frames
  <2>1. Groups' = Groups
    BY <1>1, TreeStays
  <2>2. ASSUME NEW d \in 2..Len(frames) PROVE Entered(d)'
    <3>1. Around(d - 1)' = Around(d - 1)
      BY <1>5 DEF Around
    <3>2. Entered(d)
      BY DEF Descent
    <3> QED
      BY <1>5, <2>1, <3>1, <3>2 DEF Entered
  <2> QED
    BY <1>5, <2>2 DEF Descent
<1>6. ASSUME SkipLine \/ BadLine \/ Assign \/ LoadBegins \/ WalkEnds \/ Resolve \/ DecodeSkips
             \/ DecodeMisses \/ Decode \/ DecodeEnds \/ Validate \/ Finished \/ UNCHANGED vars
      PROVE  UNCHANGED frames
  BY <1>6 DEF SkipLine, BadLine, Assign, LoadBegins, WalkEnds, Resolve, DecodeSkips,
              DecodeMisses, Decode, DecodeEnds, Validate, Finished, vars, plan
<1> QED
  BY <1>2, <1>3, <1>4, <1>5, <1>6 DEF Next

-----------------------------------------------------------------------------
(* What the walk has made of the fields that it has gone past.             *)
BindingOf(n) == [index |-> n.at, env |-> KeyOf(n), def |-> n.f.def, ptr |-> n.f.ptr]

Past(nodes) == {n \in nodes : Done(n)}
Faults      == Fields \ (Groups \cup Owners)

Planned ==
    /\ ToSet(bindings) = {BindingOf(n) : n \in Past(Owners)}
    /\ \A n \in Past(Readable) : Claimed(KeyOf(n))
    /\ \A a, b \in 1..Len(bindings) : bindings[a].index = bindings[b].index => a = b
    /\ ToSet(blocks) = {g.at : g \in {g \in Past(Groups) : g.f.ptr}}
    /\ pc \in {"dotenv", "walk"} => violations = {<<"schema", n.at>> : n \in Past(Faults)}

LEMMA Trees ==
    /\ Groups \subseteq Fields /\ Owners \subseteq Readable /\ Readable \subseteq Fields
    /\ Groups \cap Readable = {} /\ Faults \subseteq Fields
  BY DEF Groups, Owners, Readable, IsGroup, Faults

(* The verdict of the walk on the field that it is at.                     *)
LEMMA Judged ==
    ASSUME Program, Stacked, Descent, Planned, Walking, ~Unexported
    PROVE  LET n == Node(Top.at) IN
           /\ n \in Fields /\ n.at = Index /\ ~Done(n) /\ n.f = Field /\ KeyOf(n) = Key
           /\ n \in Groups <=> ~Faulty /\ Nested(Field)
           /\ n \in Owners <=> ~Faulty /\ ~Nested(Field)
           /\ n \in Readable => n \in Owners \/ Claimed(Key)
<1> DEFINE n == Node(Top.at)
<1>0. n = Node(Top.at)
  OBVIOUS
<1> HIDE DEF n
<1>1. /\ n \in Fields /\ Index \in Indices
      /\ n = [at |-> Index, f |-> Field, prefix |-> Top.prefix, around |-> OnPath]
  BY <1>0, HereIs
<1>2. /\ n.at = Index /\ n.f = Field /\ KeyOf(n) = Key /\ n.around = OnPath
  BY <1>1 DEF KeyOf, Key
<1>3. ~Done(n)
  BY <1>1, <1>2, NotBeforeItself DEF Done
<1>4. n \in Groups <=> ~Faulty /\ Nested(Field)
  BY <1>1, <1>2, PathIsActive DEF Groups, IsGroup, Faulty
<1>5. n \in Readable <=> /\ ~Nested(Field) /\ Field.prefix = NoTag /\ HasKey /\ Field.supported
  BY <1>1, <1>2 DEF Readable, HasKey
<1>6. \A m \in Readable : Done(m) <=> Earlier(m.at, Index)
  <2> SUFFICES ASSUME NEW m \in Readable, UnderBlock(Index, m.at) PROVE FALSE
    BY DEF Done, Before
  <2>1. m \in Fields /\ m.at \in Indices /\ Len(m.at) \in Nat \ {0}
    BY Trees, TreeOfFields DEF NodeOK
  <2>2. m.at # <<>>
    BY <2>1, EmptySeq
  <2>3. PICK g \in Groups : g.at = m.at
    BY <1>1, <1>2, <2>1, <2>2, GroupsAbove
  <2>4. g = m
    BY <2>1, <2>3, Trees, OneFieldAt
  <2> QED
    BY <2>3, <2>4, Trees
<1>7. n \in Owners <=> n \in Readable /\ ~Claimed(Key)
  <2>1. ASSUME n \in Readable, Claimed(Key) PROVE n \notin Owners
    <3>1. PICK b \in ToSet(bindings) : b.env = Key
      BY <2>1 DEF Claimed
    <3>2. PICK m \in Past(Owners) : b = BindingOf(m)
      BY <3>1 DEF Planned
    <3>3. KeyOf(m) = Key
      BY <3>1, <3>2 DEF BindingOf
    <3>4. m \in Readable /\ Earlier(m.at, Index)
      BY <1>6, <3>2, Trees DEF Past
    <3> QED
      BY <1>2, <3>3, <3>4 DEF Owners
  <2>2. ASSUME n \in Readable, n \notin Owners PROVE Claimed(Key)
    <3>1. PICK m \in Readable : KeyOf(m) = Key /\ Earlier(m.at, Index)
      BY <1>2, <2>2 DEF Owners
    <3>2. m \in Past(Readable)
      BY <1>6, <3>1 DEF Past
    <3> QED
      BY <3>1, <3>2 DEF Planned
  <2> QED
    BY <2>1, <2>2, Trees
<1>8. n \in Owners <=> ~Faulty /\ ~Nested(Field)
  BY <1>5, <1>7 DEF Faulty, HasKey
<1> QED
  BY <1>1, <1>2, <1>3, <1>4, <1>7, <1>8, Trees DEF n

LEMMA DoneFirst ==
    ASSUME Program, Init, NEW n \in Fields
    PROVE  ~Done(n)
<1>1. Stacked /\ Descent
  BY StackedInit, DescentInit
<1>2. frames = <<[ty |-> Root, at |-> 1, prefix |-> Prefix, index |-> <<>>]>>
  BY DEF Init
<1>3. Len(frames) = 1 /\ frames[1].at = 1 /\ frames[1].index = <<>>
  BY <1>2
<1>4. Top.at = 1 /\ Top.index = <<>>
  BY <1>3 DEF Top, Last
<1>5. /\ n.at \in Indices /\ Len(n.at) \in Nat \ {0} /\ <<>> \in Indices /\ Len(<<>>) = 0
      /\ DOMAIN <<>> = {}
  BY TreeOfFields, EmptySeq DEF NodeOK, Indices
<1>6. UnderBlock(n.at, <<>>) => n.at[1] \in 1..Len(types[Top.ty])
  BY <1>1, <1>4, <1>5, FieldsUnderTop
<1>7. Before(n.at, Append(<<>>, 1)) <=>
        \/ Before(n.at, <<>>) \/ n.at = <<>>
        \/ UnderBlock(n.at, <<>>) /\ n.at[1] < 1
  <2>1. PICK p \in Indices : p = <<>> /\ Len(p) = 0
    BY <1>5
  <2>2. PICK k \in Nat \ {0} : k = 1
    OBVIOUS
  <2>3. PICK m \in Indices : m = n.at
    BY <1>5
  <2>4. Before(m, Append(p, k)) <=>
          \/ Before(m, p) \/ m = p
          \/ UnderBlock(m, p) /\ m[Len(p) + 1] < k
    BY BeforeLonger
  <2>5. Len(p) + 1 = 1
    BY <2>1
  <2> QED
    BY <2>1, <2>2, <2>3, <2>4, <2>5
<1>8. ~Before(n.at, <<>>)
  <2>1. ~Earlier(n.at, <<>>)
    BY <1>5 DEF Earlier
  <2>2. ~UnderBlock(<<>>, n.at)
    BY <1>5, UnderIs
  <2> QED
    BY <2>1, <2>2 DEF Before
<1>9. Index = Append(<<>>, 1)
  BY <1>4 DEF Index
<1>10. n.at # <<>> /\ Len(types[Top.ty]) \in Nat
  BY <1>1, <1>5, TopOfStack
<1> QED
  BY <1>6, <1>7, <1>8, <1>9, <1>10 DEF Done


LEMMA PlannedInit == Program /\ Init => Planned
<1> SUFFICES ASSUME Program, Init PROVE Planned
  OBVIOUS
<1>1. Past(Owners) = {} /\ Past(Readable) = {} /\ Past(Groups) = {} /\ Past(Faults) = {}
  BY DoneFirst, Trees DEF Past
<1>2. bindings = <<>> /\ blocks = <<>> /\ violations = {}
  BY DEF Init
<1>3. ToSet(<<>>) = {} /\ Len(<<>>) = 0
  BY EmptySeq DEF ToSet
<1>4. ToSet(bindings) = {} /\ ToSet(blocks) = {} /\ Len(bindings) = 0
  BY <1>2, <1>3
<1> QED
  BY <1>1, <1>2, <1>4 DEF Planned

(* A step that leaves the fields behind it, and the plan, as they were.    *)
LEMMA PlannedStays ==
    ASSUME Program, Planned, UNCHANGED <<types, bindings, blocks>>,
           \A n \in Fields : Done(n)' <=> Done(n),
           pc' \in {"dotenv", "walk"} => pc \in {"dotenv", "walk"} /\ UNCHANGED violations
    PROVE  Planned'
<1>1. /\ Fields' = Fields /\ Groups' = Groups /\ Readable' = Readable /\ Owners' = Owners
      /\ Faults' = Faults
  BY TreeStays DEF Faults
<1>2. /\ Past(Owners)' = Past(Owners) /\ Past(Readable)' = Past(Readable)
      /\ Past(Groups)' = Past(Groups) /\ Past(Faults)' = Past(Faults)
  BY <1>1, Trees DEF Past
<1>3. \A key : Claimed(key)' = Claimed(key)
  BY DEF Claimed
<1>4. \A n : BindingOf(n)' = BindingOf(n) /\ KeyOf(n)' = KeyOf(n)
  BY DEF BindingOf, KeyOf
<1> QED
  BY <1>2, <1>3, <1>4 DEF Planned

LEMMA ToSetAppend ==
    ASSUME NEW S, NEW s \in Seq(S), NEW x \in S
    PROVE  ToSet(Append(s, x)) = ToSet(s) \cup {x}
<1>1. /\ Append(s, x) \in Seq(S) /\ Len(Append(s, x)) = Len(s) + 1 /\ Len(s) \in Nat
      /\ \A k \in 1..Len(s) : Append(s, x)[k] = s[k]
      /\ Append(s, x)[Len(s) + 1] = x
      /\ DOMAIN Append(s, x) = 1..Len(s) + 1 /\ DOMAIN s = 1..Len(s)
  BY AppendProperties, LenProperties
<1>2. DOMAIN Append(s, x) = DOMAIN s \cup {Len(s) + 1}
  BY <1>1
<1> QED
  BY <1>1, <1>2 DEF ToSet

(* A step past the field n, and no other.                                  *)
LEMMA PastGrows ==
    ASSUME Program, UNCHANGED types, NEW n \in Fields,
           \A m \in Fields : Done(m)' <=> Done(m) \/ m.at = n.at
    PROVE  /\ Past(Owners)' = Past(Owners) \cup ({n} \cap Owners)
           /\ Past(Readable)' = Past(Readable) \cup ({n} \cap Readable)
           /\ Past(Groups)' = Past(Groups) \cup ({n} \cap Groups)
           /\ Past(Faults)' = Past(Faults) \cup ({n} \cap Faults)
<1>1. /\ Fields' = Fields /\ Groups' = Groups /\ Readable' = Readable /\ Owners' = Owners
      /\ Faults' = Faults
  BY TreeStays DEF Faults
<1>2. \A m \in Fields : Done(m)' <=> Done(m) \/ m = n
  BY OneFieldAt
<1> QED
  BY <1>1, <1>2, Trees DEF Past

LEMMA PlannedSkips ==
    ASSUME Program, Stacked, Descent, Planned, WalkSkips
    PROVE  Planned'
<1>1. /\ Walking /\ Unexported /\ frames' = NextField
      /\ UNCHANGED <<types, pc, bindings, blocks, violations>>
  BY DEF WalkSkips, program
<1>2. \A n \in Fields : n.at # Index
  BY <1>1, HereIs
<1>3. \A n \in Fields : Done(n)' <=> Done(n)
  BY <1>1, <1>2, Trees, DoneNext
<1> QED
  BY <1>1, <1>3, PlannedStays

LEMMA PlannedRejects ==
    ASSUME Program, Stacked, Descent, Planned, WalkRejects
    PROVE  Planned'
<1>1. /\ Walking /\ ~Unexported /\ Faulty /\ frames' = NextField
      /\ violations' = violations \cup {<<"schema", Index>>}
      /\ UNCHANGED <<types, pc, bindings, blocks>>
  BY DEF WalkRejects, program
<1>2. PICK n : n = Node(Top.at)
  OBVIOUS
<1>3. /\ n \in Fields /\ n.at = Index /\ KeyOf(n) = Key
      /\ n \notin Groups /\ n \notin Owners /\ (n \in Readable => Claimed(Key))
  BY <1>1, <1>2, Judged
<1>4. \A m \in Fields : m.at = Index => m = n
  BY <1>3, OneFieldAt
<1>5. \A m \in Fields : Done(m)' <=> Done(m) \/ m.at = n.at
  BY <1>1, <1>3, <1>4, Trees, DoneNext
<1>6. /\ Past(Owners)' = Past(Owners)
      /\ Past(Readable)' = Past(Readable) \cup ({n} \cap Readable)
      /\ Past(Groups)' = Past(Groups)
      /\ Past(Faults)' = Past(Faults) \cup {n}
  <2>1. /\ Past(Owners)' = Past(Owners) \cup ({n} \cap Owners)
        /\ Past(Readable)' = Past(Readable) \cup ({n} \cap Readable)
        /\ Past(Groups)' = Past(Groups) \cup ({n} \cap Groups)
        /\ Past(Faults)' = Past(Faults) \cup ({n} \cap Faults)
    BY <1>1, <1>3, <1>5, PastGrows
  <2>2. n \in Faults
    BY <1>3 DEF Faults
  <2> QED
    BY <1>3, <2>1, <2>2
<1>7. \A key : Claimed(key)' = Claimed(key)
  BY <1>1 DEF Claimed
<1>8. \A m : BindingOf(m)' = BindingOf(m) /\ KeyOf(m)' = KeyOf(m)
  BY DEF BindingOf, KeyOf
<1>9. pc = "walk"
  BY <1>1 DEF Walking
<1>10. violations' = {<<"schema", m.at>> : m \in Past(Faults)'}
  BY <1>1, <1>3, <1>6, <1>9 DEF Planned
<1>11. \A m \in Past(Readable)' : Claimed(KeyOf(m))
  BY <1>3, <1>6 DEF Planned
<1> QED
  BY <1>1, <1>6, <1>7, <1>8, <1>10, <1>11 DEF Planned

LEMMA PlannedEnters ==
    ASSUME Program, Stacked, Descent, Planned, Typed, WalkEnters
    PROVE  Planned'
<1>1. /\ Walking /\ ~Unexported /\ ~Faulty /\ Nested(Field)
      /\ blocks' = IF Field.ptr THEN Append(blocks, Index) ELSE blocks
      /\ UNCHANGED <<types, pc, bindings, violations>>
  BY DEF WalkEnters, program
<1>2. PICK n : n = Node(Top.at)
  OBVIOUS
<1>3. /\ n \in Fields /\ n.at = Index /\ n.f = Field
      /\ n \in Groups /\ n \notin Owners /\ n \notin Readable
  BY <1>1, <1>2, Judged, Trees
<1>4. \A m \in Fields : Done(m)' <=> Done(m) \/ m.at = n.at
  BY <1>3, DoneEnters
<1>5. /\ Past(Owners)' = Past(Owners) /\ Past(Readable)' = Past(Readable)
      /\ Past(Groups)' = Past(Groups) \cup {n} /\ Past(Faults)' = Past(Faults)
  <2>1. /\ Past(Owners)' = Past(Owners) \cup ({n} \cap Owners)
        /\ Past(Readable)' = Past(Readable) \cup ({n} \cap Readable)
        /\ Past(Groups)' = Past(Groups) \cup ({n} \cap Groups)
        /\ Past(Faults)' = Past(Faults) \cup ({n} \cap Faults)
    BY <1>1, <1>3, <1>4, PastGrows
  <2>2. n \notin Faults
    BY <1>3 DEF Faults
  <2> QED
    BY <1>3, <2>1, <2>2
<1>6. \A key : Claimed(key)' = Claimed(key)
  BY <1>1 DEF Claimed
<1>7. \A m : BindingOf(m)' = BindingOf(m) /\ KeyOf(m)' = KeyOf(m)
  BY DEF BindingOf, KeyOf
<1>8. ToSet(blocks') = {g.at : g \in {g \in Past(Groups)' : g.f.ptr}}
  <2>1. CASE Field.ptr
    <3>1. blocks \in Seq(Indices) /\ Index \in Indices
      BY <1>1, HereIs DEF Typed, PlanTyped
    <3>2. ToSet(blocks') = ToSet(blocks) \cup {Index}
      BY <1>1, <2>1, <3>1, ToSetAppend
    <3> QED
      BY <1>3, <1>5, <2>1, <3>2 DEF Planned
  <2>2. CASE ~Field.ptr
    BY <1>1, <1>3, <1>5, <2>2 DEF Planned
  <2> QED
    BY <2>1, <2>2
<1> QED
  BY <1>1, <1>5, <1>6, <1>7, <1>8 DEF Planned

LEMMA PlannedBinds ==
    ASSUME Program, Stacked, Descent, Planned, Typed, WalkBinds
    PROVE  Planned'
<1>1. /\ Walking /\ ~Unexported /\ ~Faulty /\ ~Nested(Field) /\ frames' = NextField
      /\ bindings' = Append(bindings, [index |-> Index, env |-> Key,
                                       def |-> Field.def, ptr |-> Field.ptr])
      /\ UNCHANGED <<types, pc, blocks, violations>>
  BY DEF WalkBinds, program
<1>2. PICK n : n = Node(Top.at)
  OBVIOUS
<1>3. /\ n \in Fields /\ n.at = Index /\ n.f = Field /\ KeyOf(n) = Key
      /\ n \notin Groups /\ n \in Owners /\ n \in Readable /\ ~Done(n)
  BY <1>1, <1>2, Judged, Trees
<1>4. \A m \in Fields : m.at = Index => m = n
  BY <1>3, OneFieldAt
<1>5. \A m \in Fields : Done(m)' <=> Done(m) \/ m.at = n.at
  BY <1>1, <1>3, <1>4, Trees, DoneNext
<1>6. /\ Past(Owners)' = Past(Owners) \cup {n}
      /\ Past(Readable)' = Past(Readable) \cup {n}
      /\ Past(Groups)' = Past(Groups) /\ Past(Faults)' = Past(Faults)
  <2>1. /\ Past(Owners)' = Past(Owners) \cup ({n} \cap Owners)
        /\ Past(Readable)' = Past(Readable) \cup ({n} \cap Readable)
        /\ Past(Groups)' = Past(Groups) \cup ({n} \cap Groups)
        /\ Past(Faults)' = Past(Faults) \cup ({n} \cap Faults)
    BY <1>1, <1>3, <1>5, PastGrows
  <2>2. n \notin Faults
    BY <1>3 DEF Faults
  <2> QED
    BY <1>3, <2>1, <2>2
<1>7. \A m : BindingOf(m)' = BindingOf(m) /\ KeyOf(m)' = KeyOf(m)
  BY DEF BindingOf, KeyOf
<1>8. /\ bindings' = Append(bindings, BindingOf(n)) /\ bindings \in Seq(Binding)
      /\ BindingOf(n).index = n.at /\ BindingOf(n).env = Key
  BY <1>1, <1>3 DEF BindingOf, Typed, PlanTyped
<1>9. BindingOf(n) \in Binding
  <2>1. /\ n.at \in Indices /\ n.prefix \in Keys /\ n.f \in Bare /\ n.f.env # Dash
    BY <1>3, TreeOfFields DEF NodeOK
  <2>2. n.f.env \in Keys
    BY <1>3, <2>1 DEF Readable, Bare
  <2>3. KeyOf(n) \in Keys
    BY <2>1, <2>2, ConcatProperties DEF KeyOf, Keys
  <2> QED
    BY <2>1, <2>3 DEF BindingOf, Binding, Bare
<1>10. ToSet(bindings') = ToSet(bindings) \cup {BindingOf(n)}
  BY <1>8, <1>9, ToSetAppend
<1>11. ToSet(bindings') = {BindingOf(m) : m \in Past(Owners)'}
  BY <1>6, <1>10 DEF Planned
<1>12. \A m \in Past(Readable)' : Claimed(KeyOf(m))'
  <2>1. \A m \in Past(Readable)' : m \in Past(Readable) \/ m = n
    BY <1>6
  <2>2. \A m \in Past(Readable) : Claimed(KeyOf(m))'
    BY <1>10 DEF Planned, Claimed, KeyOf
  <2>3. Claimed(KeyOf(n))'
    BY <1>3, <1>8, <1>10 DEF Claimed, KeyOf
  <2> QED
    BY <2>1, <2>2, <2>3
<1>13. \A a, b \in 1..Len(bindings') : bindings'[a].index = bindings'[b].index => a = b
  <2>1. /\ Len(bindings') = Len(bindings) + 1 /\ Len(bindings) \in Nat
        /\ \A a \in 1..Len(bindings) : bindings'[a] = bindings[a] /\ bindings[a] \in ToSet(bindings)
        /\ bindings'[Len(bindings) + 1] = BindingOf(n)
    BY <1>8, <1>9, AppendProperties, LenProperties DEF ToSet
  <2>2. \A a \in 1..Len(bindings) : bindings[a].index # n.at
    <3> SUFFICES ASSUME NEW a \in 1..Len(bindings), bindings[a].index = n.at PROVE FALSE
      OBVIOUS
    <3>1. PICK m \in Past(Owners) : bindings[a] = BindingOf(m)
      BY <2>1 DEF Planned
    <3>2. m.at = n.at /\ m \in Fields /\ Done(m)
      BY <3>1, Trees DEF BindingOf, Past
    <3> QED
      BY <1>3, <3>2, OneFieldAt
  <2>3. \A a \in 1..Len(bindings') : a \in 1..Len(bindings) \/ a = Len(bindings) + 1
    BY <2>1
  <2> QED
    BY <1>8, <2>1, <2>2, <2>3 DEF Planned
<1> QED
  BY <1>1, <1>6, <1>7, <1>11, <1>12, <1>13 DEF Planned

LEMMA PlannedStep ==
    Program /\ Stacked /\ Descent /\ Typed /\ Planned /\ [Next]_vars => Planned'
<1> SUFFICES ASSUME Program, Stacked, Descent, Typed, Planned, [Next]_vars PROVE Planned'
  OBVIOUS
<1>1. CASE WalkSkips
  BY <1>1, PlannedSkips
<1>2. CASE WalkRejects
  BY <1>2, PlannedRejects
<1>3. CASE WalkEnters
  BY <1>3, PlannedEnters
<1>4. CASE WalkBinds
  BY <1>4, PlannedBinds
<1>5. CASE WalkReturns
  BY <1>5, DoneReturns, PlannedStays DEF WalkReturns, program
<1>6. ASSUME SkipLine \/ BadLine \/ Assign \/ LoadBegins \/ WalkEnds \/ Resolve \/ DecodeSkips
             \/ DecodeMisses \/ Decode \/ DecodeEnds \/ Validate \/ Finished \/ UNCHANGED vars
      PROVE  Planned'
  <2>1. UNCHANGED <<types, frames, bindings, blocks>>
    BY <1>6 DEF SkipLine, BadLine, Assign, LoadBegins, WalkEnds, Resolve, DecodeSkips,
              DecodeMisses, Decode, DecodeEnds, Validate, Finished, vars, plan, program
  <2>2. pc' \in {"dotenv", "walk"} => pc \in {"dotenv", "walk"} /\ UNCHANGED violations
    BY <1>6 DEF SkipLine, BadLine, Assign, LoadBegins, WalkEnds, Resolve, DecodeSkips,
              DecodeMisses, Decode, DecodeEnds, Validate, Finished, vars, Decoding
  <2>3. \A n \in Fields : Done(n)' <=> Done(n)
    BY <2>1 DEF Done, Index, Top, Last
  <2> QED
    BY <2>1, <2>2, <2>3, PlannedStays
<1> QED
  BY <1>1, <1>2, <1>3, <1>4, <1>5, <1>6 DEF Next


LEMMA PlanInvariant == Spec => [](Program /\ Stacked /\ Typed /\ Descent /\ Planned)
<1>1. Init => Program /\ Stacked /\ Typed /\ Descent /\ Planned
  BY ProgramInit, StackedInit, TypedInit, DescentInit, PlannedInit
<1>2. Program /\ Stacked /\ Typed /\ Descent /\ Planned /\ [Next]_vars => (Descent /\ Planned)'
  BY DescentStep, PlannedStep
<1> QED
  BY <1>1, <1>2, TypedInvariant, PTL DEF Spec

(* The walk ends when it has gone past every field.                        *)
Walked == \A n \in Fields : Done(n)

LEMMA WalkedAtTheEnd ==
    ASSUME Program, Stacked, Descent, Top.at > Len(types[Top.ty]), Len(frames) = 1
    PROVE  Walked
<1> SUFFICES ASSUME NEW n \in Fields PROVE Done(n)
  BY DEF Walked
<1>1. /\ Top.index \in Indices /\ Len(Top.index) = 0 /\ Top.at \in Nat \ {0}
      /\ Len(types[Top.ty]) \in Nat
  <2>1. Top.index = <<>>
    BY TopOfStack DEF Descent
  <2> QED
    BY <2>1, TopOfStack, EmptySeq DEF Frame
<1>2. n.at \in Indices /\ Len(n.at) \in Nat \ {0}
  BY TreeOfFields DEF NodeOK
<1>3. UnderBlock(n.at, Top.index)
  BY <1>1, <1>2, UnderIs
<1>4. n.at[Len(Top.index) + 1] < Top.at
  <2>1. n.at[Len(Top.index) + 1] \in 1..Len(types[Top.ty])
    BY <1>3, FieldsUnderTop
  <2> QED
    BY <1>1, <2>1
<1> QED
  BY <1>1, <1>2, <1>3, <1>4, BeforeLonger DEF Done, Index

-----------------------------------------------------------------------------
(* What Dotenv has made of the lines that it has read.                     *)
Assigns(a, key) == file[a].form = "assign" /\ file[a].key = key

Kept(a) ==
    /\ file[a].form \in {"blank", "assign"}
    /\ file[a].form = "assign" =>
         /\ file[a].val # "open"
         /\ file[a].key \in DOMAIN dot /\ dot[file[a].key] = file[a].val
         /\ \A b \in 1..a - 1 : ~Assigns(b, file[a].key)

SourceRead ==
    /\ \A a \in 1..line - 1 : Kept(a)
    /\ \A key \in DOMAIN dot : \E a \in 1..line - 1 : Assigns(a, key)
    /\ pc = "dotenv" \/ outcome = "no source" \/ line = Len(file) + 1
    /\ pc = "done" \/ outcome = "none"

LEMMA SourceReadInit == Program /\ Init => SourceRead
<1> SUFFICES ASSUME Program, Init PROVE SourceRead
  OBVIOUS
<1>1. DOMAIN <<>> = {}
  BY EmptySeq
<1>2. line = 1 /\ DOMAIN dot = {} /\ pc = "dotenv" /\ outcome = "none"
  BY <1>1 DEF Init
<1> QED
  BY <1>2 DEF SourceRead

LEMMA LineAt ==
    ASSUME Program, Typed, line <= Len(file)
    PROVE  /\ line \in 1..Len(file) /\ line \in DOMAIN file /\ file[line] \in FileLine
           /\ line \in Nat /\ 1..line = (1..line - 1) \cup {line}
<1>1. line \in 1..Len(file) + 1 /\ Len(file) \in Nat /\ DOMAIN file = 1..Len(file)
  BY LenProperties DEF Typed, SourceTyped, Program
<1>2. line \in 1..Len(file)
  BY <1>1
<1> QED
  BY <1>1, <1>2, ElementOfSeq DEF Program

LEMMA SourceReadStep ==
    Program /\ Typed /\ SourceRead /\ [Next]_vars => SourceRead'
<1> SUFFICES ASSUME Program, Typed, SourceRead, [Next]_vars PROVE SourceRead'
  OBVIOUS
<1>1. UNCHANGED file
  BY ProgramStep DEF program
<1>2. \A a, key : Assigns(a, key)' <=> Assigns(a, key)
  BY <1>1 DEF Assigns
<1>3. ASSUME SkipLine PROVE SourceRead'
  <2>1. /\ line' = line + 1 /\ pc' = "dotenv" /\ file[line].form = "blank"
        /\ UNCHANGED dot /\ line' - 1 = line
        /\ 1..line' - 1 = (1..line - 1) \cup {line}
    BY <1>3, LineAt DEF SkipLine
  <2>2. \A a \in 1..line - 1 : Kept(a)'
    BY <1>1, <1>2, <2>1 DEF SourceRead, Kept
  <2>3. Kept(line)
    BY <2>1 DEF Kept
  <2>4. \A a \in 1..line' - 1 : Kept(a)'
    <3>1. \A a : Kept(a)' <=> Kept(a)
      BY <1>1, <1>2, <2>1 DEF Kept
    <3> QED
      BY <2>1, <2>3, <3>1 DEF SourceRead
  <2>5. outcome' = "none"
    BY <1>3 DEF SkipLine, SourceRead
  <2> QED
    BY <1>2, <2>1, <2>4, <2>5 DEF SourceRead
<1>4. ASSUME Assign PROVE SourceRead'
  <2>1. /\ line' = line + 1 /\ pc' = "dotenv" /\ file[line].form = "assign"
        /\ file[line].key \notin DOMAIN dot /\ file[line].val # "open"
        /\ dot' = Put(dot, file[line].key, file[line].val)
        /\ line' - 1 = line
        /\ 1..line' - 1 = (1..line - 1) \cup {line}
    BY <1>4, LineAt DEF Assign
  <2>2. /\ DOMAIN dot' = DOMAIN dot \cup {file[line].key}
        /\ dot'[file[line].key] = file[line].val
        /\ \A key \in DOMAIN dot : dot'[key] = dot[key]
    BY <2>1 DEF Put
  <2>3. \A a \in 1..line - 1 : Kept(a)'
    BY <1>1, <1>2, <2>2 DEF SourceRead, Kept
  <2>4. \A b \in 1..line - 1 : ~Assigns(b, file[line].key)
    BY <2>1 DEF SourceRead, Kept, Assigns
  <2>5. PICK a : a = line /\ Kept(a)'
    <3>1. PICK a : a = line
      OBVIOUS
    <3>2. Kept(a)'
      BY <1>1, <1>2, <2>1, <2>2, <2>4, <3>1 DEF Kept
    <3> QED
      BY <3>1, <3>2
  <2>6. \A key \in DOMAIN dot' : \E b \in 1..line' - 1 : Assigns(b, key)
    BY <2>1, <2>2 DEF SourceRead, Assigns
  <2>7. \A b \in 1..line' - 1 : Kept(b)'
    BY <2>1, <2>3, <2>5
  <2>8. pc' = "dotenv" /\ outcome' = "none"
    BY <1>4, <2>1 DEF Assign, SourceRead
  <2> QED
    BY <1>2, <2>6, <2>7, <2>8 DEF SourceRead
<1>5. ASSUME ~SkipLine, ~Assign
      PROVE  /\ UNCHANGED source /\ (pc' = "done" \/ outcome' = "none")
             /\ pc' = "dotenv" \/ outcome' = "no source" \/ line = Len(file) + 1
  <2>1. UNCHANGED source
    BY <1>5 DEF Next, vars, source, BadLine, LoadBegins, WalkSkips, WalkRejects,
           WalkEnters, WalkBinds, WalkReturns, WalkEnds, Resolve, DecodeSkips, DecodeMisses,
           Decode, DecodeEnds, Validate, Finished
  <2>2. CASE BadLine \/ LoadBegins
    <3>1. BadLine => pc' = "done" /\ outcome' = "no source"
      BY DEF BadLine
    <3>2. LoadBegins => line = Len(file) + 1 /\ pc = "dotenv" /\ UNCHANGED outcome
      BY LenProperties DEF LoadBegins, Typed, SourceTyped, Program
    <3> QED
      BY <2>1, <2>2, <3>1, <3>2 DEF SourceRead
  <2>3. CASE Finished \/ UNCHANGED vars
    <3>1. UNCHANGED <<pc, line, outcome>>
      BY <2>3 DEF Finished, vars
    <3> QED
      BY <2>1, <3>1 DEF SourceRead
  <2>4. ASSUME ~BadLine, ~LoadBegins, ~Finished, ~UNCHANGED vars
        PROVE  /\ pc \notin {"dotenv", "done"}
               /\ pc' = "done" \/ UNCHANGED outcome
    BY <1>5, <2>4 DEF Next, vars, WalkSkips, WalkRejects, Walking, Decoding,
           WalkEnters, WalkBinds, WalkReturns, WalkEnds, Resolve, DecodeSkips, DecodeMisses,
           Decode, DecodeEnds, Validate
  <2> QED
    BY <2>1, <2>2, <2>3, <2>4 DEF SourceRead
<1>6. ASSUME UNCHANGED source, pc' = "done" \/ outcome' = "none",
             pc' = "dotenv" \/ outcome' = "no source" \/ line = Len(file) + 1
      PROVE  SourceRead'
  <2>1. \A a : Kept(a)' <=> Kept(a)
    BY <1>1, <1>2, <1>6 DEF Kept, source
  <2> QED
    BY <1>1, <1>2, <1>6, <2>1 DEF SourceRead, source
<1> QED
  BY <1>3, <1>4, <1>5, <1>6

(* The file as a whole: dot has what its lines assign.                     *)
LEMMA SourceTold ==
    ASSUME Program, Typed, SourceRead, line = Len(file) + 1
    PROVE  /\ ~SourceFaulty
           /\ \A key : /\ Assigned(key) # {} <=> key \in DOMAIN dot
                       /\ \A l \in Assigned(key) : l.val = dot[key]
<1>1. Len(file) \in Nat /\ DOMAIN file = 1..Len(file) /\ line - 1 = Len(file)
  BY LenProperties DEF Program
<1>2. \A a \in DOMAIN file : Kept(a)
  BY <1>1 DEF SourceRead
<1>3. ~SourceFaulty
  <2> SUFFICES ASSUME SourceFaulty PROVE FALSE
    OBVIOUS
  <2>1. PICK a \in DOMAIN file :
          \/ file[a].form \in {"no =", "no key"}
          \/ file[a].form = "assign" /\ file[a].val = "open"
          \/ file[a].form = "assign" /\ \E b \in 1..a - 1 :
                file[b].form = "assign" /\ file[b].key = file[a].key
    BY DEF SourceFaulty
  <2> QED
    BY <1>2, <2>1 DEF Kept, Assigns
<1>4. ASSUME NEW key, NEW l \in Assigned(key) PROVE key \in DOMAIN dot /\ l.val = dot[key]
  <2>1. PICK a \in DOMAIN file : l = file[a]
    BY DEF Assigned, ToSet
  <2> QED
    BY <1>2, <2>1 DEF Assigned, Kept
<1>5. ASSUME NEW key \in DOMAIN dot PROVE Assigned(key) # {}
  <2>1. PICK a \in DOMAIN file : Assigns(a, key)
    BY <1>1 DEF SourceRead
  <2>2. file[a] \in Assigned(key)
    BY <2>1 DEF Assigned, Assigns, ToSet
  <2> QED
    BY <2>2
<1> QED
  BY <1>3, <1>4, <1>5

LEMMA BadLineIsFaulty ==
    ASSUME Program, Typed, SourceRead, BadLine
    PROVE  SourceFaulty
<1>1. /\ line \in DOMAIN file /\ line \in Nat
      /\ \/ file[line].form \in {"no =", "no key"}
         \/ /\ file[line].form = "assign"
            /\ file[line].key \in DOMAIN dot \/ file[line].val = "open"
  BY LineAt DEF BadLine
<1>2. CASE file[line].form = "assign" /\ file[line].key \in DOMAIN dot
  <2>1. PICK b \in 1..line - 1 : Assigns(b, file[line].key)
    BY <1>2 DEF SourceRead
  <2> QED
    BY <1>1, <1>2, <2>1 DEF SourceFaulty, Assigns
<1> QED
  BY <1>1, <1>2 DEF SourceFaulty

-----------------------------------------------------------------------------
(* The plan of a type that has been walked, and what is looked up for it.  *)
LEMMA PlanIsWhole ==
    ASSUME Program, Stacked, Typed, Planned, Walked
    PROVE  /\ \A b \in DOMAIN bindings : \E n \in Owners : bindings[b] = BindingOf(n)
           /\ \A n \in Owners : \E b \in DOMAIN bindings : bindings[b] = BindingOf(n)
           /\ ToSet(blocks) = {g.at : g \in {g \in Groups : g.f.ptr}}
           /\ \A a, b \in DOMAIN bindings : bindings[a].index = bindings[b].index => a = b
<1>1. Past(Owners) = Owners /\ Past(Groups) = Groups
  BY Trees DEF Past, Walked
<1>2. DOMAIN bindings = 1..Len(bindings)
  BY LenProperties DEF Typed, PlanTyped
<1>3. ToSet(bindings) = {BindingOf(n) : n \in Owners}
  BY <1>1 DEF Planned
<1>4. ASSUME NEW b \in DOMAIN bindings PROVE \E n \in Owners : bindings[b] = BindingOf(n)
  <2>1. bindings[b] \in ToSet(bindings)
    BY DEF ToSet
  <2> QED
    BY <1>3, <2>1
<1>5. ASSUME NEW n \in Owners PROVE \E b \in DOMAIN bindings : bindings[b] = BindingOf(n)
  <2>1. BindingOf(n) \in ToSet(bindings)
    BY <1>3
  <2> QED
    BY <2>1 DEF ToSet
<1> QED
  BY <1>1, <1>2, <1>4, <1>5 DEF Planned

Resolved ==
    /\ DOMAIN res = DOMAIN bindings
    /\ \A b \in DOMAIN bindings : res[b] = Layer(os, bindings[b].env)
    /\ skip = {b \in DOMAIN bindings : \E block \in ToSet(blocks) :
                 Absent(block, res) /\ UnderBlock(bindings[b].index, block)}

(* What there is for binding b: what a source has, or else its default.    *)
Found(b) ==
    IF res[b] # Unset THEN res[b]
    ELSE IF bindings[b].def # NoTag THEN <<"default", bindings[b].def>> ELSE Unset

LEMMA UnsetIsNoValue == Unset \notin Raw
  BY ConfigAssumption DEF Raw, Good

LEMMA FoundIsTaken ==
    ASSUME Program, Typed, SourceRead, line = Len(file) + 1, Resolved,
           NEW b \in DOMAIN bindings, NEW n, bindings[b] = BindingOf(n)
    PROVE  /\ res[b] # Unset <=> Given(n)
           /\ Found(b) = Taken(n)
<1>1. bindings[b].env = KeyOf(n) /\ bindings[b].def = n.f.def
  BY DEF BindingOf
<1>2. res[b] = Layer(os, KeyOf(n))
  BY <1>1 DEF Resolved
<1>3. /\ Assigned(KeyOf(n)) # {} <=> KeyOf(n) \in DOMAIN dot
      /\ \A l \in Assigned(KeyOf(n)) : l.val = dot[KeyOf(n)]
  BY SourceTold
<1>4. \A x \in {"os", "dot"}, y \in Good : <<x, y>> # Unset
  BY UnsetIsNoValue DEF Raw
<1>5. CASE KeyOf(n) \in DOMAIN os
  <2>1. res[b] = <<"os", os[KeyOf(n)]>> /\ res[b] # Unset
    BY <1>2, <1>4, <1>5 DEF Layer, Typed, LookupTyped
  <2> QED
    BY <1>5, <2>1 DEF Given, Taken, Found
<1>6. CASE KeyOf(n) \notin DOMAIN os /\ KeyOf(n) \in DOMAIN dot
  <2>1. res[b] = <<"dot", dot[KeyOf(n)]>> /\ res[b] # Unset
    BY <1>2, <1>4, <1>6 DEF Layer, Typed, SourceTyped
  <2>2. Given(n)
    BY <1>3, <1>6 DEF Given
  <2>3. (CHOOSE l \in Assigned(KeyOf(n)) : TRUE).val = dot[KeyOf(n)]
    BY <1>3, <1>6
  <2>4. Taken(n) = <<"dot", (CHOOSE l \in Assigned(KeyOf(n)) : TRUE).val>>
    BY <1>6, <2>2 DEF Taken
  <2> QED
    BY <2>1, <2>2, <2>3, <2>4 DEF Found
<1>7. CASE KeyOf(n) \notin DOMAIN os /\ KeyOf(n) \notin DOMAIN dot
  <2>1. res[b] = Unset /\ ~Given(n)
    BY <1>2, <1>3, <1>7 DEF Layer, Given
  <2> QED
    BY <1>1, <1>7, <2>1 DEF Taken, Found
<1> QED
  BY <1>5, <1>6, <1>7

LEMMA SkippedIsUnwanted ==
    ASSUME Program, Stacked, Typed, Planned, Walked, SourceRead, line = Len(file) + 1, Resolved,
           NEW b \in DOMAIN bindings, NEW n \in Owners, bindings[b] = BindingOf(n)
    PROVE  b \in skip <=> n \notin Wanted
<1>1. bindings[b].index = n.at
  BY DEF BindingOf
<1>2. ASSUME NEW g \in Groups
      PROVE  Absent(g.at, res) <=> ~\E m \in Owners : UnderBlock(m.at, g.at) /\ Given(m)
  <2>1. ASSUME NEW c \in DOMAIN bindings, UnderBlock(bindings[c].index, g.at), res[c] # Unset
        PROVE  \E m \in Owners : UnderBlock(m.at, g.at) /\ Given(m)
    <3>1. PICK m \in Owners : bindings[c] = BindingOf(m)
      BY PlanIsWhole
    <3>2. Given(m)
      BY <2>1, <3>1, FoundIsTaken
    <3> QED
      BY <2>1, <3>1, <3>2 DEF BindingOf
  <2>2. ASSUME NEW m \in Owners, UnderBlock(m.at, g.at), Given(m)
        PROVE  \E c \in DOMAIN bindings : UnderBlock(bindings[c].index, g.at) /\ res[c] # Unset
    <3>1. PICK c \in DOMAIN bindings : bindings[c] = BindingOf(m)
      BY PlanIsWhole
    <3>2. res[c] # Unset
      BY <2>2, <3>1, FoundIsTaken
    <3>3. bindings[c].index = m.at
      BY <3>1 DEF BindingOf
    <3> QED
      BY <2>2, <3>2, <3>3
  <2> QED
    BY <2>1, <2>2 DEF Absent
<1>3. b \in skip <=> \E g \in Groups : g.f.ptr /\ Absent(g.at, res) /\ UnderBlock(n.at, g.at)
  BY <1>1, PlanIsWhole DEF Resolved
<1> QED
  BY <1>2, <1>3 DEF Wanted, OptedIn


(* What Decode has made of the bindings before i.                          *)
Tried  == (1..i - 1) \ skip
Missed == {b \in Tried : Found(b) = Unset /\ ~bindings[b].ptr}
Right  == {b \in Tried : Found(b) # Unset /\ Found(b)[2] = "good"}
Wrong  == {b \in Tried : Found(b) # Unset /\ Found(b)[2] # "good"}

Decoded ==
    /\ violations = {<<"required", bindings[b].index>> : b \in Missed}
               \cup {<<"decode", bindings[b].index>> : b \in Wrong}
    /\ DOMAIN value = {bindings[b].index : b \in Right}
    /\ \A b \in Right : value[bindings[b].index] = Found(b)
    /\ made = {block \in ToSet(blocks) :
                  \E b \in Right \cup Wrong : UnderBlock(bindings[b].index, block)}

LEMMA DecodedFirst ==
    ASSUME i' = 1, violations' = {}, value' = <<>>, made' = {}
    PROVE  Decoded'
<1>1. Tried' = {}
  BY DEF Tried
<1>2. Missed' = {} /\ Right' = {} /\ Wrong' = {}
  BY <1>1 DEF Missed, Right, Wrong
<1>3. DOMAIN value' = {}
  BY EmptySeq
<1> QED
  BY <1>2, <1>3 DEF Decoded

LEMMA DecodedStep ==
    ASSUME Program, Stacked, Typed, Planned, Walked, Decoded,
           DecodeSkips \/ DecodeMisses \/ Decode
    PROVE  Decoded'
<1>1. /\ i \in DOMAIN bindings /\ i' = i + 1 /\ i \notin 1..i - 1
      /\ 1..i' - 1 = (1..i - 1) \cup {i} /\ 1..i - 1 \subseteq DOMAIN bindings
      /\ UNCHANGED <<bindings, blocks, res, skip>>
  <2>1. /\ i <= Len(bindings) /\ i' = i + 1 /\ UNCHANGED <<bindings, blocks, res, skip>>
    BY DEF DecodeSkips, DecodeMisses, Decode, Decoding, plan, lookup
  <2>2. i \in 1..Len(bindings) + 1 /\ Len(bindings) \in Nat /\ DOMAIN bindings = 1..Len(bindings)
    BY LenProperties DEF Typed, LookupTyped, PlanTyped
  <2> QED
    BY <2>1, <2>2
<1>2. PICK k : k = i
  OBVIOUS
<1>3. \A b : Found(b)' = Found(b)
  BY <1>1 DEF Found
<1>4. Tried' = Tried \cup ({k} \ skip) /\ k \notin Tried
  BY <1>1, <1>2 DEF Tried
<1>5. \A b \in Tried : bindings[b].index # bindings[k].index
  BY <1>1, <1>2, PlanIsWhole DEF Tried
<1>6. CASE DecodeSkips
  <2>1. /\ k \in skip \/ (Found(k) = Unset /\ bindings[k].ptr)
        /\ UNCHANGED <<violations, value, made>>
    BY <1>2, <1>6 DEF DecodeSkips, Found, struct
  <2>2. Missed' = Missed /\ Right' = Right /\ Wrong' = Wrong
    BY <1>1, <1>3, <1>4, <2>1 DEF Missed, Right, Wrong
  <2> QED
    BY <1>1, <1>3, <2>1, <2>2 DEF Decoded
<1>7. CASE DecodeMisses
  <2>1. /\ k \notin skip /\ Found(k) = Unset /\ ~bindings[k].ptr
        /\ violations' = violations \cup {<<"required", bindings[k].index>>}
        /\ UNCHANGED <<value, made>>
    BY <1>2, <1>7 DEF DecodeMisses, Found, struct
  <2>2. Missed' = Missed \cup {k} /\ Right' = Right /\ Wrong' = Wrong
    BY <1>1, <1>3, <1>4, <2>1 DEF Missed, Right, Wrong
  <2> QED
    BY <1>1, <1>3, <2>1, <2>2 DEF Decoded
<1>8. CASE Decode
  <2>1. /\ k \notin skip /\ Found(k) # Unset
        /\ made' = made \cup {block \in ToSet(blocks) : UnderBlock(bindings[k].index, block)}
        /\ IF Found(k)[2] = "good"
             THEN value' = Put(value, bindings[k].index, Found(k)) /\ UNCHANGED violations
             ELSE /\ violations' = violations \cup {<<"decode", bindings[k].index>>}
                  /\ UNCHANGED value
    <3>1. bindings[k] \in Binding /\ \A x \in Good : <<"default", x>> # Unset
      BY <1>1, <1>2, ElementOfSeq, UnsetIsNoValue DEF Typed, PlanTyped, Raw
    <3>2. bindings[k].def # NoTag => bindings[k].def \in Good
      BY <3>1 DEF Binding, Good
    <3>3. k \notin skip /\ (res[k] # Unset \/ bindings[k].def # NoTag)
      BY <1>2, <1>8 DEF Decode
    <3>4. Found(k) = IF res[k] # Unset THEN res[k] ELSE <<"default", bindings[k].def>>
      BY <3>3 DEF Found
    <3>5. Found(k) # Unset
      BY <3>1, <3>2, <3>3, <3>4
    <3> QED
      BY <1>2, <1>8, <3>3, <3>4, <3>5 DEF Decode
  <2>2. CASE Found(k)[2] = "good"
    <3>1. Missed' = Missed /\ Right' = Right \cup {k} /\ Wrong' = Wrong
      BY <1>1, <1>3, <1>4, <2>1, <2>2 DEF Missed, Right, Wrong
    <3>2. /\ DOMAIN value' = DOMAIN value \cup {bindings[k].index}
          /\ value'[bindings[k].index] = Found(k)
          /\ \A x \in DOMAIN value : x # bindings[k].index => value'[x] = value[x]
      BY <2>1, <2>2 DEF Put
    <3>3. \A b \in Right' : value'[bindings[b].index] = Found(b)
      BY <1>5, <3>1, <3>2 DEF Decoded, Right
    <3>4. DOMAIN value' = {bindings[b].index : b \in Right'}
      BY <3>1, <3>2 DEF Decoded
    <3>5. made' = {block \in ToSet(blocks) :
                    \E b \in Right' \cup Wrong' : UnderBlock(bindings[b].index, block)}
      BY <2>1, <3>1 DEF Decoded
    <3> QED
      BY <1>1, <1>3, <2>1, <2>2, <3>1, <3>3, <3>4, <3>5 DEF Decoded
  <2>3. CASE Found(k)[2] # "good"
    <3>1. Missed' = Missed /\ Right' = Right /\ Wrong' = Wrong \cup {k}
      BY <1>1, <1>3, <1>4, <2>1, <2>3 DEF Missed, Right, Wrong
    <3>2. made' = {block \in ToSet(blocks) :
                    \E b \in Right' \cup Wrong' : UnderBlock(bindings[b].index, block)}
      BY <2>1, <3>1 DEF Decoded
    <3>3. violations' = {<<"required", bindings[b].index>> : b \in Missed'}
                   \cup {<<"decode", bindings[b].index>> : b \in Wrong'}
      BY <2>1, <2>3, <3>1 DEF Decoded
    <3> QED
      BY <1>1, <1>3, <2>1, <2>3, <3>1, <3>2, <3>3 DEF Decoded
  <2> QED
    BY <2>2, <2>3
<1> QED
  BY <1>6, <1>7, <1>8


(* ValueIsWhole of the struct that Validate, or the caller, is given.      *)
Whole ==
    LET set == {n \in Wanted : Taken(n) # Unset} IN
    /\ Missing = {} /\ Broken = {}
    /\ DOMAIN value = {n.at : n \in set}
    /\ \A n \in set : value[n.at] = Taken(n)
    /\ made = {g.at : g \in OptedIn}

DecodeFaults ==
    {<<"required", n.at>> : n \in Missing} \cup {<<"decode", n.at>> : n \in Broken}

(* When every binding has been decoded, what is reported is what is wrong. *)
LEMMA AllDecoded ==
    ASSUME Program, Stacked, Typed, Planned, Walked, SourceRead, line = Len(file) + 1, Resolved,
           Decoded, i > Len(bindings)
    PROVE  violations = DecodeFaults /\ (violations = {} => Whole)
<1>1. Tried = DOMAIN bindings \ skip
  <2>1. i \in 1..Len(bindings) + 1 /\ Len(bindings) \in Nat /\ DOMAIN bindings = 1..Len(bindings)
    BY LenProperties DEF Typed, LookupTyped, PlanTyped
  <2>2. i - 1 = Len(bindings)
    BY <2>1
  <2> QED
    BY <2>1, <2>2 DEF Tried
<1>2. ASSUME NEW b \in Tried
      PROVE  \E n \in Wanted : /\ bindings[b].index = n.at /\ bindings[b].ptr = n.f.ptr
                               /\ Found(b) = Taken(n)
  <2>1. PICK n \in Owners : bindings[b] = BindingOf(n)
    BY <1>1, PlanIsWhole
  <2>2. n \in Wanted /\ Found(b) = Taken(n)
    BY <1>1, <2>1, SkippedIsUnwanted, FoundIsTaken
  <2> QED
    BY <2>1, <2>2 DEF BindingOf
<1>3. ASSUME NEW n \in Wanted
      PROVE  \E b \in Tried : /\ bindings[b].index = n.at /\ bindings[b].ptr = n.f.ptr
                              /\ Found(b) = Taken(n)
  <2>1. n \in Owners
    BY DEF Wanted
  <2>2. PICK b \in DOMAIN bindings : bindings[b] = BindingOf(n)
    BY <2>1, PlanIsWhole
  <2>3. b \in Tried /\ Found(b) = Taken(n)
    BY <1>1, <2>1, <2>2, SkippedIsUnwanted, FoundIsTaken
  <2> QED
    BY <2>2, <2>3 DEF BindingOf
<1>4. ASSUME NEW b \in Tried, Found(b) # Unset
      PROVE  Found(b)[2] \in Good
  <2>1. bindings[b] \in Binding /\ res[b] \in Raw \cup {Unset}
    BY <1>1, ElementOfSeq, LenProperties DEF Typed, PlanTyped, LookupTyped, Resolved
  <2>2. Found(b) \in Raw
    <3>1. CASE res[b] # Unset
      BY <2>1, <3>1 DEF Found
    <3>2. CASE res[b] = Unset
      <4>1. bindings[b].def # NoTag /\ Found(b) = <<"default", bindings[b].def>>
        BY <1>4, <3>2 DEF Found
      <4>2. bindings[b].def \in Good
        BY <2>1, <4>1 DEF Binding, Good
      <4> QED
        BY <4>1, <4>2 DEF Raw
    <3> QED
      BY <3>1, <3>2
  <2> QED
    BY <2>2 DEF Raw
<1>5. {<<"required", bindings[b].index>> : b \in Missed} = {<<"required", n.at>> : n \in Missing}
  BY <1>2, <1>3 DEF Missed, Missing
<1>6. {<<"decode", bindings[b].index>> : b \in Wrong} = {<<"decode", n.at>> : n \in Broken}
  <2>1. \A b \in Tried : Found(b) # Unset => (Found(b)[2] # "good" <=> Found(b)[2] = "bad")
    BY <1>4 DEF Good
  <2>2. ASSUME NEW b \in Wrong PROVE \E n \in Broken : bindings[b].index = n.at
    BY <1>2, <2>1 DEF Wrong, Broken
  <2>3. ASSUME NEW n \in Broken PROVE \E b \in Wrong : bindings[b].index = n.at
    BY <1>3, <2>1 DEF Wrong, Broken
  <2> QED
    BY <2>2, <2>3
<1>7. violations = DecodeFaults
  BY <1>5, <1>6 DEF Decoded, DecodeFaults
<1>8. ASSUME violations = {} PROVE Whole
  <2>1. Missing = {} /\ Broken = {} /\ Wrong = {}
    BY <1>7, <1>8, <1>6 DEF DecodeFaults
  <2>2. Right = {b \in Tried : Found(b) # Unset}
    BY <2>1 DEF Right, Wrong
  <2> DEFINE set == {n \in Wanted : Taken(n) # Unset}
  <2>3. ASSUME NEW b \in Right PROVE \E n \in set : bindings[b].index = n.at /\ Found(b) = Taken(n)
    BY <1>2, <2>2
  <2>4. ASSUME NEW n \in set PROVE \E b \in Right : bindings[b].index = n.at /\ Found(b) = Taken(n)
    BY <1>3, <2>2
  <2>5. DOMAIN value = {n.at : n \in set}
    BY <2>3, <2>4 DEF Decoded
  <2>6. \A n \in set : value[n.at] = Taken(n)
    BY <2>4 DEF Decoded
  <2>7. made = {block \in ToSet(blocks) : \E n \in set : UnderBlock(n.at, block)}
    BY <2>1, <2>3, <2>4 DEF Decoded
  <2>8. ToSet(blocks) = {g.at : g \in {g \in Groups : g.f.ptr}}
    BY PlanIsWhole
  <2>9. ASSUME NEW g \in Groups, g.f.ptr
        PROVE  g \in OptedIn <=> \E n \in set : UnderBlock(n.at, g.at)
    <3>1. ASSUME NEW n \in set, UnderBlock(n.at, g.at) PROVE g \in OptedIn
      BY <2>9, <3>1 DEF Wanted
    <3>2. ASSUME NEW n \in Owners, UnderBlock(n.at, g.at), Given(n) PROVE n \in set
      <4>1. n \in Wanted
        BY <3>2 DEF Wanted, OptedIn
      <4>2. PICK b \in DOMAIN bindings : bindings[b] = BindingOf(n)
        BY <3>2, PlanIsWhole
      <4>3. res[b] # Unset /\ Found(b) = Taken(n)
        BY <3>2, <4>2, FoundIsTaken
      <4> QED
        BY <4>1, <4>3 DEF Found
    <3> QED
      BY <2>9, <3>1, <3>2 DEF OptedIn
  <2>10. \A g \in OptedIn : g \in Groups /\ g.f.ptr
    BY DEF OptedIn
  <2>11. made = {g.at : g \in OptedIn}
    <3>1. ASSUME NEW block \in made PROVE \E g \in OptedIn : g.at = block
      BY <2>7, <2>8, <2>9
    <3>2. ASSUME NEW g \in OptedIn PROVE g.at \in made
      BY <2>7, <2>8, <2>9, <2>10
    <3> QED
      BY <3>1, <3>2
  <2> QED
    BY <2>1, <2>5, <2>6, <2>11 DEF Whole
<1> QED
  BY <1>7, <1>8


-----------------------------------------------------------------------------
(* The load as a whole.                                                    *)
Reported ==
    violations = IF SchemaFaults # {} THEN SchemaFaults
                 ELSE IF DecodeFaults # {} THEN DecodeFaults
                 ELSE {<<"validate", <<>>>>}

Loading ==
    /\ pc \in {"dotenv", "walk", "resolve"} => value = <<>> /\ made = {}
    /\ pc \in {"resolve", "decode", "validate"} => Walked /\ SchemaFaults = {}
    /\ pc = "resolve" => violations = {}
    /\ pc = "decode" => Resolved /\ Decoded
    /\ pc = "validate" => violations = {} /\ DecodeFaults = {} /\ Whole
    /\ outcome = "no source" => SourceFaulty
    /\ outcome = "error" => Reported
    /\ outcome = "loaded" => ~SourceFaulty /\ SchemaFaults = {} /\ DecodeFaults = {} /\ Whole

Invariant ==
    Program /\ Stacked /\ Typed /\ Descent /\ Planned /\ SourceRead /\ Loading

LEMMA ToldStays ==
    ASSUME UNCHANGED <<types, file, os>>
    PROVE  /\ SchemaFaults' = SchemaFaults /\ (SourceFaulty' <=> SourceFaulty)
           /\ DecodeFaults' = DecodeFaults
           /\ UNCHANGED struct => (Whole' <=> Whole)
<1>1. /\ Fields' = Fields /\ Groups' = Groups /\ Owners' = Owners
  BY TreeStays
<1>2. \A n : KeyOf(n)' = KeyOf(n) /\ Assigned(KeyOf(n))' = Assigned(KeyOf(n))
  BY DEF KeyOf, Assigned
<1>3. \A n : (Given(n)' <=> Given(n)) /\ Taken(n)' = Taken(n)
  BY <1>2 DEF Given, Taken
<1>4. OptedIn' = OptedIn
  BY <1>1, <1>3 DEF OptedIn
<1>5. Wanted' = Wanted
  BY <1>1, <1>4 DEF Wanted
<1>6. Missing' = Missing /\ Broken' = Broken
  BY <1>3, <1>5 DEF Missing, Broken
<1>7. DecodeFaults' = DecodeFaults
  BY <1>6 DEF DecodeFaults
<1>8. SchemaFaults' = SchemaFaults /\ (SourceFaulty' <=> SourceFaulty)
  BY <1>1 DEF SchemaFaults, SourceFaulty
<1>9. UNCHANGED struct => (Whole' <=> Whole)
  BY <1>3, <1>4, <1>5, <1>6 DEF Whole, struct
<1> QED
  BY <1>7, <1>8, <1>9

LEMMA WalkedStays ==
    UNCHANGED <<types, frames>> => (Walked' <=> Walked)
<1> SUFFICES ASSUME UNCHANGED <<types, frames>> PROVE Walked' <=> Walked
  OBVIOUS
<1>1. Fields' = Fields /\ \A n : Done(n)' <=> Done(n)
  BY TreeStays DEF Done, Index, Top, Last
<1> QED
  BY <1>1 DEF Walked

LEMMA LoadingWalkEnds ==
    ASSUME Invariant, WalkEnds
    PROVE  Loading'
<1> USE DEF Invariant
<1>1. /\ pc = "walk" /\ Top.at > Len(types[Top.ty]) /\ Len(frames) = 1
      /\ UNCHANGED <<types, file, os, frames, value, made, violations>>
      /\ IF violations = {} THEN pc' = "resolve" /\ UNCHANGED outcome
                            ELSE pc' = "done" /\ outcome' = "error"
  BY DEF WalkEnds, program, plan, lookup, struct
<1>2. Walked /\ Walked'
  BY <1>1, WalkedAtTheEnd, WalkedStays
<1>3. violations = SchemaFaults
  <2>1. Past(Faults) = Faults
    BY <1>2, Trees DEF Walked, Past
  <2> QED
    BY <1>1, <2>1 DEF Planned, SchemaFaults, Faults
<1>4. SchemaFaults' = SchemaFaults
  BY <1>1, ToldStays
<1>5. outcome = "none"
  BY <1>1 DEF SourceRead
<1> QED
  BY <1>1, <1>2, <1>3, <1>4, <1>5 DEF Loading, Reported

LEMMA LoadingResolve ==
    ASSUME Invariant, Resolve
    PROVE  Loading'
<1> USE DEF Invariant
<1>1. /\ pc = "resolve" /\ pc' = "decode"
      /\ UNCHANGED <<types, file, dot, frames, bindings, blocks, i, value, made, violations, outcome>>
      /\ res' = [b \in DOMAIN bindings |-> Layer(os', bindings[b].env)]
      /\ skip' = {b \in DOMAIN bindings : \E block \in ToSet(blocks) :
                    Absent(block, res') /\ UnderBlock(bindings[b].index, block)}
  BY DEF Resolve, program, plan, struct, source
<1>2. Resolved'
  BY <1>1 DEF Resolved, Layer, Absent
<1>3. Decoded'
  <2>1. i = 1 /\ violations = {} /\ value = <<>> /\ made = {}
    BY <1>1 DEF Loading, Typed, LookupTyped
  <2> QED
    BY <1>1, <2>1, DecodedFirst
<1>4. Walked' /\ SchemaFaults' = {}
  <2>1. Owners' = Owners /\ Groups' = Groups /\ Fields' = Fields
    BY <1>1, TreeStays
  <2>2. Walked /\ SchemaFaults = {}
    BY <1>1 DEF Loading
  <2> QED
    BY <1>1, <2>1, <2>2, WalkedStays DEF SchemaFaults
<1>5. outcome = "none"
  BY <1>1 DEF SourceRead
<1> QED
  BY <1>1, <1>2, <1>3, <1>4, <1>5 DEF Loading

LEMMA LoadingDecodes ==
    ASSUME Invariant, DecodeSkips \/ DecodeMisses \/ Decode
    PROVE  Loading'
<1> USE DEF Invariant
<1>1. /\ pc = "decode" /\ pc' = "decode"
      /\ UNCHANGED <<types, file, dot, frames, bindings, blocks, os, res, skip, outcome>>
  BY DEF DecodeSkips, DecodeMisses, Decode, Decoding, program, plan, lookup, source
<1>2. Walked /\ SchemaFaults = {} /\ Resolved /\ Decoded /\ outcome = "none"
  BY <1>1 DEF Loading, SourceRead
<1>3. Decoded'
  BY <1>2, DecodedStep
<1>4. Resolved'
  BY <1>1, <1>2 DEF Resolved, Layer, Absent
<1>5. Walked' /\ SchemaFaults' = {}
  BY <1>1, <1>2, WalkedStays, ToldStays
<1> QED
  BY <1>1, <1>2, <1>3, <1>4, <1>5 DEF Loading

LEMMA LoadingDecodeEnds ==
    ASSUME Invariant, DecodeEnds
    PROVE  Loading'
<1> USE DEF Invariant
<1>1. /\ pc = "decode" /\ i > Len(bindings)
      /\ UNCHANGED <<types, file, os, frames, violations>> /\ UNCHANGED struct
      /\ IF violations = {} THEN pc' = "validate" /\ UNCHANGED outcome
                            ELSE pc' = "done" /\ outcome' = "error"
  BY DEF DecodeEnds, program, plan, lookup
<1>2. Walked /\ SchemaFaults = {} /\ Resolved /\ Decoded /\ outcome = "none"
      /\ line = Len(file) + 1
  BY <1>1 DEF Loading, SourceRead
<1>3. violations = DecodeFaults /\ (violations = {} => Whole)
  BY <1>1, <1>2, AllDecoded
<1>4. Walked' /\ SchemaFaults' = {} /\ DecodeFaults' = DecodeFaults /\ (Whole' <=> Whole)
  BY <1>1, <1>2, WalkedStays, ToldStays
<1> QED
  BY <1>1, <1>2, <1>3, <1>4 DEF Loading, Reported

LEMMA LoadingValidate ==
    ASSUME Invariant, Validate
    PROVE  Loading'
<1> USE DEF Invariant
<1>1. /\ pc = "validate" /\ pc' = "done"
      /\ UNCHANGED <<types, file, os>> /\ UNCHANGED struct
      /\ \/ outcome' = "loaded" /\ UNCHANGED violations
         \/ outcome' = "error" /\ violations' = {<<"validate", <<>>>>}
  BY DEF Validate, program, lookup
<1>2. /\ SchemaFaults = {} /\ DecodeFaults = {} /\ Whole /\ outcome = "none"
      /\ line = Len(file) + 1
  BY <1>1 DEF Loading, SourceRead
<1>3. ~SourceFaulty
  BY <1>2, SourceTold
<1>4. SchemaFaults' = {} /\ DecodeFaults' = {} /\ Whole' /\ ~SourceFaulty'
  BY <1>1, <1>2, <1>3, ToldStays
<1> QED
  BY <1>1, <1>4 DEF Loading, Reported

LEMMA LoadingStep == Invariant /\ [Next]_vars => Loading'
<1> SUFFICES ASSUME Invariant, [Next]_vars PROVE Loading'
  OBVIOUS
<1>1. CASE BadLine
  <2>1. pc' = "done" /\ outcome' = "no source" /\ UNCHANGED <<types, file, os>>
    BY <1>1 DEF BadLine, program, lookup
  <2>2. SourceFaulty
    BY <1>1, BadLineIsFaulty DEF Invariant
  <2> QED
    BY <2>1, <2>2, ToldStays DEF Loading
<1>2. ASSUME SkipLine \/ Assign \/ LoadBegins \/ WalkSkips \/ WalkRejects \/ WalkEnters
             \/ WalkBinds \/ WalkReturns
      PROVE  Loading'
  <2>1. pc \in {"dotenv", "walk"} /\ pc' \in {"dotenv", "walk"} /\ UNCHANGED <<value, made, outcome>>
    BY <1>2 DEF SkipLine, Assign, LoadBegins, WalkSkips, WalkRejects, WalkEnters, WalkBinds,
                WalkReturns, Walking, struct
  <2> QED
    BY <2>1 DEF Loading, Invariant, SourceRead
<1>3. CASE WalkEnds
  BY <1>3, LoadingWalkEnds
<1>4. CASE Resolve
  BY <1>4, LoadingResolve
<1>5. CASE DecodeSkips \/ DecodeMisses \/ Decode
  BY <1>5, LoadingDecodes
<1>6. CASE DecodeEnds
  BY <1>6, LoadingDecodeEnds
<1>7. CASE Validate
  BY <1>7, LoadingValidate
<1>8. CASE UNCHANGED vars
  <2>1. UNCHANGED <<types, file, pc, dot, frames, bindings, blocks, os, res, skip, i, value, made,
                    violations, outcome>>
    BY <1>8 DEF vars
  <2>2. /\ Walked' <=> Walked
        /\ SchemaFaults' = SchemaFaults /\ (SourceFaulty' <=> SourceFaulty)
        /\ DecodeFaults' = DecodeFaults /\ (Whole' <=> Whole)
    BY <2>1, WalkedStays, ToldStays DEF struct
  <2>3. (Resolved' <=> Resolved) /\ (Decoded' <=> Decoded)
    BY <2>1 DEF Resolved, Layer, Absent, Decoded, Missed, Right, Wrong, Tried, Found
  <2> QED
    BY <2>1, <2>2, <2>3 DEF Invariant, Loading, Reported
<1> QED
  BY <1>1, <1>2, <1>3, <1>4, <1>5, <1>6, <1>7, <1>8 DEF Next, Finished

LEMMA LoadingInit == Init => Loading
  BY DEF Init, Loading

LEMMA LoadInvariant == Spec => []Invariant
<1>1. Init => SourceRead /\ Loading
  BY ProgramInit, SourceReadInit, LoadingInit
<1>2. Program /\ Stacked /\ Typed /\ Descent /\ Planned /\ SourceRead /\ Loading /\ [Next]_vars
        => SourceRead' /\ Loading'
  BY SourceReadStep, LoadingStep DEF Invariant
<1> QED
  BY <1>1, <1>2, PlanInvariant, PTL DEF Spec, Invariant

(* FaultsAreReported: what is reported is all that is wrong with the type, *)
(* or, if that is sound, with the values, and nothing that is right.       *)
THEOREM FaultsReported == Spec => []FaultsAreReported
<1>1. DecodeFaults = ValueFaults("decode") /\ (DecodeFaults = {} <=> Missing \cup Broken = {})
  BY DEF DecodeFaults, ValueFaults
<1>2. Invariant => FaultsAreReported
  <2> SUFFICES ASSUME Invariant PROVE FaultsAreReported
    OBVIOUS
  <2>1. CASE outcome = "error"
    BY <1>1, <2>1 DEF Invariant, Loading, Reported, FaultsAreReported
  <2>2. CASE outcome # "error"
    BY <1>1, <2>2 DEF Invariant, Loading, FaultsAreReported
  <2> QED
    BY <2>1, <2>2
<1> QED
  BY <1>2, LoadInvariant, PTL

(* ValueIsWhole: the struct that Validate and the caller see has every     *)
(* value that the sources and the defaults have for it, and no more.       *)
THEOREM TheValueIsWhole == Spec => []ValueIsWhole
<1>1. Invariant => ValueIsWhole
  BY DEF Invariant, Loading, Whole, ValueIsWhole
<1> QED
  BY <1>1, LoadInvariant, PTL

-----------------------------------------------------------------------------
(* The walk ends.                                                          *)

(* As the struct types on the stack differ, they are no more than there    *)
(* are.                                                                    *)
Short == Len(frames) <= Cardinality(DOMAIN types)

LEMMA PathIsShort == Program /\ Stacked => Short
<1> SUFFICES ASSUME Program, Stacked PROVE Len(frames) <= Cardinality(DOMAIN types)
  BY DEF Short
<1> DEFINE ty == [d \in 1..Len(frames) |-> frames[d].ty]
<1>1. Len(frames) \in Nat
  BY TopOfStack
<1>2. \A d \in 1..Len(frames) : frames[d].ty \in DOMAIN types
  BY ElementOfSeq DEF Stacked, Frame
<1>3. ty \in Injection(1..Len(frames), DOMAIN types)
  BY <1>2 DEF Stacked, Injection, IsInjective
<1>4. Cardinality(1..Len(frames)) <= Cardinality(DOMAIN types)
  BY <1>3, FS_Injection DEF Program
<1>5. Cardinality(1..Len(frames)) = Len(frames)
  <2>1. Cardinality(1..Len(frames)) = IF 1 > Len(frames) THEN 0 ELSE Len(frames) - 1 + 1
    BY <1>1, FS_Interval
  <2> QED
    BY <1>1, <2>1
<1> QED
  BY <1>4, <1>5

(* What is under p, at k, comes before the later children of p.            *)
LEMMA NextIsLater ==
    ASSUME NEW p \in Indices, NEW k \in Nat \ {0}, NEW m \in Indices,
           m = Append(p, k) \/ UnderBlock(m, Append(p, k))
    PROVE  Before(m, Append(p, k + 1))
<1>1. UnderBlock(m, p) /\ m[Len(p) + 1] = k
  BY UnderLonger
<1>2. m[Len(p) + 1] < k + 1 /\ k + 1 \in Nat \ {0}
  BY <1>1
<1> QED
  BY <1>1, <1>2, BeforeLonger

LEMMA IndexAdvances ==
    ASSUME Program, Stacked, Descent, [Next]_vars, pc = "walk", frames' # frames
    PROVE  Before(Index, Index')
<1>1. /\ Top \in Frame /\ Top.at \in Nat \ {0} /\ Top.index \in Indices
      /\ Index = Append(Top.index, Top.at) /\ Index \in Indices
  <2>1. Top \in Frame /\ Top.at \in Nat \ {0} /\ Top.index \in Indices
    BY TopOfStack DEF Frame
  <2> QED
    BY <2>1, LongerPath DEF Index
<1>2. CASE WalkSkips \/ WalkRejects \/ WalkBinds
  <2>1. Walking /\ frames' = NextField
    BY <1>2 DEF WalkSkips, WalkRejects, WalkBinds
  <2>2. /\ Len(frames') = Len(frames) /\ Len(frames) \in 1..Len(frames)
        /\ frames'[Len(frames)].at = Top.at + 1 /\ frames'[Len(frames)].index = Top.index
    BY <2>1, NextFieldKeeps, TopOfStack
  <2>3. Index' = Append(Top.index, Top.at + 1)
    BY <2>2 DEF Index, Top, Last
  <2> QED
    BY <1>1, <2>3, NextIsLater
<1>3. CASE WalkEnters
  <2>1. Top' = [ty |-> Field.ty, at |-> 1, prefix |-> Top.prefix \o Field.prefix, index |-> Index]
    BY <1>3, WalkEntersKeeps, TopOfStack DEF Top, Last
  <2>2. Index' = Append(Index, 1)
    BY <2>1 DEF Index
  <2> QED
    BY <1>1, <2>2, BeforeLonger
<1>4. CASE WalkReturns
  <2> DEFINE F == frames[Len(frames) - 1]
  <2>1. /\ Len(frames) \in 2..Len(frames) /\ Top = frames[Len(frames)]
        /\ Len(frames) - 1 \in 1..Len(frames)
        /\ Len(frames') = Len(frames) - 1 /\ frames'[Len(frames) - 1] = F
    BY <1>4, WalkReturnsKeeps, TopOfStack
  <2>2. F \in Frame
    BY <2>1, ElementOfSeq DEF Stacked
  <2>3. /\ F.index \in Indices /\ F.at - 1 \in Nat \ {0} /\ (F.at - 1) + 1 = F.at
        /\ Top.index = Append(F.index, F.at - 1)
    <3>1. F.at > 1 /\ Top.index = Append(F.index, F.at - 1)
      BY <2>1 DEF Descent, Entered
    <3>2. F.at \in Nat \ {0} /\ F.index \in Indices
      BY <2>2 DEF Frame
    <3> QED
      BY <3>1, <3>2
  <2>4. Index' = Append(F.index, F.at)
    BY <2>1 DEF Index, Top, Last
  <2> HIDE DEF F
  <2>5. UnderBlock(Index, Top.index)
    BY <1>1, UnderLonger
  <2>6. Before(Index, Append(F.index, (F.at - 1) + 1))
    BY <1>1, <2>3, <2>5, NextIsLater
  <2> QED
    BY <2>3, <2>4, <2>6
<1>5. ASSUME SkipLine \/ BadLine \/ Assign \/ LoadBegins \/ WalkEnds \/ Resolve \/ DecodeSkips
             \/ DecodeMisses \/ Decode \/ DecodeEnds \/ Validate \/ Finished \/ UNCHANGED vars
      PROVE  FALSE
  BY <1>5 DEF SkipLine, BadLine, Assign, LoadBegins, WalkEnds, Resolve, DecodeSkips,
              DecodeMisses, Decode, DecodeEnds, Validate, Finished, vars, plan
<1> QED
  BY <1>2, <1>3, <1>4, <1>5 DEF Next

(* WalkAdvances: each step of the walk of a type, whatever types refer to  *)
(* one another, goes on in the order of declaration, along a path that is  *)
(* never longer than there are struct types; so the walk ends.             *)
THEOREM WalkEndsInTheEnd == Spec => WalkAdvances
<1>1. Program /\ Stacked /\ Descent /\ Short' /\ [Next]_vars =>
        [pc = "walk" /\ frames' # frames =>
           /\ IsStrictPrefix(Index, Index') \/ Earlier(Index, Index')
           /\ Len(frames') <= Cardinality(DOMAIN types)]_vars
  <2> SUFFICES ASSUME Program, Stacked, Descent, Short', [Next]_vars,
                      pc = "walk", frames' # frames
               PROVE  /\ IsStrictPrefix(Index, Index') \/ Earlier(Index, Index')
                      /\ Len(frames') <= Cardinality(DOMAIN types)
    OBVIOUS
  <2>1. IsStrictPrefix(Index, Index') \/ Earlier(Index, Index')
    BY IndexAdvances DEF Before, UnderBlock
  <2>2. UNCHANGED types
    BY ProgramStep DEF program
  <2> QED
    BY <2>1, <2>2 DEF Short
<1> QED
  BY <1>1, PathIsShort, PlanInvariant, PTL DEF Spec, WalkAdvances
=============================================================================
