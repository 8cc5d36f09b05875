------------------------------- MODULE Config -------------------------------
(***************************************************************************)
(* config.Load: main reads a .env file into a source, layers the process   *)
(* environment over it, and loads a struct.  The type is walked into a     *)
(* plan of bindings and optional blocks, every key is looked up, and then  *)
(* each field is decoded; whatever is wrong is collected on the way.       *)
(*                                                                         *)
(* A key is the sequence of the tags it is made of, and a value is what    *)
(* its decoder makes of it, "good" or "bad".  A field is a record with     *)
(* its tags, the struct type that it nests or "value", whether it is a     *)
(* pointer, and whether decoderFor supports its type.  A field is named by *)
(* its index path.                                                         *)
(***************************************************************************)
EXTENDS Integers, FiniteSets, Sequences, SequencesExt

CONSTANTS
    Programs,    \* the types that are loaded, with the .env file beside them
    Prefix,      \* WithPrefix
    NoTag,       \* a field has no such tag
    Dash,        \* the tag env:"-"
    Unset        \* no source has the key

Root == "Root"
Keys == Seq(STRING)

ASSUME ConfigAssumption ==
    /\ Prefix \in Keys /\ Unset \notin {"os", "dot", "default"} \X {"good", "bad"}
    /\ \A p \in Programs :
         /\ IsFiniteSet(DOMAIN p.types) /\ Root \in DOMAIN p.types
         /\ \A t \in DOMAIN p.types :
              p.types[t] \in Seq([exported : BOOLEAN, env : {NoTag, Dash} \cup Keys,
                                 prefix : {NoTag} \cup Keys, ty : DOMAIN p.types \cup {"value"},
                                 ptr : BOOLEAN, def : {NoTag, "good", "bad"},
                                 supported : BOOLEAN])
         /\ p.file \in Seq([form : {"blank", "no =", "no key", "assign"}, key : Keys,
                            val : {"good", "bad", "open"}])

VARIABLES
    types,       \* types[t]: the fields of struct type t
    file,        \* the lines of the .env file
    pc,          \* the stage
    line,        \* the line that Dotenv reads
    dot,         \* vals, what the file assigns
    frames,      \* the calls of walk, the innermost last
    active,      \* the struct types on the path of the walk, pushed and popped
    bindings,    \* the plan, in the order of the walk
    blocks,
    os,          \* the process environment, as far as it is looked up
    res,         \* res[i]: what the sources have for binding i
    skip,        \* the bindings of absent blocks
    i,           \* the binding that is decoded
    value,       \* the fields that have been set, with what
    made,        \* the blocks that fieldByIndexAlloc has allocated
    violations,  \* of each, its kind and its field
    outcome      \* what main has been returned

program == <<types, file>>
source  == <<line, dot>>
plan    == <<frames, active, bindings, blocks>>
lookup  == <<os, res, skip>>
struct  == <<value, made>>
vars    == <<types, file, pc, line, dot, frames, active, bindings, blocks, os, res, skip,
             i, value, made, violations, outcome>>

TypeOK ==
    LET Indices == Seq(Nat \ {0})
        Raw     == {"os", "dot", "default"} \X {"good", "bad"}
    IN
    /\ pc \in {"dotenv", "walk", "resolve", "decode", "validate", "done"}
    /\ line \in 1..Len(file) + 1 /\ \A key \in DOMAIN dot : dot[key] \in {"good", "bad"}
    /\ \A d \in DOMAIN frames :
         /\ frames[d].ty \in DOMAIN types
         /\ frames[d].at \in 1..Len(types[frames[d].ty]) + 1 /\ frames[d].index \in Indices
    /\ ToSet(active) \subseteq DOMAIN types
    /\ \A b \in ToSet(bindings) : b.index \in Indices
    /\ ToSet(blocks) \subseteq Indices
    /\ \A key \in DOMAIN os : os[key] \in {"good", "bad"}
    /\ \A r \in ToSet(res) : r = Unset \/ r \in Raw
    /\ skip \subseteq DOMAIN bindings /\ i \in 1..Len(bindings) + 1
    /\ DOMAIN value \subseteq Indices /\ \A index \in DOMAIN value : value[index] \in Raw
    /\ made \subseteq ToSet(blocks)
    /\ violations \subseteq {"schema", "required", "decode", "validate"} \X Indices
    /\ outcome \in {"none", "no source", "error", "loaded"}

Nested(f) == f.ty # "value"
UnderBlock(index, block) == IsStrictPrefix(block, index)

(* The map f with y at x.                                                  *)
Put(f, x, y) == [z \in DOMAIN f \cup {x} |-> IF z = x THEN y ELSE f[z]]

Init ==
    /\ \E p \in Programs : types = p.types /\ file = p.file
    /\ pc = "dotenv" /\ line = 1 /\ dot = <<>>
    /\ frames = <<[ty |-> Root, at |-> 1, prefix |-> Prefix, index |-> <<>>]>>
    /\ active = <<Root>>
    /\ bindings = <<>> /\ blocks = <<>>
    /\ os = <<>> /\ res = <<>> /\ skip = {} /\ i = 1
    /\ value = <<>> /\ made = {}
    /\ violations = {} /\ outcome = "none"

-----------------------------------------------------------------------------
(* Dotenv.                                                                 *)
SkipLine ==
    /\ pc = "dotenv" /\ line <= Len(file) /\ file[line].form = "blank"
    /\ line' = line + 1
    /\ UNCHANGED <<program, pc, dot, plan, lookup, i, struct, violations, outcome>>

(* No =, no key, a key assigned before, or a quote left open: main exits.  *)
(* A file that cannot be read counts as one with a bad line.               *)
BadLine ==
    /\ pc = "dotenv" /\ line <= Len(file)
    /\ \/ file[line].form \in {"no =", "no key"}
       \/ /\ file[line].form = "assign"
          /\ file[line].key \in DOMAIN dot \/ file[line].val = "open"
    /\ pc' = "done" /\ outcome' = "no source"
    /\ UNCHANGED <<program, source, plan, lookup, i, struct, violations>>

Assign ==
    /\ pc = "dotenv" /\ line <= Len(file) /\ file[line].form = "assign"
    /\ file[line].key \notin DOMAIN dot /\ file[line].val # "open"
    /\ dot' = Put(dot, file[line].key, file[line].val)
    /\ line' = line + 1
    /\ UNCHANGED <<program, pc, plan, lookup, i, struct, violations, outcome>>

LoadBegins ==
    /\ pc = "dotenv" /\ line > Len(file)
    /\ pc' = "walk"
    /\ UNCHANGED <<program, source, plan, lookup, i, struct, violations, outcome>>

-----------------------------------------------------------------------------
(* buildPlan.                                                              *)
Top    == Last(frames)
Field  == types[Top.ty][Top.at]
Index  == Append(Top.index, Top.at)
Key    == Top.prefix \o Field.env
Walking == pc = "walk" /\ Top.at <= Len(types[Top.ty])
NextField == [frames EXCEPT ![Len(frames)].at = @ + 1]

(* w.seen has the keys of the bindings made so far.                        *)
Claimed(key) == \E b \in ToSet(bindings) : b.env = key

HasKey == Field.env \notin {NoTag, <<>>}

Unexported == ~Field.exported \/ Field.env = Dash

(* Mutant of Faulty: a cyclic type is walked.                              *)
FaultyNotCyclic ==
    \/ Field.env # NoTag /\ Field.prefix # NoTag
    \/ Nested(Field) /\ Field.prefix = NoTag
    \/ ~Nested(Field) /\ (HasKey => Claimed(Key) \/ ~Field.supported)

(* Both tags; a nested struct without a prefix, or inside itself; a value  *)
(* without a key, with one that is taken, or of a type without a decoder.  *)
Faulty ==
    \/ Field.env # NoTag /\ Field.prefix # NoTag
    \/ Nested(Field) /\ (Field.prefix = NoTag \/ Field.ty \in ToSet(active))
    \/ ~Nested(Field) /\ (HasKey => Claimed(Key) \/ ~Field.supported)

WalkSkips ==
    /\ Walking /\ Unexported
    /\ frames' = NextField
    /\ UNCHANGED <<program, pc, source, active, bindings, blocks, lookup, i, struct,
                   violations, outcome>>

WalkRejects ==
    /\ Walking /\ ~Unexported /\ Faulty
    /\ violations' = violations \cup {<<"schema", Index>>}
    /\ frames' = NextField
    /\ UNCHANGED <<program, pc, source, active, bindings, blocks, lookup, i, struct, outcome>>

WalkEnters ==
    /\ Walking /\ ~Unexported /\ ~Faulty /\ Nested(Field)
    /\ blocks' = IF Field.ptr THEN Append(blocks, Index) ELSE blocks
    /\ frames' = Append(NextField, [ty |-> Field.ty, at |-> 1,
                                    prefix |-> Top.prefix \o Field.prefix, index |-> Index])
    /\ active' = Append(active, Field.ty)
    /\ UNCHANGED <<program, pc, source, bindings, lookup, i, struct, violations, outcome>>

WalkBinds ==
    /\ Walking /\ ~Unexported /\ ~Faulty /\ ~Nested(Field)
    /\ bindings' = Append(bindings, [index |-> Index, env |-> Key,
                                     def |-> Field.def, ptr |-> Field.ptr])
    /\ frames' = NextField
    /\ UNCHANGED <<program, pc, source, active, blocks, lookup, i, struct, violations, outcome>>

WalkReturns ==
    /\ pc = "walk" /\ Top.at > Len(types[Top.ty]) /\ Len(frames) > 1
    /\ frames' = Front(frames) /\ active' = Front(active)
    /\ UNCHANGED <<program, pc, source, bindings, blocks, lookup, i, struct, violations, outcome>>

(* Load goes no further with a type that no environment can satisfy.       *)
WalkEnds ==
    /\ pc = "walk" /\ Top.at > Len(types[Top.ty]) /\ Len(frames) = 1
    /\ IF violations = {} THEN pc' = "resolve" /\ UNCHANGED outcome
                          ELSE pc' = "done" /\ outcome' = "error"
    /\ UNCHANGED <<program, source, plan, lookup, i, struct, violations>>

-----------------------------------------------------------------------------
(* Resolve.                                                                *)

Layer(environment, key) ==
    IF key \in DOMAIN environment THEN <<"os", environment[key]>>
    ELSE IF key \in DOMAIN dot THEN <<"dot", dot[key]>> ELSE Unset

(* Mutant of Absent: a default counts as presence.                         *)
AbsentOrDefaulted(block, found) ==
    \A b \in DOMAIN bindings :
        UnderBlock(bindings[b].index, block) => found[b] = Unset /\ bindings[b].def = NoTag

Absent(block, found) ==
    \A b \in DOMAIN bindings : UnderBlock(bindings[b].index, block) => found[b] = Unset

(* Every key is looked up before anything is decided.                      *)
Resolve ==
    /\ pc = "resolve"
    /\ \E keys \in SUBSET {b.env : b \in ToSet(bindings)} : os' \in [keys -> {"good", "bad"}]
    /\ res' = [b \in DOMAIN bindings |-> Layer(os', bindings[b].env)]
    /\ skip' = {b \in DOMAIN bindings : \E block \in ToSet(blocks) :
                   Absent(block, res') /\ UnderBlock(bindings[b].index, block)}
    /\ pc' = "decode"
    /\ UNCHANGED <<program, source, plan, i, struct, violations, outcome>>

-----------------------------------------------------------------------------
(* Decode.                                                                 *)
Decoding == pc = "decode" /\ i <= Len(bindings)

(* The block is absent, or the field a pointer that nobody set.            *)
DecodeSkips ==
    /\ Decoding
    /\ \/ i \in skip
       \/ res[i] = Unset /\ bindings[i].def = NoTag /\ bindings[i].ptr
    /\ i' = i + 1
    /\ UNCHANGED <<program, pc, source, plan, lookup, struct, violations, outcome>>

(* Mutant of DecodeMisses: the first violation ends the load.              *)
DecodeStops ==
    /\ Decoding /\ i \notin skip
    /\ res[i] = Unset /\ bindings[i].def = NoTag /\ ~bindings[i].ptr
    /\ violations' = violations \cup {<<"required", bindings[i].index>>}
    /\ i' = Len(bindings) + 1
    /\ UNCHANGED <<program, pc, source, plan, lookup, struct, outcome>>

DecodeMisses ==
    /\ Decoding /\ i \notin skip
    /\ res[i] = Unset /\ bindings[i].def = NoTag /\ ~bindings[i].ptr
    /\ violations' = violations \cup {<<"required", bindings[i].index>>}
    /\ i' = i + 1
    /\ UNCHANGED <<program, pc, source, plan, lookup, struct, outcome>>

Decode ==
    /\ Decoding /\ i \notin skip
    /\ res[i] # Unset \/ bindings[i].def # NoTag
    /\ LET b   == bindings[i]
           raw == IF res[i] # Unset THEN res[i] ELSE <<"default", b.def>>
       IN  /\ made' = made \cup {block \in ToSet(blocks) : UnderBlock(b.index, block)}
           /\ IF raw[2] = "good"
                THEN value' = Put(value, b.index, raw) /\ UNCHANGED violations
                ELSE /\ violations' = violations \cup {<<"decode", b.index>>}
                     /\ UNCHANGED value
    /\ i' = i + 1
    /\ UNCHANGED <<program, pc, source, plan, lookup, outcome>>

DecodeEnds ==
    /\ pc = "decode" /\ i > Len(bindings)
    /\ IF violations = {} THEN pc' = "validate" /\ UNCHANGED outcome
                          ELSE pc' = "done" /\ outcome' = "error"
    /\ UNCHANGED <<program, source, plan, lookup, i, struct, violations>>

(* The type's own Validate, if it has one.                                 *)
Validate ==
    /\ pc = "validate"
    /\ pc' = "done"
    /\ \/ outcome' = "loaded" /\ UNCHANGED violations
       \/ outcome' = "error" /\ violations' = {<<"validate", <<>>>>}
    /\ UNCHANGED <<program, source, plan, lookup, i, struct>>

Finished == pc = "done" /\ UNCHANGED vars

Next ==
    \/ SkipLine \/ BadLine \/ Assign \/ LoadBegins
    \/ WalkSkips \/ WalkRejects \/ WalkEnters \/ WalkBinds \/ WalkReturns \/ WalkEnds
    \/ Resolve
    \/ DecodeSkips \/ DecodeMisses \/ Decode \/ DecodeEnds
    \/ Validate
    \/ Finished

Spec == Init /\ [][Next]_vars

-----------------------------------------------------------------------------
(* What a load should say, told from the type and the sources alone.       *)

(* The fields of t at path, unless they are to be skipped, each with its   *)
(* prefix and the types around it.                                         *)
FieldsOf(t, path, prefix, around) ==
    {[at |-> Append(path, n), f |-> types[t][n], prefix |-> prefix, around |-> around \cup {t}] :
        n \in {n \in DOMAIN types[t] : types[t][n].exported /\ types[t][n].env # Dash}}

IsGroup(n) ==
    /\ Nested(n.f) /\ n.f.prefix # NoTag /\ n.f.env = NoTag
    /\ n.f.ty \notin n.around

Depths == 1..Cardinality(DOMAIN types)
FieldsAt[d \in Depths] ==
    IF d = 1 THEN FieldsOf(Root, <<>>, Prefix, {})
    ELSE UNION {FieldsOf(n.f.ty, n.at, n.prefix \o n.f.prefix, n.around) :
                  n \in {n \in FieldsAt[d - 1] : IsGroup(n)}}
Fields == UNION {FieldsAt[d] : d \in Depths}
Groups == {n \in Fields : IsGroup(n)}

KeyOf(n) == n.prefix \o n.f.env
Earlier(p, q) ==
    \E d \in DOMAIN p \cap DOMAIN q :
        SubSeq(p, 1, d - 1) = SubSeq(q, 1, d - 1) /\ p[d] < q[d]

(* The values that can be read; of those with one key, the first owns it.  *)
Readable == {n \in Fields : /\ ~Nested(n.f) /\ n.f.prefix = NoTag
                            /\ n.f.env \notin {NoTag, <<>>} /\ n.f.supported}
Owners == {n \in Readable : \A m \in Readable :
                              KeyOf(m) = KeyOf(n) => ~Earlier(m.at, n.at)}

SchemaFaults == {<<"schema", n.at>> : n \in Fields \ (Groups \cup Owners)}

(* Whose key an earlier field has, be either of a type without a decoder.  *)
Keyed == {n \in Fields : ~Nested(n.f) /\ n.f.prefix = NoTag /\ n.f.env \notin {NoTag, <<>>}}
SharedKeys == {n \in Keyed : \E m \in Keyed : KeyOf(m) = KeyOf(n) /\ Earlier(m.at, n.at)}

(* The structs that are not walked, for a tag or for a cycle.              *)
Refused == {n \in Fields : Nested(n.f)} \ Groups
Disputed(index) == \/ \E n \in SharedKeys : n.at = index
                   \/ \E n \in Refused : UnderBlock(index, n.at)

(* Fields of no use whatever the tags around them.                         *)
Unusable(f) ==
    /\ f.exported /\ f.env # Dash /\ ~Nested(f) /\ f.prefix = NoTag
    /\ f.env \in {NoTag, <<>>} \/ ~f.supported

Assigned(key) == {l \in ToSet(file) : l.form = "assign" /\ l.key = key}
Given(n) == KeyOf(n) \in DOMAIN os \/ Assigned(KeyOf(n)) # {}
Taken(n) ==
    CASE KeyOf(n) \in DOMAIN os -> <<"os", os[KeyOf(n)]>>
      [] KeyOf(n) \notin DOMAIN os /\ Given(n)
           -> <<"dot", (CHOOSE l \in Assigned(KeyOf(n)) : TRUE).val>>
      [] ~Given(n) /\ n.f.def # NoTag -> <<"default", n.f.def>>
      [] OTHER -> Unset

(* The optional blocks of which some source has a key, and the fields that *)
(* are in no other block.                                                  *)
OptedIn == {g \in Groups : g.f.ptr /\ \E n \in Owners : UnderBlock(n.at, g.at) /\ Given(n)}
Wanted == {n \in Owners : \A g \in Groups : g.f.ptr /\ UnderBlock(n.at, g.at) => g \in OptedIn}

Missing == {n \in Wanted : Taken(n) = Unset /\ ~n.f.ptr}
Broken  == {n \in Wanted : Taken(n) # Unset /\ Taken(n)[2] = "bad"}

(* The kind of a default that cannot be parsed, with nothing set: the docs *)
(* name it neither of a value that is set nor of the type.                 *)
ValueFaults(badDefault) ==
    {<<"required", n.at>> : n \in Missing}
    \cup {<<IF Given(n) THEN "decode" ELSE badDefault, n.at>> : n \in Broken}

SourceFaulty ==
    \E a \in DOMAIN file :
        \/ file[a].form \in {"no =", "no key"}
        \/ file[a].form = "assign" /\ file[a].val = "open"
        \/ file[a].form = "assign" /\ \E b \in 1..a - 1 :
              file[b].form = "assign" /\ file[b].key = file[a].key

-----------------------------------------------------------------------------
(* The walk of any type ends, one that contains itself by whatever detour  *)
(* too: each step goes on in the order of declaration, down or ahead, and  *)
(* the path is never longer than there are struct types (plan.go:68-76).   *)
WalkAdvances ==
    [][pc = "walk" /\ frames' # frames =>
         /\ IsStrictPrefix(Index, Index') \/ Earlier(Index, Index')
         /\ Len(frames') <= Cardinality(DOMAIN types)]_vars

(* A load reports all that is wrong with the type, or, if that is sound,   *)
(* with the values, at once, and nothing that is right (config.go:63).     *)
(* What the code and its documentation dispute is left open: whether a     *)
(* second field with one key is reported when the first has no decoder,    *)
(* and what is inside a struct that is not walked, and of which kind a bad *)
(* default is.                                                             *)
FaultsAreReported ==
    /\ outcome = "no source" => SourceFaulty
    /\ outcome = "error" =>
         IF SchemaFaults # {}
           THEN /\ SchemaFaults \subseteq violations
                /\ \A v \in violations \ SchemaFaults : v[1] = "schema" /\ Disputed(v[2])
         ELSE IF Missing \cup Broken # {}
           THEN \E badDefault \in {"schema", "decode"} : violations = ValueFaults(badDefault)
         ELSE violations = {<<"validate", <<>>>>}
    /\ outcome = "loaded" => ~SourceFaulty /\ SchemaFaults = {} /\ Missing \cup Broken = {}

(* Validate, and the caller, see the whole struct: each field has what the *)
(* first source with its key says, or else its default, or is nil; an      *)
(* optional block is there if and only if a source has one of its keys,    *)
(* whatever its defaults, and nothing in an absent one has been set        *)
(* (config.go:31-32, 47-57, source.go:30-31).                              *)
ValueIsWhole ==
    pc = "validate" \/ outcome = "loaded" =>
        LET set == {n \in Wanted : Taken(n) # Unset} IN
        /\ Missing = {} /\ Broken = {}
        /\ DOMAIN value = {n.at : n \in set}
        /\ \A n \in set : value[n.at] = Taken(n)
        /\ made = {g.at : g \in OptedIn}

-----------------------------------------------------------------------------
(* What the documentation says of a violation, and the code does not do.   *)

TypeReported == outcome = "error" /\ \E v \in violations : v[1] = "schema"

(* Two fields with one key are a problem of the type (errors.go:12-14),    *)
(* and the list of those is complete (plan.go:41-42).                      *)
SharedKeyIsReported == TypeReported => \A n \in SharedKeys : <<"schema", n.at>> \in violations

(* And the fields, in a struct that is not walked for its own tags, that   *)
(* no prefix could make usable are problems too (errors.go:12-14, 69-70).  *)
RefusedStructIsRead ==
    TypeReported =>
        \A n \in {n \in Refused : n.f.ty \notin n.around} : \A k \in DOMAIN types[n.f.ty] :
            Unusable(types[n.f.ty][k]) => <<"schema", Append(n.at, k)>> \in violations

(* A decode violation is of a value that is set (errors.go:21-22).         *)
DecodeMeansSet ==
    \A b \in DOMAIN bindings : <<"decode", bindings[b].index>> \in violations => res[b] # Unset

(* The violations are those that errors.go and plan.go describe.  Each     *)
(* part fails by itself: what FaultsAreReported leaves open.               *)
FaultsAreAsDocumented == SharedKeyIsReported /\ RefusedStructIsRead /\ DecodeMeansSet
=============================================================================
