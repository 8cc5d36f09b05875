------------------------------ MODULE MCConfig ------------------------------
(***************************************************************************)
(* Three struct types: Root nests F, F nests H, and either may try to nest *)
(* one that it is in.  The keys are made of two tags and a prefix, such    *)
(* that a field with a prefix in its tag meets one with it in its group.   *)
(***************************************************************************)
EXTENDS Config

Val(key, ptr, def) ==
    [exported |-> TRUE, env |-> key, prefix |-> NoTag, ty |-> "value", ptr |-> ptr,
     def |-> def, supported |-> TRUE]
Group(ty, prefix, ptr) ==
    [exported |-> TRUE, env |-> NoTag, prefix |-> prefix, ty |-> ty, ptr |-> ptr,
     def |-> NoTag, supported |-> TRUE]

a  == <<"a">>
b  == <<"b">>
pa == <<"p", "a">>

Plain  == Val(a, FALSE, NoTag)
Values == {Plain, Val(b, FALSE, "good"), Val(b, TRUE, NoTag), Val(pa, FALSE, "bad")}
Odd == {Val(NoTag, FALSE, NoTag), Val(<<>>, FALSE, NoTag), Val(Dash, FALSE, NoTag),
            [Plain EXCEPT !.exported = FALSE], [Plain EXCEPT !.supported = FALSE],
            [Plain EXCEPT !.prefix = <<>>], [Plain EXCEPT !.ty = "F"]}
GroupsOf(tys) == {Group(ty, prefix, ptr) : ty \in tys, prefix \in {NoTag, <<>>, <<"p">>},
                                           ptr \in BOOLEAN}

RootFields == Values \cup Odd \cup GroupsOf({"F"})
InnerFields == Values \cup {[Plain EXCEPT !.supported = FALSE], Group("H", <<"p">>, TRUE),
                            Group("H", <<>>, FALSE), Group("F", <<"p">>, TRUE),
                            Group("Root", <<>>, FALSE)}
Leaf == <<Val(a, FALSE, NoTag), Val(b, FALSE, "good")>>

MCPrefix == <<"w">>

Line(form, key, val) == [form |-> form, key |-> MCPrefix \o key, val |-> val]
Lines == {Line("blank", <<>>, "good"), Line("no =", <<>>, "good"), Line("no key", <<>>, "good"),
          Line("assign", a, "good"), Line("assign", a, "open"), Line("assign", pa, "bad")}

MCPrograms ==
    {[types |-> [Root |-> <<x, y>>, F |-> <<z>>, H |-> Leaf], file |-> f] :
        x \in RootFields, y \in RootFields, z \in InnerFields,
        f \in {<<>>, <<Line("assign", a, "good")>>}}
    \cup
    {[types |-> [Root |-> <<Plain, Group("F", <<"p">>, TRUE)>>,
                 F |-> <<z, Group("H", <<"q">>, TRUE)>>, H |-> Leaf], file |-> <<f, g, h>>] :
        z \in Values, f \in Lines, g \in Lines, h \in Lines}
=============================================================================
