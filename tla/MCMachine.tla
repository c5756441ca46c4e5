----------------------------- MODULE MCMachine -----------------------------
(***************************************************************************)
(* Functions of x and y for Machine: expressions of depth two, loops with  *)
(* every kind of statement in their bodies, nested loops, match, and       *)
(* recursion.                                                              *)
(***************************************************************************)
EXTENDS Machine

N(v)      == [op |-> "int", val |-> v]
V(n)      == [op |-> "var", name |-> n]
B(o, a, b) == [op |-> o, l |-> a, r |-> b]
U(o, a)   == [op |-> o, l |-> a]
Self(a, b) == [op |-> "call", args |-> <<a, b>>]

Let(n, e) == [op |-> "let", name |-> n, e |-> e]
Set(n, e) == [op |-> "assign", name |-> n, e |-> e]
If(c, t, e) == [op |-> "if", c |-> c, then |-> t, else |-> e]
While(c, b) == [op |-> "while", c |-> c, body |-> b]
For(n, c, b) == [op |-> "for", init |-> Let(n, N(0)), c |-> c,
                 step |-> Set(n, B("+", V(n), N(1))), body |-> b]
Match(e, arms) == [op |-> "match", e |-> e, arms |-> arms]
Arm(p, b) == [op |-> "arm", pat |-> p, body |-> b]
Return(e) == [op |-> "return", e |-> e]
Break     == [op |-> "break"]
Continue  == [op |-> "continue"]
Fn(b)     == [params |-> <<"x", "y">>, body |-> b]

x == V("x")
y == V("y")
i == V("i")
s == V("s")
Inc(n, e) == Set(n, B("+", V(n), e))

\* A function with a call does not pin its locals.
Cold(b)   == <<If(B("<", x, N(0)), <<Return(Self(N(1), y))>>, <<>>)>> \o b
Both(bs)  == {Fn(b) : b \in bs} \cup {Fn(Cold(b)) : b \in bs}

Leaves == {x, y, N(2)}
Inner  == Leaves \cup {B("-", x, y), B("%", x, y), B("==", x, N(2)), U("!", x), U("neg", y)}
Exprs  == {B(o, a, b) : o \in {"+", "-", "*", "/", "<", "&&", "||"}, a, b \in Inner}
            \cup {B(o, a, N(2)) : o \in {"<<", ">>"}, a \in Inner}

Straight == {<<Let("s", e), Return(B("-", s, x))>> : e \in Exprs}
Tests    == {<<Let("s", y), If(e, <<Inc("s", N(2))>>, <<Set("s", x)>>), Return(s)>> : e \in Exprs}

\* What a loop body does with s: in place, through rax, under a condition,
\* leaving the loop, or with a match whose arm leaves it.
Simple == {Inc("s", i), Inc("s", N(3)), Set("s", B("-", B("*", s, N(2)), i)), Inc("s", B("%", x, i))}
Jumps  == {Break, Continue, Return(s)}
Bodies == {<<a>> : a \in Simple}
            \cup {<<a, b>> : a, b \in Simple}
            \cup {<<If(B("==", i, y), <<j>>, <<>>), a>> : a \in Simple, j \in Jumps}
            \cup {<<If(B(">", s, y), <<a>>, <<j>>), b>> : a, b \in Simple, j \in Jumps}
            \cup {<<Match(i, <<Arm(y, <<j>>), Arm(N(2), <<a>>)>>), b>> : a, b \in Simple, j \in Jumps}

Up     == Inc("i", N(1))
Order  == {<<Let("s", N(0)), Let("i", N(0))>>, <<Let("i", N(0)), Let("s", N(0))>>}
Whiles == {o \o <<While(B("<", i, x), <<Up>> \o b), Return(B("+", s, i))>> : o \in Order, b \in Bodies}
Fors   == {<<Let("s", N(0)), For("i", B("<", i, x), b), Return(s)>> : b \in Bodies}
Nested == {<<Let("i", N(0)), Let("s", N(0)),
             While(B("<", i, x), <<Up, For("j", B("<", V("j"), y), <<a>> \o b), Inc("s", i)>>),
             Return(s)>> : a \in Simple, b \in {<<If(B(">", s, N(4)), <<j>>, <<>>)>> : j \in Jumps}}

Recursive == {Fn(<<If(B("<", x, N(1)), <<Return(y)>>, <<>>), Return(e)>>) :
  e \in {Self(B("-", x, N(1)), B("+", y, x)), Self(B("-", x, N(1)), B("-", x, y)),
         B("+", Self(B("-", x, N(1)), y), x), B("-", x, Self(B("-", x, N(1)), B("*", y, N(2))))}}

\* A body that ends without return.
FallsOff == Fn(Cold(<<Let("s", y), If(B("<", s, x), <<Return(s)>>, <<>>)>>))

AllLoops == Both(Whiles) \cup Both(Fors) \cup Both(Nested)

MCArgs == {-1, 0, 3}

AllFunctions  == Both(Straight \cup Tests) \cup AllLoops \cup Recursive \cup {FallsOff}
LoopFunctions == Both(Whiles)

Programs_(functions) == {p \in {Compiled(f) : f \in functions} : ~p.error}

\* The functions without a reload left out at the top of a loop, and all loops.
StraightReloads == {p \in Programs_(AllFunctions) : ~ReloadAtLoopTop(p)}
LoopPrograms    == Programs_(LoopFunctions)
=============================================================================
