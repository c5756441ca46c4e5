---------------------------- MODULE ImportProofs ----------------------------
(***************************************************************************)
(* resolve_imports keeps its stack equal to the chain of open files, for   *)
(* every file system and every capacity, until something overflows; no     *)
(* file is read inside itself when imports are named without "."; and a    *)
(* call reaches the function that is meant, through whatever chain of      *)
(* aliases, for every file system of names and paths in their usual form   *)
(* (CallsReachTheirFunctions).                                             *)
(*                                                                         *)
(* The last: renaming, and joining what files brought, keep where names    *)
(* were written and make equal names equal; so once two functions have the *)
(* same name, two have to the end, and as long as none have, every name of *)
(* the imported text still stands for what it stood for.                   *)
(***************************************************************************)
EXTENDS Imports, SequenceTheorems, WellFoundedInduction, FiniteSetTheorems, TLAPS

\* A sequence, of whatever.
IsSequence(s) == \E S : s \in Seq(S)

\* A record as Frame makes it.
IsFrame(f) ==
  \E p, l, r, b, a, n :
    f = [path |-> p, rest |-> l, result |-> r, body |-> b, aliases |-> a, as |-> n]

Frames(fs) == IsSequence(fs) /\ \A i \in 1..Len(fs) : IsFrame(fs[i])

Shape == Frames(frames) /\ IsSequence(stack)

\* The inductive invariant: the stack is the chain, and within its capacity.
ChainInv == Shape /\ Len(stack) <= MaxDepth /\ StackIsChain

-----------------------------------------------------------------------------
(* Sequences *)

\* A sequence and any value: a set to which both the sequence's elements
\* and the value belong.
LEMMA Sequence ==
  ASSUME NEW s, IsSequence(s), NEW e
  PROVE  \E S : s \in Seq(S) /\ e \in S
  <1>1. PICK S : s \in Seq(S)
    BY DEF IsSequence
  <1>2. s \in Seq(S \cup {e})
    BY <1>1, SeqMonotonic
  <1> QED BY <1>2

\* A sequence's length and domain, and that only the empty one has length
\* 0.
LEMMA Length ==
  ASSUME NEW s, IsSequence(s)
  PROVE  Len(s) \in Nat /\ DOMAIN s = 1..Len(s) /\ (s # <<>> => Len(s) # 0)
  <1>1. PICK S : s \in Seq(S)
    BY DEF IsSequence
  <1> QED BY <1>1, LenProperties, EmptySeq

\* What Append does, whatever the elements are.
LEMMA OneMore ==
  ASSUME NEW s, IsSequence(s), NEW e
  PROVE  /\ IsSequence(Append(s, e))
         /\ Len(Append(s, e)) = Len(s) + 1
         /\ \A i \in 1..Len(s) : Append(s, e)[i] = s[i]
         /\ Append(s, e)[Len(s) + 1] = e
  <1>1. PICK S : s \in Seq(S) /\ e \in S
    BY Sequence
  <1> QED BY <1>1, AppendProperties DEF IsSequence

\* Where the elements of a longer sequence are.
LEMMA OneMoreAt ==
  ASSUME NEW s, IsSequence(s), NEW e
  PROVE  /\ Len(Append(s, e)) = Len(s) + 1 /\ Append(s, e)[Len(s) + 1] = e
         /\ \A i \in 1..Len(s) : Append(s, e)[i] = s[i]
  <1>1. PICK S : s \in Seq(S) /\ e \in S
    BY Sequence
  <1> QED BY <1>1, AppendProperties

\* What taking a prefix does.
LEMMA OneLess ==
  ASSUME NEW s, IsSequence(s), NEW n \in 0..Len(s)
  PROVE  /\ IsSequence(SubSeq(s, 1, n))
         /\ Len(SubSeq(s, 1, n)) = n
         /\ \A i \in 1..n : SubSeq(s, 1, n)[i] = s[i]
  <1>1. PICK S : s \in Seq(S)
    BY DEF IsSequence
  <1>2. Len(s) \in Nat /\ \A i \in 1..n : s[i] \in S
    BY <1>1, ElementOfSeq, LenProperties
  <1>3. n \in Int /\ n >= 0
    BY <1>2
  <1>4. /\ SubSeq(s, 1, n) \in Seq(S)
        /\ Len(SubSeq(s, 1, n)) = IF 1 <= n THEN n - 1 + 1 ELSE 0
        /\ \A i \in 1..n - 1 + 1 : SubSeq(s, 1, n)[i] = s[1 + i - 1]
    BY <1>2, <1>3, SubSeqProperties
  <1> QED BY <1>3, <1>4 DEF IsSequence

\* What SetTop does to a sequence: its last element is replaced, nothing
\* else.
LEMMA Replaced ==
  ASSUME NEW s, IsSequence(s), s # <<>>, NEW e
  PROVE  /\ IsSequence([s EXCEPT ![Len(s)] = e])
         /\ Len([s EXCEPT ![Len(s)] = e]) = Len(s)
         /\ \A i \in 1..Len(s) - 1 : [s EXCEPT ![Len(s)] = e][i] = s[i]
         /\ [s EXCEPT ![Len(s)] = e][Len(s)] = e
  <1>1. PICK S : s \in Seq(S) /\ e \in S
    BY Sequence
  <1>2. Len(s) \in 1..Len(s) /\ Len(s) \in Nat
    BY Length
  <1> QED BY <1>1, <1>2, ExceptSeq DEF IsSequence

-----------------------------------------------------------------------------
(* Steps *)

\* What the stack and the chain have to do with each other, for paths that are
\* given as a sequence of their own.
PathOf(f) == f.path

Chain(fs, st) ==
  /\ fs # <<>> => /\ Len(st) = Len(fs)
                  /\ \A i \in 1..Len(fs) : st[i] = PathOf(fs[i])
  /\ \A i, j \in 1..Len(st) : st[i] = st[j] => i = j

\* Two ranges from 1 are equal only up to the same bound.
LEMMA SameBound ==
  ASSUME NEW a \in Nat, NEW b \in Nat, 1..a = 1..b
  PROVE  a = b
  <1>1. a \in 1..a \/ a = 0
    OBVIOUS
  <1>2. b \in 1..b \/ b = 0
    OBVIOUS
  <1>3. (a \in 1..b \/ a = 0) /\ (b \in 1..a \/ b = 0)
    BY <1>1, <1>2, Zenon
  <1> QED BY <1>3

\* StackIsChain, which compares two functions, is Chain, which compares
\* element by element.
LEMMA ChainIsStack ==
  ASSUME Shape
  PROVE  StackIsChain <=> (~overflow => Chain(frames, stack))
  <1>1. DOMAIN stack = 1..Len(stack) /\ DOMAIN frames = 1..Len(frames)
        /\ Len(stack) \in Nat /\ Len(frames) \in Nat
    BY Length DEF Shape, Frames
  <1>2. PICK S : stack \in Seq(S)
    BY DEF Shape, IsSequence
  <1>3. stack = [i \in 1..Len(stack) |-> stack[i]]
    BY <1>2, LenProperties
  <1>4. (stack = [i \in DOMAIN frames |-> frames[i].path])
          <=> (Len(stack) = Len(frames) /\ \A i \in 1..Len(frames) : stack[i] = frames[i].path)
    <2>1. ASSUME stack = [i \in DOMAIN frames |-> frames[i].path]
          PROVE  Len(stack) = Len(frames) /\ \A i \in 1..Len(frames) : stack[i] = frames[i].path
      <3>1. DOMAIN stack = 1..Len(frames)
        BY <1>1, <2>1
      <3>2. 1..Len(stack) = 1..Len(frames)
        BY <1>1, <3>1
      <3>3. Len(stack) = Len(frames)
        BY <1>1, <3>2, SameBound
      <3>4. ASSUME NEW i \in 1..Len(frames)
            PROVE  stack[i] = frames[i].path
        <4>1. i \in DOMAIN frames
          BY <1>1, Zenon
        <4>2. [k \in DOMAIN frames |-> frames[k].path][i] = frames[i].path
          BY <4>1, Zenon
        <4> QED BY <2>1, <4>2, Zenon
      <3> QED BY <3>3, <3>4, Zenon
    <2>2. ASSUME Len(stack) = Len(frames), \A i \in 1..Len(frames) : stack[i] = frames[i].path
          PROVE  stack = [i \in DOMAIN frames |-> frames[i].path]
      <3>1. stack = [i \in DOMAIN frames |-> stack[i]]
        BY <1>1, <1>3, <2>2, Zenon
      <3>2. \A i \in DOMAIN frames : stack[i] = frames[i].path
        BY <1>1, <2>2, Zenon
      <3> QED BY <3>1, <3>2, Zenon
    <2> QED BY <2>1, <2>2
  <1> QED BY <1>1, <1>4 DEF StackIsChain, Chain, PathOf

\* Reading a line leaves a frame a frame, of the same path.
LEMMA ReadOn ==
  ASSUME NEW f, IsFrame(f), NEW e
  PROVE  IsFrame([f EXCEPT !.rest = e]) /\ [f EXCEPT !.rest = e].path = f.path
  <1>1. PICK p, l, r, b, a, n :
             f = [path |-> p, rest |-> l, result |-> r, body |-> b, aliases |-> a, as |-> n]
    BY DEF IsFrame
  <1>2. [f EXCEPT !.rest = e]
          = [path |-> p, rest |-> e, result |-> r, body |-> b, aliases |-> a, as |-> n]
    BY <1>1
  <1>3. f.path = p
    BY <1>1
  <1>4. [f EXCEPT !.rest = e].path = p
    BY <1>2
  <1>5. IsFrame([f EXCEPT !.rest = e])
    BY <1>2, Zenon DEF IsFrame
  <1> QED BY <1>3, <1>4, <1>5, Zenon

\* So does copying one to the body.
LEMMA Collected ==
  ASSUME NEW f, IsFrame(f), NEW e
  PROVE  IsFrame([f EXCEPT !.body = e]) /\ [f EXCEPT !.body = e].path = f.path
  <1>1. PICK p, l, r, b, a, n :
             f = [path |-> p, rest |-> l, result |-> r, body |-> b, aliases |-> a, as |-> n]
    BY DEF IsFrame
  <1>2. [f EXCEPT !.body = e]
          = [path |-> p, rest |-> l, result |-> r, body |-> e, aliases |-> a, as |-> n]
    BY <1>1
  <1>3. f.path = p
    BY <1>1
  <1>4. [f EXCEPT !.body = e].path = p
    BY <1>2
  <1>5. IsFrame([f EXCEPT !.body = e])
    BY <1>2, Zenon DEF IsFrame
  <1> QED BY <1>3, <1>4, <1>5, Zenon

\* So does taking what an import brought.
LEMMA Brought ==
  ASSUME NEW f, IsFrame(f), NEW e, NEW g
  PROVE  /\ IsFrame([f EXCEPT !.result = e, !.aliases = g])
         /\ [f EXCEPT !.result = e, !.aliases = g].path = f.path
  <1>1. PICK p, l, r, b, a, n :
             f = [path |-> p, rest |-> l, result |-> r, body |-> b, aliases |-> a, as |-> n]
    BY DEF IsFrame
  <1>2. [f EXCEPT !.result = e, !.aliases = g]
          = [path |-> p, rest |-> l, result |-> e, body |-> b, aliases |-> g, as |-> n]
    <2>1. [f EXCEPT !.result = e]
            = [path |-> p, rest |-> l, result |-> e, body |-> b, aliases |-> a, as |-> n]
      BY <1>1
    <2>2. ASSUME NEW h,
                 h = [path |-> p, rest |-> l, result |-> e, body |-> b, aliases |-> a, as |-> n]
          PROVE  [h EXCEPT !.aliases = g]
            = [path |-> p, rest |-> l, result |-> e, body |-> b, aliases |-> g, as |-> n]
      BY <2>2
    <2>3. [[f EXCEPT !.result = e] EXCEPT !.aliases = g]
            = [path |-> p, rest |-> l, result |-> e, body |-> b, aliases |-> g, as |-> n]
      BY <2>1, <2>2, Zenon
    <2> QED BY <2>3, Zenon
  <1>3. f.path = p
    BY <1>1
  <1>4. [f EXCEPT !.result = e, !.aliases = g].path = p
    BY <1>2
  <1>5. IsFrame([f EXCEPT !.result = e, !.aliases = g])
    BY <1>2, Zenon DEF IsFrame
  <1> QED BY <1>3, <1>4, <1>5, Zenon

\* A new call of resolve_imports is a frame of the path it was given.
LEMMA Opened ==
  ASSUME NEW path, NEW lines, NEW as
  PROVE  IsFrame(Frame(path, lines, as)) /\ Frame(path, lines, as).path = path
  BY DEF IsFrame, Frame

\* The innermost file reads on.
LEMMA TopReplaced ==
  ASSUME NEW fs, Frames(fs), fs # <<>>, NEW st, IsSequence(st),
         NEW g, IsFrame(g), PathOf(g) = PathOf(fs[Len(fs)])
  PROVE  /\ Frames([fs EXCEPT ![Len(fs)] = g])
         /\ [fs EXCEPT ![Len(fs)] = g] # <<>>
         /\ Len([fs EXCEPT ![Len(fs)] = g]) = Len(fs)
         /\ Chain(fs, st) => Chain([fs EXCEPT ![Len(fs)] = g], st)
  <1> DEFINE gs == [fs EXCEPT ![Len(fs)] = g]
  <1>1. Len(fs) \in Nat /\ Len(fs) # 0 /\ Len(st) \in Nat
    BY Length DEF Frames
  <1>2. /\ IsSequence(gs) /\ Len(gs) = Len(fs)
        /\ \A i \in 1..Len(fs) - 1 : gs[i] = fs[i]
        /\ gs[Len(fs)] = g
    BY Replaced DEF Frames
  <1> HIDE DEF gs
  <1>3. \A i \in 1..Len(fs) : i # Len(fs) => gs[i] = fs[i]
    BY <1>1, <1>2
  <1>4. gs # <<>>
    BY <1>1, <1>2
  <1>5. Frames(gs)
    BY <1>2, <1>3 DEF Frames
  <1>6. Chain(fs, st) => Chain(gs, st)
    BY <1>1, <1>2, <1>3, <1>4 DEF Chain
  <1> QED BY <1>2, <1>4, <1>5, <1>6 DEF gs

\* A file is opened.
LEMMA Grows ==
  ASSUME NEW fs, Frames(fs), fs # <<>>, NEW st, IsSequence(st), NEW g, IsFrame(g)
  PROVE  /\ Frames(Append(fs, g)) /\ IsSequence(Append(st, PathOf(g)))
         /\ Len(Append(st, PathOf(g))) = Len(st) + 1
         /\ Chain(fs, st) /\ PathOf(g) \notin {st[i] : i \in 1..Len(st)}
              => Chain(Append(fs, g), Append(st, PathOf(g)))
  <1> DEFINE gs == Append(fs, g)
             tt == Append(st, PathOf(g))
  <1>1. Len(fs) \in Nat /\ Len(st) \in Nat
    BY Length DEF Frames
  <1>2. /\ IsSequence(gs) /\ Len(gs) = Len(fs) + 1
        /\ \A i \in 1..Len(fs) : gs[i] = fs[i]
        /\ gs[Len(fs) + 1] = g
    BY OneMore DEF Frames
  <1>3. /\ IsSequence(tt) /\ Len(tt) = Len(st) + 1
        /\ \A i \in 1..Len(st) : tt[i] = st[i]
        /\ tt[Len(st) + 1] = PathOf(g)
    BY OneMore
  <1> HIDE DEF gs, tt
  <1>4. Frames(gs)
    <2>1. \A i \in 1..Len(gs) : i \in 1..Len(fs) \/ i = Len(fs) + 1
      BY <1>1, <1>2
    <2> QED BY <1>2, <2>1 DEF Frames
  <1>5. ASSUME Chain(fs, st), PathOf(g) \notin {st[i] : i \in 1..Len(st)}
        PROVE  Chain(gs, tt)
    <2>1. Len(st) = Len(fs) /\ \A i \in 1..Len(fs) : st[i] = PathOf(fs[i])
      BY <1>5 DEF Chain
    <2>2. \A i \in 1..Len(gs) : tt[i] = PathOf(gs[i])
      <3>1. \A i \in 1..Len(gs) : i \in 1..Len(fs) \/ i = Len(fs) + 1
        BY <1>1, <1>2
      <3> QED BY <1>2, <1>3, <2>1, <3>1
    <2>3. \A i, j \in 1..Len(tt) : tt[i] = tt[j] => i = j
      BY <1>1, <1>3, <1>5 DEF Chain
    <2> QED BY <1>2, <1>3, <2>1, <2>2, <2>3 DEF Chain
  <1> QED BY <1>3, <1>4, <1>5 DEF gs, tt

\* A file ends, and its importer takes what it brought.
LEMMA Shrinks ==
  ASSUME NEW fs, Frames(fs), Len(fs) > 1, NEW st, IsSequence(st), st # <<>>,
         NEW g, IsFrame(g), PathOf(g) = PathOf(fs[Len(fs) - 1])
  PROVE  /\ Frames(Append(SubSeq(fs, 1, Len(fs) - 2), g)) /\ IsSequence(Front(st))
         /\ Len(Front(st)) = Len(st) - 1
         /\ Chain(fs, st) => Chain(Append(SubSeq(fs, 1, Len(fs) - 2), g), Front(st))
  <1> DEFINE hs == SubSeq(fs, 1, Len(fs) - 2)
             gs == Append(hs, g)
             tt == Front(st)
  <1>1. Len(fs) \in Nat /\ Len(st) \in Nat /\ Len(st) # 0
    BY Length DEF Frames
  <1>2. /\ IsSequence(hs) /\ Len(hs) = Len(fs) - 2
        /\ \A i \in 1..Len(fs) - 2 : hs[i] = fs[i]
    <2>1. Len(fs) - 2 \in 0..Len(fs)
      BY <1>1
    <2> QED BY <2>1, OneLess DEF Frames
  <1>3. /\ IsSequence(tt) /\ Len(tt) = Len(st) - 1
        /\ \A i \in 1..Len(st) - 1 : tt[i] = st[i]
    <2>1. Len(st) - 1 \in 0..Len(st)
      BY <1>1
    <2> QED BY <2>1, OneLess DEF Front
  <1> HIDE DEF hs, tt
  <1>4. /\ IsSequence(gs) /\ Len(gs) = Len(hs) + 1
        /\ \A i \in 1..Len(hs) : gs[i] = hs[i]
        /\ gs[Len(hs) + 1] = g
    BY <1>2, OneMore
  <1> HIDE DEF gs
  <1>5. /\ Len(gs) = Len(fs) - 1
        /\ \A i \in 1..Len(gs) : i # Len(gs) => gs[i] = fs[i]
        /\ gs[Len(gs)] = g
    BY <1>1, <1>2, <1>4
  <1>6. Frames(gs)
    <2>1. \A i \in 1..Len(gs) : i \in 1..Len(fs)
      BY <1>1, <1>5
    <2> QED BY <1>4, <1>5, <2>1 DEF Frames
  <1>7. ASSUME Chain(fs, st)
        PROVE  Chain(gs, tt)
    <2>1. fs # <<>>
      BY <1>1
    <2>2. Len(st) = Len(fs) /\ \A i \in 1..Len(fs) : st[i] = PathOf(fs[i])
      BY <1>7, <2>1 DEF Chain
    <2>3. \A i \in 1..Len(gs) : i \in 1..Len(fs) /\ tt[i] = st[i]
      BY <1>1, <1>3, <1>5, <2>2
    <2>4. \A i \in 1..Len(gs) : tt[i] = PathOf(gs[i])
      BY <1>5, <2>2, <2>3
    <2>5. \A i, j \in 1..Len(tt) : tt[i] = tt[j] => i = j
      BY <1>1, <1>3, <1>7 DEF Chain
    <2> QED BY <1>3, <1>5, <2>2, <2>4, <2>5 DEF Chain
  <1> QED BY <1>3, <1>6, <1>7 DEF gs, tt, hs

-----------------------------------------------------------------------------
(* The resolution *)

\* A chain of one: the main file and its path.
LEMMA StartsAsChain ==
  ASSUME ImportsInit
  PROVE  ChainInv
  <1>1. PICK main : /\ frames = <<Frame(main, disk[Plain(main)], NoAlias)>>
                    /\ stack = <<main>>
    BY DEF ImportsInit
  <1> DEFINE f == Frame(main, disk[Plain(main)], NoAlias)
  <1>2. IsFrame(f) /\ f.path = main
    BY Opened
  <1> HIDE DEF f
  <1>3. frames = <<f>>
    BY <1>1 DEF f
  <1>4. /\ frames \in Seq({f}) /\ Len(frames) = 1 /\ frames[1] = f
        /\ stack \in Seq({main}) /\ Len(stack) = 1 /\ stack[1] = main
    BY <1>1, <1>3
  <1>5. Shape
    BY <1>2, <1>4 DEF Shape, Frames, IsSequence
  <1>6. Chain(frames, stack)
    BY <1>2, <1>4 DEF Chain, PathOf
  <1>7. StackIsChain
    BY <1>5, <1>6, ChainIsStack
  <1> QED BY <1>4, <1>5, <1>7, CapacityAssumption DEF ChainInv

\* The invariant of a state, in the form the lemmas above take and give.
InForm ==
  /\ Frames(frames) /\ IsSequence(stack) /\ Len(stack) <= MaxDepth
  /\ ~overflow => Chain(frames, stack)

\* The inductive invariant is the form above, in every state ...
LEMMA ChainInForm == ChainInv <=> InForm
  BY ChainIsStack DEF ChainInv, Shape, InForm

\* ... and so in the next one.
LEMMA ChainInFormNext == ChainInv' <=> InForm'
  BY ChainInForm, PTL

\* A step that only reads on in the innermost file.
LEMMA InPlace ==
  ASSUME ChainInv, frames # <<>>, NEW g, IsFrame(g), g.path = Top.path,
         SetTop(g), UNCHANGED <<stack, overflow>>
  PROVE  ChainInv'
  <1>1. PathOf(g) = PathOf(frames[Len(frames)])
    BY DEF PathOf, Top
  <1>2. Frames(frames) /\ IsSequence(stack) /\ Len(stack) <= MaxDepth
        /\ (~overflow => Chain(frames, stack))
    BY ChainInForm DEF InForm
  <1>3. Frames(frames') /\ (Chain(frames, stack) => Chain(frames', stack))
    BY <1>1, <1>2, TopReplaced DEF SetTop
  <1>4. stack' = stack /\ overflow' = overflow
    OBVIOUS
  <1> QED BY <1>2, <1>3, <1>4, ChainInFormNext DEF InForm

\* The innermost frame is one, and stays one as it reads on.
LEMMA InnermostFrame ==
  ASSUME ChainInv, frames # <<>>
  PROVE  /\ Len(frames) \in Nat /\ Len(frames) # 0 /\ IsFrame(Top)
         /\ IsFrame(NextLine) /\ NextLine.path = Top.path
  <1>1. Frames(frames)
    BY DEF ChainInv, Shape
  <1>2. Len(frames) \in Nat /\ Len(frames) # 0
    BY <1>1, Length DEF Frames
  <1>3. IsFrame(Top)
    BY <1>1, <1>2 DEF Frames, Top
  <1>4. IsFrame(NextLine) /\ NextLine.path = Top.path
    BY <1>3, ReadOn, Zenon DEF NextLine
  <1> QED BY <1>2, <1>3, <1>4

\* A line that is not an import leaves the chain alone.
LEMMA ChainByCopyLine ==
  ASSUME ChainInv, CopyLine
  PROVE  ChainInv'
  <1> DEFINE b == NextLine.body \o Stamp(Line.toks, Top.path)
             g == [NextLine EXCEPT !.body = b]
  <1>1. frames # <<>> /\ SetTop(g) /\ stack' = stack /\ overflow' = overflow
    BY Zenon DEF CopyLine
  <1>2. IsFrame(g) /\ g.path = NextLine.path
    <2> HIDE DEF b
    <2>1. IsFrame(NextLine)
      BY <1>1, InnermostFrame
    <2> QED BY <2>1, Collected, Zenon
  <1>3. g.path = Top.path
    BY <1>1, <1>2, InnermostFrame
  <1> HIDE DEF g
  <1> QED BY <1>1, <1>2, <1>3, InPlace

\* So does an import that is not followed.
LEMMA ChainBySkip ==
  ASSUME ChainInv, SkipCircular \/ SkipUnreadable
  PROVE  ChainInv'
  <1>1. frames # <<>> /\ SetTop(NextLine) /\ stack' = stack /\ overflow' = overflow
    BY Zenon DEF SkipCircular, SkipUnreadable, AtImport
  <1>2. IsFrame(NextLine) /\ NextLine.path = Top.path
    BY <1>1, InnermostFrame
  <1> QED BY <1>1, <1>2, InPlace

\* The path is pushed when there is room for it; when there is none, that is
\* an overflow.
LEMMA ChainByDescend ==
  ASSUME ChainInv, Descend
  PROVE  ChainInv'
  <1> DEFINE g  == Frame(Target, disk[Plain(Target)], Line.as)
             fs == [frames EXCEPT ![Len(frames)] = NextLine]
  <1>1. /\ frames # <<>> /\ Target \notin ToSet(stack)
        /\ frames' = Append(fs, g)
        /\ Push(Target)
        /\ overflow' = (overflow \/ Len(stack) = MaxDepth)
    BY Zenon DEF Descend, AtImport
  <1>2. IsFrame(g) /\ PathOf(g) = Target
    BY Opened, Zenon DEF PathOf
  <1>3. /\ Frames(frames) /\ IsSequence(stack) /\ Len(stack) <= MaxDepth
        /\ ~overflow => Chain(frames, stack)
    BY ChainInForm DEF InForm
  <1>4. /\ IsFrame(NextLine) /\ PathOf(NextLine) = PathOf(frames[Len(frames)])
    BY <1>1, InnermostFrame DEF PathOf, Top
  <1>5. Frames(fs) /\ fs # <<>> /\ (Chain(frames, stack) => Chain(fs, stack))
    BY <1>1, <1>3, <1>4, TopReplaced
  <1>6. Target \notin {stack[i] : i \in 1..Len(stack)}
    BY <1>1, <1>3, Length, Zenon DEF ToSet
  <1> HIDE DEF g, fs
  <1>7. /\ Frames(Append(fs, g)) /\ IsSequence(Append(stack, Target))
        /\ Len(Append(stack, Target)) = Len(stack) + 1
        /\ Chain(fs, stack) => Chain(Append(fs, g), Append(stack, Target))
    BY <1>2, <1>3, <1>5, <1>6, Grows
  <1>8. Len(stack) \in Nat /\ MaxDepth \in Nat
    BY <1>3, Length, CapacityAssumption
  <1>9. CASE Len(stack) < MaxDepth
    <2>1. stack' = Append(stack, Target)
      BY <1>1, <1>9 DEF Push
    <2>2. Len(stack') <= MaxDepth
      BY <1>7, <1>8, <1>9, <2>1
    <2>3. ~overflow' => Chain(frames', stack')
      BY <1>1, <1>3, <1>5, <1>7, <2>1
    <2> QED BY <1>1, <1>7, <2>1, <2>2, <2>3, ChainInFormNext DEF InForm
  <1>10. CASE ~(Len(stack) < MaxDepth)
    <2>1. stack' = stack
      BY <1>1, <1>10 DEF Push
    <2>2. Len(stack) = MaxDepth
      BY <1>3, <1>8, <1>10
    <2>3. overflow'
      BY <1>1, <2>2, Zenon
    <2> QED BY <1>1, <1>3, <1>7, <2>1, <2>3, ChainInFormNext DEF InForm
  <1> QED BY <1>9, <1>10

\* The path is popped, if there is one: there is unless something overflowed.
LEMMA ChainByFinish ==
  ASSUME ChainInv, Finish
  PROVE  ChainInv'
  <1> DEFINE up   == frames[Len(frames) - 1]
             fits == Top.as = NoAlias \/ Len(up.aliases) < MaxAliases
             more == IF Top.as = NoAlias THEN Returned(Top) ELSE Namespaced(Returned(Top), Top.as)
             res  == up.result \o more
             als  == IF Top.as # NoAlias /\ fits THEN Append(up.aliases, Top.as) ELSE up.aliases
             g    == [up EXCEPT !.result = res, !.aliases = als]
             hs   == SubSeq(frames, 1, Len(frames) - 2)
  <1>1. /\ frames # <<>> /\ Len(frames) > 1
        /\ frames' = Append(hs, g)
        /\ overflow' = (overflow \/ ~fits)
        /\ Pop
    BY Zenon DEF Finish, Finished
  <1>2. /\ Frames(frames) /\ IsSequence(stack) /\ Len(stack) <= MaxDepth
        /\ ~overflow => Chain(frames, stack)
    BY ChainInForm DEF InForm
  <1>3. Len(frames) \in Nat /\ Len(stack) \in Nat /\ (stack # <<>> => Len(stack) # 0)
    BY <1>2, Length DEF Frames
  <1>4. IsFrame(up)
    BY <1>1, <1>2, <1>3 DEF Frames
  <1> HIDE DEF up, res, als
  <1>5. IsFrame(g) /\ PathOf(g) = PathOf(up)
    BY <1>4, Brought, Zenon DEF PathOf
  <1>6. PathOf(g) = PathOf(frames[Len(frames) - 1])
    BY <1>5, Zenon DEF up
  <1>7. overflow => overflow'
    BY <1>1, Zenon
  <1> HIDE DEF g, hs, fits
  <1>8. CASE stack # <<>>
    <2>1. /\ Frames(frames') /\ IsSequence(Front(stack))
          /\ Len(Front(stack)) = Len(stack) - 1
          /\ Chain(frames, stack) => Chain(frames', Front(stack))
      BY <1>1, <1>2, <1>5, <1>6, <1>8, Shrinks DEF hs
    <2>2. stack' = Front(stack)
      BY <1>1, <1>8 DEF Pop
    <2>3. MaxDepth \in Nat
      BY CapacityAssumption
    <2>4. Len(stack') <= MaxDepth
      BY <1>2, <1>3, <2>1, <2>2, <2>3
    <2> QED BY <1>2, <1>7, <2>1, <2>2, <2>4, ChainInFormNext DEF InForm
  <1>9. CASE stack = <<>>
    <2>1. IsSequence(<<0>>) /\ <<0>> # <<>>
      <3>1. <<0>> \in Seq({0})
        OBVIOUS
      <3>2. Len(<<0>>) = 1
        OBVIOUS
      <3> QED BY <3>1, <3>2 DEF IsSequence
    <2>2. Frames(frames')
      BY <1>1, <1>2, <1>5, <1>6, <2>1, Shrinks DEF hs
    <2>3. Len(stack) = 0
      BY <1>9
    <2>4. ~Chain(frames, stack)
      BY <1>1, <1>3, <2>3 DEF Chain
    <2>5. stack' = stack /\ overflow'
      BY <1>1, <1>2, <1>7, <1>9, <2>4 DEF Pop
    <2> QED BY <1>2, <2>2, <2>5, ChainInFormNext DEF InForm
  <1> QED BY <1>8, <1>9

\* When the main file ends the stack is left as it is: no name is on it twice.
LEMMA ChainByFinishMain ==
  ASSUME ChainInv, FinishMain
  PROVE  ChainInv'
  <1>1. frames # <<>> /\ frames' = <<>> /\ stack' = stack /\ overflow' = overflow
    BY DEF FinishMain, Finished
  <1>2. /\ Frames(frames) /\ IsSequence(stack) /\ Len(stack) <= MaxDepth
        /\ ~overflow => Chain(frames, stack)
    BY ChainInForm DEF InForm
  <1>3. Frames(<<>>)
    <2>1. <<>> \in Seq({0}) /\ Len(<<>>) = 0
      OBVIOUS
    <2> QED BY <2>1 DEF Frames, IsSequence
  <1>4. Chain(frames, stack) => Chain(<<>>, stack)
    BY DEF Chain
  <1> QED BY <1>1, <1>2, <1>3, <1>4, ChainInFormNext DEF InForm

\* StackIsChain: for every file system, every spelling of the main file and
\* every capacity, resolve_imports decides whether an import is circular by the
\* chain of files that are open, each named once, until something overflows.
THEOREM CircularIsByTheChain == ImportsSpec => []StackIsChain
  <1>1. ImportsInit => ChainInv
    BY StartsAsChain
  <1>2. ChainInv /\ [ImportsNext]_ivars => ChainInv'
    <2> SUFFICES ASSUME ChainInv, [ImportsNext]_ivars
                 PROVE  ChainInv'
      OBVIOUS
    <2>1. CASE CopyLine
      BY <2>1, ChainByCopyLine
    <2>2. CASE SkipCircular \/ SkipUnreadable
      BY <2>2, ChainBySkip
    <2>3. CASE Descend
      BY <2>3, ChainByDescend
    <2>4. CASE Finish
      BY <2>4, ChainByFinish
    <2>5. CASE FinishMain
      BY <2>5, ChainByFinishMain
    <2>6. CASE UNCHANGED ivars
      <3>1. frames' = frames /\ stack' = stack /\ overflow' = overflow
        BY <2>6 DEF ivars
      <3> QED BY <3>1, ChainInForm, ChainInFormNext DEF InForm
    <2> QED BY <2>1, <2>2, <2>3, <2>4, <2>5, <2>6 DEF ImportsNext
  <1>3. ChainInv => StackIsChain
    BY DEF ChainInv
  <1> QED BY <1>1, <1>2, <1>3, PTL DEF ImportsSpec

-----------------------------------------------------------------------------
\* What Plain keeps of a path.

\* Every nonempty set of numbers has a least one.
LEMMA LeastOf ==
  ASSUME NEW T \in SUBSET Nat, T # {}
  PROVE  \E x \in T : \A y \in T : ~(y < x)
  <1>1. PICK x \in T : \A y \in T : ~(<<y, x>> \in OpToRel(<, Nat))
    BY NatLessThanWellFounded, WFMin
  <1>2. ASSUME NEW y \in T PROVE ~(y < x)
    BY <1>1 DEF OpToRel
  <1> QED BY <1>2

\* What Plain keeps of p up to each of its first n directories.
Next1(p, i, before) == IF p[i] = "." THEN before ELSE Append(before, p[i])
Keeps(p, n, g) == g = [i \in 0..n |-> IF i = 0 THEN <<>> ELSE Next1(p, i, g[i - 1])]

\* There is such a function, ...
LEMMA KeptExists ==
  ASSUME NEW p, NEW n \in Nat
  PROVE  \E g : Keeps(p, n, g)
  <1> DEFINE Bad == {m \in Nat : ~\E g : Keeps(p, m, g)}
  <1>1. SUFFICES ASSUME n \in Bad PROVE FALSE
    OBVIOUS
  <1>2. PICK m \in Bad : \A k \in Bad : ~(k < m)
    BY <1>1, LeastOf, Zenon
  <1>3. m # 0
    <2> DEFINE e == [i \in 0..0 |-> <<>>]
    <2>1. \A i \in 0..0 : i = 0
      OBVIOUS
    <2>2. e = [i \in 0..0 |-> IF i = 0 THEN <<>> ELSE Next1(p, i, e[i - 1])]
      BY <2>1
    <2>3. Keeps(p, 0, e)
      BY <2>2 DEF Keeps
    <2>4. 0 \notin Bad
      BY <2>3, Zenon
    <2> QED BY <1>2, <2>4, Zenon
  <1>4. m \in Nat /\ m - 1 \in Nat /\ m - 1 < m
    BY <1>2, <1>3
  <1>5. PICK g : Keeps(p, m - 1, g)
    BY <1>2, <1>4, Zenon
  <1> DEFINE h == [i \in 0..m |-> IF i = m THEN Next1(p, m, g[m - 1]) ELSE g[i]]
             F(i) == IF i = 0 THEN <<>> ELSE Next1(p, i, h[i - 1])
  <1>6. ASSUME NEW i \in 0..m PROVE h[i] = F(i)
    <2>1. CASE i = m
      <3>1. h[i] = Next1(p, m, g[m - 1]) /\ i # 0 /\ i - 1 \in 0..m /\ i - 1 # m
        BY <1>3, <1>4, <2>1
      <3>2. h[i - 1] = g[m - 1]
        BY <2>1, <3>1
      <3> QED BY <2>1, <3>1, <3>2
    <2>2. CASE i # m
      <3>1. h[i] = g[i] /\ i \in 0..m - 1
        BY <1>4, <2>2
      <3>2. g[i] = IF i = 0 THEN <<>> ELSE Next1(p, i, g[i - 1])
        BY <1>5, <3>1, Zenon DEF Keeps
      <3>3. ASSUME i # 0 PROVE h[i - 1] = g[i - 1]
        <4>1. i - 1 \in 0..m /\ i - 1 # m
          BY <1>4, <2>2, <3>3
        <4> QED BY <4>1
      <3> HIDE DEF h
      <3> QED BY <3>1, <3>2, <3>3
    <2> QED BY <2>1, <2>2
  <1>7. h = [i \in 0..m |-> F(i)]
    <2> DEFINE D == 0..m
    <2> HIDE DEF D
    <2>1. h = [i \in D |-> h[i]]
      BY DEF D
    <2>2. \A i \in D : h[i] = F(i)
      BY <1>6 DEF D
    <2> HIDE DEF h, F
    <2> QED BY <2>1, <2>2, Zenon DEF D
  <1>8. Keeps(p, m, h)
    <2> HIDE DEF h
    <2> QED BY <1>7, Zenon DEF Keeps
  <1> QED BY <1>2, <1>8, Zenon

\* ... and it gives what Plain does.
LEMMA PlainIsKept ==
  ASSUME NEW p, Len(p) \in Nat
  PROVE  \E g : Keeps(p, Len(p), g) /\ Plain(p) = g[Len(p)]
  <1> DEFINE K(g) == g = [i \in 0..Len(p) |->
                            IF i = 0 THEN <<>>
                            ELSE IF p[i] = "." THEN g[i - 1] ELSE Append(g[i - 1], p[i])]
  <1>1. PICK g : Keeps(p, Len(p), g)
    BY KeptExists
  <1>2. K(g)
    BY <1>1, Zenon DEF Keeps, Next1
  <1>3. K(CHOOSE f : K(f))
    BY <1>2, Zenon
  <1>4. Plain(p) = (CHOOSE f : K(f))[Len(p)]
    BY Zenon DEF Plain
  <1>5. Keeps(p, Len(p), CHOOSE f : K(f))
    BY <1>3, Zenon DEF Keeps, Next1
  <1> QED BY <1>4, <1>5, Zenon

\* Two paths begin with the same k directories.
Agree(p, q, k) == \A i \in 1..k : p[i] = q[i]

\* Where two paths agree, the same is kept of them.
LEMMA KeptAgree ==
  ASSUME NEW p, NEW q, NEW n \in Nat, NEW m \in Nat, NEW g, NEW h,
         Keeps(p, n, g), Keeps(q, m, h),
         NEW k \in Nat, k <= n, k <= m, Agree(p, q, k)
  PROVE  g[k] = h[k]
  <1> DEFINE Bad == {j \in Nat : j <= k /\ g[j] # h[j]}
  <1>1. SUFFICES ASSUME k \in Bad PROVE FALSE
    OBVIOUS
  <1>2. PICK j \in Bad : \A i \in Bad : ~(i < j)
    BY <1>1, LeastOf, Zenon
  <1>3. j \in 0..n /\ j \in 0..m /\ j <= k /\ j \in Nat
    BY <1>2
  <1>4. /\ g[j] = IF j = 0 THEN <<>> ELSE Next1(p, j, g[j - 1])
        /\ h[j] = IF j = 0 THEN <<>> ELSE Next1(q, j, h[j - 1])
    BY <1>3, Zenon DEF Keeps
  <1>5. j # 0
    BY <1>2, <1>4
  <1>6. j - 1 \in Nat /\ j - 1 <= k /\ j - 1 < j /\ j \in 1..k
    BY <1>3, <1>5
  <1>7. g[j - 1] = h[j - 1]
    BY <1>2, <1>6
  <1>8. p[j] = q[j]
    BY <1>6, Zenon DEF Agree
  <1>9. g[j] = h[j]
    BY <1>4, <1>5, <1>7, <1>8, Zenon DEF Next1
  <1> QED BY <1>2, <1>9, Zenon

\* What is kept is a sequence.
LEMMA KeptSeq ==
  ASSUME NEW p, NEW n \in Nat, NEW g, Keeps(p, n, g), NEW k \in 0..n
  PROVE  IsSequence(g[k])
  <1> DEFINE Bad == {j \in Nat : j <= n /\ ~IsSequence(g[j])}
  <1>1. SUFFICES ASSUME k \in Bad PROVE FALSE
    OBVIOUS
  <1>2. PICK j \in Bad : \A i \in Bad : ~(i < j)
    BY <1>1, LeastOf, Zenon
  <1>3. j \in 0..n /\ j \in Nat
    BY <1>2
  <1>4. g[j] = IF j = 0 THEN <<>> ELSE Next1(p, j, g[j - 1])
    BY <1>3, Zenon DEF Keeps
  <1>5. j # 0
    <2>1. <<>> \in Seq({0})
      OBVIOUS
    <2>2. IsSequence(<<>>)
      BY <2>1, Zenon DEF IsSequence
    <2> QED BY <1>2, <1>4, <2>2, Zenon
  <1>6. j - 1 \in Nat /\ j - 1 <= n /\ j - 1 < j
    BY <1>3, <1>5
  <1>7. IsSequence(g[j - 1])
    BY <1>2, <1>6
  <1>8. IsSequence(Append(g[j - 1], p[j]))
    BY <1>7, OneMore
  <1> QED BY <1>2, <1>4, <1>5, <1>7, <1>8, Zenon DEF Next1

\* No directory of p after the d-th is ".", up to the n-th.
NoDots(p, d, n) == \A i \in (d + 1)..n : p[i] # "."

\* x has c elements and then the next k of p after the d-th.
Follows(x, c, p, d, k) == Len(x) = c + k /\ \A i \in 1..k : x[c + i] = p[d + i]

\* Directories after the d-th that are none of ".": they are kept as they are.
LEMMA KeptTail ==
  ASSUME NEW p, NEW n \in Nat, NEW g, Keeps(p, n, g), NEW d \in 0..n,
         NoDots(p, d, n)
  PROVE  Follows(g[n], Len(g[d]), p, d, n - d)
  <1> DEFINE c == Len(g[d])
             k == n - d
             Right(j) == /\ Len(g[d + j]) = c + j
                         /\ \A i \in 1..j : g[d + j][c + i] = p[d + i]
             Bad == {j \in Nat : j <= n - d /\ ~Right(j)}
  <1>0. c \in Nat /\ d \in Nat /\ k \in Nat /\ d + k = n
    BY KeptSeq, Length
  <1> HIDE DEF c
  <1>1. SUFFICES ASSUME k \in Bad PROVE FALSE
    <2>1. k \in Nat /\ k <= n - d
      BY <1>0
    <2>2. SUFFICES Right(k)
      BY <1>0 DEF c, Follows
    <2> HIDE DEF Right, k
    <2> QED BY <2>1, Zenon
  <1>2. PICK j \in Bad : \A i \in Bad : ~(i < j)
    <2> HIDE DEF Right
    <2> QED BY <1>1, LeastOf, Zenon
  <1>3. j \in Nat /\ j <= n - d
    BY <1>2
  <1>4. j # 0
    <2>1. Right(0)
      <3>1. d + 0 = d /\ c + 0 = c /\ 1..0 = {}
        BY <1>0
      <3> QED BY <3>1 DEF c
    <2> HIDE DEF Right
    <2> QED BY <1>2, <2>1, Zenon
  <1>5. j - 1 \in Nat /\ j - 1 <= n - d /\ j - 1 < j
    BY <1>3, <1>4
  <1>6. Right(j - 1)
    <2> HIDE DEF Right
    <2> QED BY <1>2, <1>5
  <1> DEFINE a == d + j
             b == d + (j - 1)
             x == g[b]
  <1>7. a \in 0..n /\ a # 0 /\ a - 1 = b /\ a \in (d + 1)..n /\ b \in 0..n
    BY <1>0, <1>3, <1>4, <1>5
  <1>8. g[a] = Append(x, p[a])
    <2> HIDE DEF a, b
    <2>1. g[a] = IF a = 0 THEN <<>> ELSE Next1(p, a, g[a - 1])
      BY <1>7, Zenon DEF Keeps
    <2>2. p[a] # "."
      BY <1>7, Zenon DEF NoDots
    <2> QED BY <1>7, <2>1, <2>2, Zenon DEF Next1
  <1>9. IsSequence(x) /\ Len(x) = c + (j - 1) /\ \A i \in 1..j - 1 : x[c + i] = p[d + i]
    BY <1>6, <1>7, KeptSeq
  <1>10. /\ Len(g[a]) = Len(x) + 1
         /\ \A i \in 1..Len(x) : g[a][i] = x[i]
         /\ g[a][Len(x) + 1] = p[a]
    <2> HIDE DEF a, b, x
    <2> QED BY <1>8, <1>9, OneMore
  <1> HIDE DEF x
  <1>11. Len(g[a]) = c + j
    BY <1>0, <1>3, <1>9, <1>10
  <1>12. ASSUME NEW i \in 1..j PROVE g[a][c + i] = p[d + i]
    <2>1. CASE i = j
      <3>1. Len(x) + 1 = c + i
        BY <1>0, <1>3, <1>9, <2>1
      <3> QED BY <1>10, <2>1, <3>1
    <2>2. CASE i # j
      <3>1. i \in 1..j - 1 /\ c + i \in 1..Len(x)
        BY <1>0, <1>3, <1>9, <2>2
      <3> HIDE DEF a
      <3> QED BY <1>9, <1>10, <3>1
    <2> QED BY <2>1, <2>2
  <1>13. Right(j)
    BY <1>11, <1>12
  <1> HIDE DEF Right
  <1> QED BY <1>2, <1>13

-----------------------------------------------------------------------------
\* Paths below a directory that lead to one file are spelled alike.

\* Two sequences one after the other.
LEMMA Joined ==
  ASSUME NEW s, IsSequence(s), NEW t, IsSequence(t)
  PROVE  /\ IsSequence(s \o t) /\ Len(s \o t) = Len(s) + Len(t)
         /\ \A i \in 1..Len(s) : (s \o t)[i] = s[i]
         /\ \A i \in 1..Len(t) : (s \o t)[Len(s) + i] = t[i]
  <1>1. PICK S, T : s \in Seq(S) /\ t \in Seq(T)
    BY DEF IsSequence
  <1>2. s \in Seq(S \cup T) /\ t \in Seq(S \cup T)
    BY <1>1, SeqMonotonic
  <1>3. /\ s \o t \in Seq(S \cup T) /\ Len(s \o t) = Len(s) + Len(t)
        /\ \A i \in 1..Len(s) + Len(t) :
             (s \o t)[i] = IF i <= Len(s) THEN s[i] ELSE t[i - Len(s)]
    BY <1>2, ConcatProperties
  <1>4. Len(s) \in Nat /\ Len(t) \in Nat
    BY Length
  <1>5. ASSUME NEW i \in 1..Len(t) PROVE (s \o t)[Len(s) + i] = t[i]
    <2>1. /\ Len(s) + i \in 1..Len(s) + Len(t) /\ ~(Len(s) + i <= Len(s))
          /\ (Len(s) + i) - Len(s) = i
      BY <1>4
    <2> QED BY <1>3, <2>1, Zenon
  <1>6. ASSUME NEW i \in 1..Len(s) PROVE (s \o t)[i] = s[i]
    <2>1. i \in 1..Len(s) + Len(t) /\ i <= Len(s)
      BY <1>4
    <2> QED BY <1>3, <2>1, Zenon
  <1> QED BY <1>3, <1>5, <1>6, Zenon DEF IsSequence

\* Sequences of one length with the same elements are equal.
LEMMA SameElements ==
  ASSUME NEW s, IsSequence(s), NEW t, IsSequence(t), Len(s) = Len(t),
         \A i \in 1..Len(s) : s[i] = t[i]
  PROVE  s = t
  <1>1. PICK S, T : s \in Seq(S) /\ t \in Seq(T)
    BY DEF IsSequence
  <1>2. s \in Seq(S \cup T) /\ t \in Seq(S \cup T)
    BY <1>1, SeqMonotonic
  <1> QED BY <1>2, SeqEqual

\* Directories none of which is ".".
Word(w) == IsSequence(w) /\ w # <<>> /\ \A i \in 1..Len(w) : w[i] # "."

\* Below one directory, however it is spelled, two such paths lead to one file
\* only when they are spelled alike.
LEMMA SpelledAlike ==
  ASSUME NEW D, IsSequence(D), NEW r, Word(r), NEW s, Word(s),
         Plain(D \o r) = Plain(D \o s)
  PROVE  D \o r = D \o s
  <1> DEFINE X == D \o r
             Y == D \o s
             e == Len(D)
             a == Len(X)
             b == Len(Y)
  <1>1. /\ IsSequence(r) /\ IsSequence(s)
        /\ \A i \in 1..Len(r) : r[i] # "."
        /\ \A i \in 1..Len(s) : s[i] # "."
    BY DEF Word
  <1>2. Len(D) \in Nat /\ Len(r) \in Nat /\ Len(s) \in Nat
    BY <1>1, Length
  <1>3. /\ IsSequence(X) /\ a = e + Len(r)
        /\ \A i \in 1..e : X[i] = D[i]
        /\ \A i \in 1..Len(r) : X[e + i] = r[i]
    BY <1>1, Joined
  <1>4. /\ IsSequence(Y) /\ b = e + Len(s)
        /\ \A i \in 1..e : Y[i] = D[i]
        /\ \A i \in 1..Len(s) : Y[e + i] = s[i]
    BY <1>1, Joined
  <1>5. Plain(X) = Plain(Y)
    OBVIOUS
  <1> HIDE DEF X, Y
  <1>0. Len(X) \in Nat /\ Len(Y) \in Nat
    BY <1>3, <1>4, Length
  <1>6. PICK u : Keeps(X, a, u) /\ Plain(X) = u[a]
    BY <1>0, PlainIsKept, Zenon
  <1>7. PICK v : Keeps(Y, b, v) /\ Plain(Y) = v[b]
    BY <1>0, PlainIsKept, Zenon
  <1> HIDE DEF e, a, b
  <1>8. e \in Nat /\ a \in Nat /\ b \in Nat /\ e \in 0..a /\ e \in 0..b
    BY <1>2, <1>3, <1>4 DEF e
  <1>9. u[e] = v[e]
    <2>1. Agree(X, Y, e)
      BY <1>3, <1>4 DEF Agree
    <2>2. e <= a /\ e <= b
      BY <1>8
    <2> QED BY <1>6, <1>7, <1>8, <2>1, <2>2, KeptAgree
  <1> DEFINE c == Len(u[e])
  <1>10. /\ Len(u[a]) = c + Len(r)
         /\ \A i \in 1..Len(r) : u[a][c + i] = X[e + i]
    <2>1. NoDots(X, e, a)
      <3> SUFFICES ASSUME NEW i \in (e + 1)..a PROVE X[i] # "."
        BY DEF NoDots
      <3>1. i - e \in 1..Len(r) /\ e + (i - e) = i
        BY <1>2, <1>3, <1>8
      <3> QED BY <1>1, <1>3, <3>1
    <2>2. Follows(u[a], c, X, e, a - e)
      BY <1>6, <1>8, <2>1, KeptTail
    <2>3. a - e = Len(r)
      BY <1>2, <1>3, <1>8
    <2> QED BY <2>2, <2>3 DEF Follows
  <1>11. /\ Len(v[b]) = c + Len(s)
         /\ \A i \in 1..Len(s) : v[b][c + i] = Y[e + i]
    <2>1. NoDots(Y, e, b)
      <3> SUFFICES ASSUME NEW i \in (e + 1)..b PROVE Y[i] # "."
        BY DEF NoDots
      <3>1. i - e \in 1..Len(s) /\ e + (i - e) = i
        BY <1>2, <1>4, <1>8
      <3> QED BY <1>1, <1>4, <3>1
    <2>2. Follows(v[b], c, Y, e, b - e)
      BY <1>7, <1>8, <1>9, <2>1, KeptTail
    <2>3. b - e = Len(s)
      BY <1>2, <1>4, <1>8
    <2> QED BY <2>2, <2>3 DEF Follows
  <1>12. c \in Nat
    BY <1>6, <1>8, KeptSeq, Length
  <1>13. u[a] = v[b]
    BY <1>5, <1>6, <1>7
  <1> HIDE DEF c
  <1>14. Len(r) = Len(s)
    BY <1>2, <1>10, <1>11, <1>12, <1>13
  <1>15. a = b
    BY <1>3, <1>4, <1>14
  <1>16. ASSUME NEW i \in 1..a PROVE X[i] = Y[i]
    <2>1. CASE i \in 1..e
      BY <1>3, <1>4, <2>1
    <2>2. CASE i \notin 1..e
      <3>1. i - e \in 1..Len(r) /\ e + (i - e) = i
        BY <1>2, <1>3, <1>8, <2>2
      <3> DEFINE l == i - e
      <3> HIDE DEF l
      <3>2. X[e + l] = Y[e + l]
        BY <1>10, <1>11, <1>13, <1>14, <3>1 DEF l
      <3> QED BY <3>1, <3>2 DEF l
    <2> QED BY <2>1, <2>2
  <1>17. X = Y
    BY <1>3, <1>4, <1>15, <1>16, SameElements DEF a, b
  <1> QED BY <1>17 DEF X, Y

\* What FullPath makes of a path below a directory stays below it.
LEMMA StaysBelow ==
  ASSUME NEW D, IsSequence(D), D # <<>>, NEW r, Word(r), NEW w, Word(w)
  PROVE  \E s : Word(s) /\ FullPath(D \o r, w) = D \o s
  <1> DEFINE X == D \o r
             u == SubSeq(r, 1, Len(r) - 1)
             Y == u \o w
  <1>1. /\ IsSequence(r) /\ IsSequence(w) /\ Len(r) \in Nat /\ Len(w) \in Nat
        /\ Len(D) \in Nat /\ Len(r) # 0 /\ Len(w) # 0 /\ Len(D) # 0
    BY Length DEF Word
  <1>2. /\ IsSequence(X) /\ Len(X) = Len(D) + Len(r)
        /\ \A i \in 1..Len(D) : X[i] = D[i]
        /\ \A i \in 1..Len(r) : X[Len(D) + i] = r[i]
    BY <1>1, Joined
  <1>3. /\ IsSequence(u) /\ Len(u) = Len(r) - 1
        /\ \A i \in 1..Len(r) - 1 : u[i] = r[i]
    <2>1. Len(r) - 1 \in 0..Len(r)
      BY <1>1
    <2> QED BY <1>1, <2>1, OneLess, Zenon
  <1> HIDE DEF u
  <1>4. /\ IsSequence(Y) /\ Len(Y) = Len(u) + Len(w)
        /\ \A i \in 1..Len(u) : Y[i] = u[i]
        /\ \A i \in 1..Len(w) : Y[Len(u) + i] = w[i]
    <2>1. IsSequence(u) /\ IsSequence(w)
      BY <1>1, <1>3
    <2>2. \A i \in 1..Len(w) : Y[Len(u) + i] = w[i]
      BY <2>1, Joined
    <2>3. /\ IsSequence(Y) /\ Len(Y) = Len(u) + Len(w)
          /\ \A i \in 1..Len(u) : Y[i] = u[i]
      BY <2>1, Joined, Zenon
    <2> HIDE DEF Y
    <2> QED BY <2>2, <2>3
  <1> HIDE DEF Y
  <1>5. Word(Y)
    <2>1. Y # <<>>
      BY <1>1, <1>3, <1>4
    <2>2. ASSUME NEW i \in 1..Len(Y) PROVE Y[i] # "."
      <3>1. CASE i \in 1..Len(u)
        BY <1>1, <1>3, <1>4, <3>1 DEF Word
      <3>2. CASE i \notin 1..Len(u)
        <4> DEFINE l == i - Len(u)
        <4>1. l \in 1..Len(w) /\ Len(u) + l = i
          BY <1>1, <1>3, <1>4, <3>2
        <4> HIDE DEF l
        <4>2. Y[Len(u) + l] = w[l] /\ w[l] # "."
          BY <1>4, <4>1 DEF Word
        <4> QED BY <4>1, <4>2
      <3> QED BY <3>1, <3>2
    <2> QED BY <1>4, <2>1, <2>2 DEF Word
  <1> DEFINE V == SubSeq(X, 1, Len(X) - 1)
             Z == D \o u
  <1> HIDE DEF X
  <1>6. DirOf(X) = V
    BY <1>1, <1>2 DEF DirOf, Front
  <1>7. V = Z
    <2>1. /\ IsSequence(V) /\ Len(V) = Len(X) - 1
          /\ \A i \in 1..Len(X) - 1 : V[i] = X[i]
      BY <1>1, <1>2, OneLess
    <2>2. /\ IsSequence(Z) /\ Len(Z) = Len(D) + Len(u)
          /\ \A i \in 1..Len(D) : Z[i] = D[i]
          /\ \A i \in 1..Len(u) : Z[Len(D) + i] = u[i]
      <3>1. IsSequence(D) /\ IsSequence(u)
        BY <1>3
      <3>2. \A i \in 1..Len(u) : Z[Len(D) + i] = u[i]
        BY <3>1, Joined
      <3>3. /\ IsSequence(Z) /\ Len(Z) = Len(D) + Len(u)
            /\ \A i \in 1..Len(D) : Z[i] = D[i]
        BY <3>1, Joined, Zenon
      <3> HIDE DEF Z
      <3> QED BY <3>2, <3>3
    <2> HIDE DEF V, Z
    <2>3. Len(V) = Len(Z)
      BY <1>1, <1>2, <1>3, <2>1, <2>2
    <2>4. ASSUME NEW i \in 1..Len(V) PROVE V[i] = Z[i]
      <3>1. CASE i \in 1..Len(D)
        BY <1>1, <1>2, <2>1, <2>2, <3>1
      <3>2. CASE i \notin 1..Len(D)
        <4> DEFINE l == i - Len(D)
        <4>1. l \in 1..Len(u) /\ Len(D) + l = i /\ l \in 1..Len(r)
          BY <1>1, <1>2, <1>3, <2>1, <3>2
        <4> HIDE DEF l
        <4>2. V[i] = X[i] /\ X[Len(D) + l] = r[l]
          BY <1>2, <2>1, <4>1
        <4>3. Z[Len(D) + l] = u[l] /\ u[l] = r[l]
          BY <1>3, <2>2, <4>1
        <4> QED BY <4>1, <4>2, <4>3
      <3> QED BY <3>1, <3>2
    <2> QED BY <2>1, <2>2, <2>3, <2>4, SameElements
  <1>8. (D \o u) \o w = D \o (u \o w)
    <2>1. PICK A, B, C : D \in Seq(A) /\ u \in Seq(B) /\ w \in Seq(C)
      BY <1>1, <1>3 DEF IsSequence
    <2> DEFINE S == A \cup B \cup C
    <2>2. A \subseteq S /\ B \subseteq S /\ C \subseteq S
      OBVIOUS
    <2> HIDE DEF S
    <2>3. D \in Seq(S) /\ u \in Seq(S) /\ w \in Seq(S)
      BY <2>1, <2>2, SeqMonotonic
    <2> QED BY <2>3, ConcatAssociative
  <1>9. FullPath(X, w) = D \o Y
    BY <1>6, <1>7, <1>8, Zenon DEF FullPath, Y
  <1> QED BY <1>5, <1>9, Zenon DEF X

-----------------------------------------------------------------------------
\* The open files are below the directory of the main file.

\* Lines whose imports are named without ".".
ReadsPlain(lines) ==
  IsSequence(lines) /\ \A k \in 1..Len(lines) : lines[k].import => Word(lines[k].file)

\* The main file is a file, and no file imports another by a name with a ".".
MainPath(m) == IsSequence(m) /\ m # <<>> /\ m[Len(m)] # "."

PlainNames ==
  /\ \A m \in MainPaths : MainPath(m)
  /\ \A p \in DOMAIN disk : ReadsPlain(disk[p])

\* The main file is a file, and an import line names one.
LinesFormed ==
  /\ \A m \in MainPaths : MainPath(m)
  /\ \A files \in Disks : \A p \in DOMAIN files :
       /\ IsSequence(files[p])
       /\ \A k \in 1..Len(files[p]) :
            files[p][k].import => IsSequence(files[p][k].file) /\ files[p][k].file # <<>>

\* The path is one below the directory of m.
Below(path, m) == \E r : Word(r) /\ path = DirOf(m) \o r

\* The open files are m and files below its directory.
Rooted(fs, m) ==
  /\ fs[1].path = m
  /\ \A i \in 2..Len(fs) : Below(fs[i].path, m)
  /\ \A i \in 1..Len(fs) : ReadsPlain(fs[i].rest)

\* The inductive invariant.
OpenInv ==
  /\ ChainInv
  /\ disk \in Disks
  /\ frames # <<>> => \E m \in MainPaths : Rooted(frames, m)

\* The directory of a path is a path.
LEMMA Directory ==
  ASSUME NEW m, MainPath(m)
  PROVE  IsSequence(DirOf(m)) /\ DirOf(m) # <<>>
  <1>1. IsSequence(m) /\ Len(m) \in Nat /\ Len(m) # 0
    BY Length DEF MainPath
  <1>2. CASE Len(m) = 1
    <2>1. DirOf(m) = <<".">>
      BY <1>2 DEF DirOf
    <2>2. <<".">> \in Seq({"."}) /\ <<".">> # <<>>
      OBVIOUS
    <2> QED BY <2>1, <2>2, Zenon DEF IsSequence
  <1>3. CASE Len(m) # 1
    <2> DEFINE f == SubSeq(m, 1, Len(m) - 1)
    <2>1. DirOf(m) = f
      BY <1>3 DEF DirOf, Front
    <2>2. Len(m) - 1 \in 0..Len(m)
      BY <1>1
    <2>3. IsSequence(f) /\ Len(f) = Len(m) - 1
      BY <1>1, <2>2, OneLess, Zenon
    <2> HIDE DEF f
    <2>4. f # <<>>
      BY <1>1, <1>3, <2>3
    <2> QED BY <2>1, <2>3, <2>4
  <1> QED BY <1>2, <1>3

\* A main file that is given with its directory is below it.
LEMMA MainBelow ==
  ASSUME NEW m, MainPath(m), Len(m) # 1
  PROVE  Below(m, m)
  <1> DEFINE f == SubSeq(m, 1, Len(m) - 1)
             r == <<m[Len(m)]>>
             q == f \o r
  <1>1. IsSequence(m) /\ Len(m) \in Nat /\ Len(m) # 0 /\ m[Len(m)] # "."
    BY Length DEF MainPath
  <1>2. DirOf(m) = f
    BY DEF DirOf, Front
  <1>3. /\ IsSequence(f) /\ Len(f) = Len(m) - 1
        /\ \A i \in 1..Len(m) - 1 : f[i] = m[i]
    <2>1. Len(m) - 1 \in 0..Len(m)
      BY <1>1
    <2> QED BY <1>1, <2>1, OneLess, Zenon
  <1>4. r \in Seq({m[Len(m)]}) /\ Len(r) = 1 /\ r[1] = m[Len(m)]
    OBVIOUS
  <1>5. IsSequence(r)
    BY <1>4, Zenon DEF IsSequence
  <1> HIDE DEF f, r
  <1>6. Word(r)
    <2>1. r # <<>>
      BY <1>4
    <2>2. \A i \in 1..Len(r) : i = 1
      BY <1>4
    <2> QED BY <1>1, <1>4, <1>5, <2>1, <2>2, Zenon DEF Word
  <1>7. \A i \in 1..Len(r) : q[Len(f) + i] = r[i]
    BY <1>3, <1>5, Joined
  <1>8. /\ IsSequence(q) /\ Len(q) = Len(f) + Len(r)
        /\ \A i \in 1..Len(f) : q[i] = f[i]
    BY <1>3, <1>5, Joined, Zenon
  <1> HIDE DEF q
  <1>9. Len(q) = Len(m)
    BY <1>1, <1>3, <1>4, <1>8
  <1>10. ASSUME NEW i \in 1..Len(q) PROVE q[i] = m[i]
    <2>1. CASE i = Len(m)
      <3>1. Len(f) + 1 = i /\ 1 \in 1..Len(r)
        BY <1>1, <1>3, <1>4, <2>1
      <3>2. q[Len(f) + 1] = r[1]
        BY <1>7, <3>1
      <3> QED BY <1>4, <2>1, <3>1, <3>2, Zenon
    <2>2. CASE i # Len(m)
      <3>1. i \in 1..Len(f) /\ i \in 1..Len(m) - 1
        BY <1>1, <1>3, <1>9, <2>2
      <3> QED BY <1>3, <1>8, <3>1, Zenon
    <2> QED BY <2>1, <2>2
  <1>11. q = m
    BY <1>1, <1>8, <1>9, <1>10, SameElements
  <1> QED BY <1>2, <1>6, <1>11, Zenon DEF Below, q

\* Files below one directory are one file only by one path.
LEMMA OnePath ==
  ASSUME NEW m, MainPath(m), NEW p, Below(p, m), NEW q, Below(q, m), Plain(p) = Plain(q)
  PROVE  p = q
  <1>1. PICK r : Word(r) /\ p = DirOf(m) \o r
    BY DEF Below
  <1>2. PICK s : Word(s) /\ q = DirOf(m) \o s
    BY DEF Below
  <1>3. IsSequence(DirOf(m))
    BY Directory
  <1> QED BY <1>1, <1>2, <1>3, SpelledAlike, Zenon

\* What an open file imports is below the main file's directory.
LEMMA ImportBelow ==
  ASSUME NEW m, MainPath(m), NEW fs, Len(fs) \in Nat, Rooted(fs, m), NEW i \in 1..Len(fs),
         NEW w, Word(w)
  PROVE  Below(FullPath(fs[i].path, w), m)
  <1>1. CASE i = 1
    BY <1>1, Zenon DEF Rooted, FullPath, Below
  <1>2. CASE i # 1
    <2>1. i \in 2..Len(fs)
      BY <1>2
    <2>2. PICK r : Word(r) /\ fs[i].path = DirOf(m) \o r
      BY <2>1, Zenon DEF Rooted, Below
    <2>3. IsSequence(DirOf(m)) /\ DirOf(m) # <<>>
      BY Directory
    <2>4. \E s : Word(s) /\ FullPath(DirOf(m) \o r, w) = DirOf(m) \o s
      BY <2>2, <2>3, StaysBelow, Zenon
    <2> QED BY <2>2, <2>4, Zenon DEF Below
  <1> QED BY <1>1, <1>2

\* Reading a line.
LEMMA OneLine ==
  ASSUME NEW l, ReadsPlain(l), l # <<>>
  PROVE  ReadsPlain(Tail(l)) /\ (l[1].import => Word(l[1].file))
  <1>1. PICK S : l \in Seq(S)
    BY DEF ReadsPlain, IsSequence
  <1>2. Len(l) \in Nat /\ Len(l) # 0
    BY <1>1, Length DEF ReadsPlain
  <1>3. /\ Tail(l) \in Seq(S) /\ Len(Tail(l)) = Len(l) - 1
        /\ \A i \in 1..Len(Tail(l)) : Tail(l)[i] = l[i + 1]
    BY <1>1, HeadTailProperties
  <1>4. ASSUME NEW i \in 1..Len(Tail(l)), Tail(l)[i].import
        PROVE  Word(Tail(l)[i].file)
    <2>1. i + 1 \in 1..Len(l) /\ Tail(l)[i] = l[i + 1]
      BY <1>2, <1>3
    <2> QED BY <1>4, <2>1, Zenon DEF ReadsPlain
  <1>5. 1 \in 1..Len(l)
    BY <1>2
  <1> QED BY <1>3, <1>4, <1>5, Zenon DEF ReadsPlain, IsSequence

\* The lines left of a frame that reads on, and of one that takes something.
LEMMA LinesLeft ==
  ASSUME NEW f, IsFrame(f), NEW e, NEW a
  PROVE  /\ [f EXCEPT !.rest = e].rest = e
         /\ [f EXCEPT !.body = e].rest = f.rest
         /\ [f EXCEPT !.result = e, !.aliases = a].rest = f.rest
  <1>1. PICK p, l, r, b, c, n :
             f = [path |-> p, rest |-> l, result |-> r, body |-> b, aliases |-> c, as |-> n]
    BY DEF IsFrame
  <1>2. DOMAIN f = {"path", "rest", "result", "body", "aliases", "as"}
    BY <1>1
  <1>3. [f EXCEPT !.rest = e].rest = e
    BY <1>2, Zenon
  <1>4. [f EXCEPT !.body = e].rest = f.rest
    BY <1>2
  <1>5. [f EXCEPT !.result = e, !.aliases = a].rest = f.rest
    BY <1>2
  <1> QED BY <1>3, <1>4, <1>5

\* Frames that are among the others' paths.
LEMMA StaysRooted ==
  ASSUME NEW fs, NEW m, Rooted(fs, m), Len(fs) \in Nat, NEW gs, Len(gs) \in 1..Len(fs),
         \A i \in 1..Len(gs) : gs[i].path = fs[i].path /\ ReadsPlain(gs[i].rest)
  PROVE  Rooted(gs, m)
  <1>1. 1 \in 1..Len(gs)
    OBVIOUS
  <1>2. \A i \in 2..Len(gs) : i \in 1..Len(gs) /\ i \in 2..Len(fs)
    OBVIOUS
  <1>3. \A i \in 2..Len(gs) : Below(gs[i].path, m)
    BY <1>2, Zenon DEF Rooted
  <1> QED BY <1>1, <1>3, Zenon DEF Rooted

-----------------------------------------------------------------------------
\* Every action keeps them there.

\* What is known of the innermost file as it reads on.
LEMMA TopLines ==
  ASSUME PlainNames, OpenInv, frames # <<>>
  PROVE  \E m \in MainPaths :
           /\ MainPath(m) /\ Rooted(frames, m) /\ Frames(frames) /\ IsSequence(frames)
           /\ Len(frames) \in Nat /\ Len(frames) # 0 /\ IsFrame(Top) /\ ReadsPlain(Top.rest)
  <1>1. PICK m \in MainPaths : Rooted(frames, m)
    BY DEF OpenInv
  <1>2. MainPath(m)
    BY DEF PlainNames
  <1>3. Frames(frames) /\ IsSequence(frames)
    BY DEF OpenInv, ChainInv, Shape, Frames
  <1>4. ChainInv
    BY DEF OpenInv
  <1>5. Len(frames) \in Nat /\ Len(frames) # 0 /\ IsFrame(Top)
    BY <1>4, InnermostFrame
  <1>6. Len(frames) \in 1..Len(frames)
    BY <1>5
  <1>7. ReadsPlain(Top.rest)
    BY <1>1, <1>6, Zenon DEF Rooted, Top
  <1> QED BY <1>1, <1>2, <1>3, <1>5, <1>7, Zenon

\* The innermost file reads on.
LEMMA TopRooted ==
  ASSUME NEW fs, NEW m, Frames(fs), fs # <<>>, Rooted(fs, m),
         NEW g, g.path = fs[Len(fs)].path, ReadsPlain(g.rest)
  PROVE  Rooted([fs EXCEPT ![Len(fs)] = g], m)
  <1> DEFINE gs == [fs EXCEPT ![Len(fs)] = g]
  <1>1. IsSequence(fs) /\ Len(fs) \in Nat /\ Len(fs) # 0
    BY Length DEF Frames
  <1>2. /\ Len(gs) = Len(fs) /\ gs[Len(fs)] = g
        /\ \A i \in 1..Len(fs) - 1 : gs[i] = fs[i]
    BY <1>1, Replaced, Zenon
  <1> HIDE DEF gs
  <1>3. ASSUME NEW i \in 1..Len(gs)
        PROVE  gs[i].path = fs[i].path /\ ReadsPlain(gs[i].rest)
    <2>1. CASE i = Len(fs)
      BY <1>2, <2>1, Zenon
    <2>2. CASE i # Len(fs)
      <3>1. i \in 1..Len(fs) - 1 /\ i \in 1..Len(fs)
        BY <1>1, <1>2, <2>2
      <3>2. gs[i] = fs[i]
        BY <1>2, <3>1, Zenon
      <3> QED BY <3>1, <3>2, Zenon DEF Rooted
    <2> QED BY <2>1, <2>2
  <1>4. Len(gs) \in 1..Len(fs)
    BY <1>1, <1>2
  <1> QED BY <1>1, <1>3, <1>4, StaysRooted, Zenon DEF gs

\* The line that is looked at is consumed.
LEMMA LineRead ==
  ASSUME PlainNames, OpenInv, frames # <<>>, Top.rest # <<>>
  PROVE  /\ NextLine.path = Top.path /\ ReadsPlain(NextLine.rest) /\ IsFrame(NextLine)
         /\ Line.import => Word(Line.file)
  <1>1. IsFrame(Top) /\ ReadsPlain(Top.rest)
    BY TopLines, Zenon
  <1>2. NextLine.rest = Tail(Top.rest)
    BY <1>1, LinesLeft, Zenon DEF NextLine
  <1>3. ReadsPlain(Tail(Top.rest)) /\ (Line.import => Word(Line.file))
    BY <1>1, OneLine, Zenon DEF Line
  <1>4. IsFrame(NextLine) /\ NextLine.path = Top.path
    BY <1>1, ReadOn, Zenon DEF NextLine
  <1> QED BY <1>2, <1>3, <1>4, Zenon

\* A step that only reads on in the innermost file.
LEMMA OpenInPlace ==
  ASSUME PlainNames, OpenInv, ChainInv', frames # <<>>, NEW g, g.path = Top.path,
         ReadsPlain(g.rest), SetTop(g), disk' = disk
  PROVE  OpenInv'
  <1>1. PICK m \in MainPaths : Rooted(frames, m) /\ Frames(frames)
    BY TopLines, Zenon
  <1>2. Rooted([frames EXCEPT ![Len(frames)] = g], m)
    BY <1>1, TopRooted, Zenon DEF Top
  <1>3. Rooted(frames', m)
    BY <1>2, Zenon DEF SetTop
  <1>4. disk' \in Disks
    BY DEF OpenInv
  <1> QED BY <1>3, <1>4, Zenon DEF OpenInv

\* A line that is not an import.
LEMMA OpenByCopyLine ==
  ASSUME PlainNames, OpenInv, CopyLine
  PROVE  OpenInv'
  <1> DEFINE b == NextLine.body \o Stamp(Line.toks, Top.path)
             g == [NextLine EXCEPT !.body = b]
  <1>1. frames # <<>> /\ Top.rest # <<>> /\ SetTop(g) /\ disk' = disk
    BY Zenon DEF CopyLine
  <1>2. /\ NextLine.path = Top.path /\ ReadsPlain(NextLine.rest) /\ IsFrame(NextLine)
    BY <1>1, LineRead, Zenon
  <1>3. g.path = Top.path /\ g.rest = NextLine.rest
    <2> HIDE DEF b
    <2> QED BY <1>2, Collected, LinesLeft, Zenon
  <1>4. ChainInv'
    BY ChainByCopyLine DEF OpenInv
  <1> HIDE DEF g
  <1>5. ReadsPlain(g.rest)
    BY <1>2, <1>3, Zenon
  <1> QED BY <1>1, <1>3, <1>4, <1>5, OpenInPlace, Zenon

\* An import that is not followed.
LEMMA OpenBySkip ==
  ASSUME PlainNames, OpenInv, SkipCircular \/ SkipUnreadable
  PROVE  OpenInv'
  <1>1. frames # <<>> /\ Top.rest # <<>> /\ SetTop(NextLine) /\ disk' = disk
    BY Zenon DEF SkipCircular, SkipUnreadable, AtImport
  <1>2. NextLine.path = Top.path /\ ReadsPlain(NextLine.rest)
    BY <1>1, LineRead, Zenon
  <1>3. ChainInv'
    BY ChainBySkip DEF OpenInv
  <1> QED BY <1>1, <1>2, <1>3, OpenInPlace, Zenon

\* A file is opened.
LEMMA OpenByDescend ==
  ASSUME PlainNames, OpenInv, Descend
  PROVE  OpenInv'
  <1> DEFINE g  == Frame(Target, disk[Plain(Target)], Line.as)
             fs == [frames EXCEPT ![Len(frames)] = NextLine]
             gs == Append(fs, g)
  <1>1. /\ frames # <<>> /\ Top.rest # <<>> /\ Line.import
        /\ Plain(Target) \in DOMAIN disk
        /\ frames' = gs /\ disk' = disk
    BY Zenon DEF Descend, AtImport
  <1>2. PICK m \in MainPaths :
           /\ MainPath(m) /\ Rooted(frames, m) /\ Frames(frames)
           /\ IsSequence(frames) /\ Len(frames) \in Nat /\ Len(frames) # 0
    BY <1>1, TopLines, Zenon
  <1>3. /\ NextLine.path = Top.path /\ ReadsPlain(NextLine.rest) /\ Word(Line.file)
    BY <1>1, LineRead, Zenon
  <1>4. Rooted(fs, m)
    BY <1>1, <1>2, <1>3, TopRooted, Zenon DEF Top
  <1>5. IsSequence(fs) /\ Len(fs) = Len(frames)
    BY <1>1, <1>2, Replaced, Zenon
  <1>6. Below(Target, m)
    <2>1. Len(frames) \in 1..Len(frames)
      BY <1>2
    <2>2. Below(FullPath(frames[Len(frames)].path, Line.file), m)
      BY <1>2, <1>3, <2>1, ImportBelow
    <2> QED BY <2>2, Zenon DEF Target, Top
  <1>7. g.path = Target /\ g.rest = disk[Plain(Target)]
    BY DEF Frame
  <1>8. ReadsPlain(g.rest)
    BY <1>1, <1>7, Zenon DEF PlainNames, OpenInv
  <1> HIDE DEF g, fs
  <1>9. /\ Len(gs) = Len(fs) + 1 /\ gs[Len(fs) + 1] = g
        /\ \A i \in 1..Len(fs) : gs[i] = fs[i]
    BY <1>5, OneMoreAt, Zenon DEF gs
  <1> HIDE DEF gs
  <1>10. Rooted(gs, m)
    <2>1. 1 \in 1..Len(fs)
      BY <1>2, <1>5
    <2>2. gs[1].path = m
      BY <1>4, <1>9, <2>1, Zenon DEF Rooted
    <2>3. ASSUME NEW i \in 1..Len(gs), i # Len(fs) + 1 PROVE i \in 1..Len(fs)
      BY <1>2, <1>5, <1>9, <2>3
    <2>4. ASSUME NEW i \in 2..Len(gs) PROVE Below(gs[i].path, m)
      <3>1. CASE i = Len(fs) + 1
        BY <1>6, <1>7, <1>9, <3>1, Zenon
      <3>2. CASE i # Len(fs) + 1
        <4>1. i \in 2..Len(fs) /\ i \in 1..Len(fs)
          BY <1>2, <1>5, <1>9, <3>2
        <4> QED BY <1>4, <1>9, <4>1, Zenon DEF Rooted
      <3> QED BY <3>1, <3>2
    <2>5. ASSUME NEW i \in 1..Len(gs) PROVE ReadsPlain(gs[i].rest)
      <3>1. CASE i = Len(fs) + 1
        BY <1>8, <1>9, <3>1, Zenon
      <3>2. CASE i # Len(fs) + 1
        <4>1. i \in 1..Len(fs)
          BY <2>3, <3>2, Zenon
        <4> QED BY <1>4, <1>9, <4>1, Zenon DEF Rooted
      <3> QED BY <3>1, <3>2
    <2> QED BY <2>2, <2>4, <2>5, Zenon DEF Rooted
  <1>11. ChainInv' /\ disk' \in Disks
    BY <1>1, ChainByDescend DEF OpenInv
  <1> QED BY <1>1, <1>10, <1>11, Zenon DEF OpenInv

\* A file ends.
LEMMA OpenByFinish ==
  ASSUME PlainNames, OpenInv, Finish
  PROVE  OpenInv'
  <1> DEFINE up   == frames[Len(frames) - 1]
             fits == Top.as = NoAlias \/ Len(up.aliases) < MaxAliases
             more == IF Top.as = NoAlias THEN Returned(Top) ELSE Namespaced(Returned(Top), Top.as)
             res  == up.result \o more
             als  == IF Top.as # NoAlias /\ fits THEN Append(up.aliases, Top.as) ELSE up.aliases
             g    == [up EXCEPT !.result = res, !.aliases = als]
             hs   == SubSeq(frames, 1, Len(frames) - 2)
             gs   == Append(hs, g)
  <1>1. frames # <<>> /\ Len(frames) > 1 /\ frames' = gs /\ disk' = disk
    BY Zenon DEF Finish, Finished
  <1>2. PICK m \in MainPaths :
           /\ MainPath(m) /\ Rooted(frames, m) /\ Frames(frames)
           /\ IsSequence(frames) /\ Len(frames) \in Nat
    BY <1>1, TopLines, Zenon
  <1>3. Len(frames) - 1 \in 1..Len(frames) /\ Len(frames) - 2 \in 0..Len(frames)
    BY <1>1, <1>2
  <1>4. IsFrame(up)
    BY <1>2, <1>3, Zenon DEF Frames
  <1>5. g.path = up.path /\ g.rest = up.rest
    <2> HIDE DEF up, res, als
    <2>1. g.path = up.path
      BY <1>4, Brought, Zenon
    <2>2. g.rest = up.rest
      BY <1>4, LinesLeft
    <2> HIDE DEF g
    <2> QED BY <2>1, <2>2
  <1>6. /\ IsSequence(hs) /\ Len(hs) = Len(frames) - 2
        /\ \A i \in 1..Len(frames) - 2 : hs[i] = frames[i]
    BY <1>2, <1>3, OneLess, Zenon
  <1>7. g.path = frames[Len(frames) - 1].path /\ g.rest = frames[Len(frames) - 1].rest
    BY <1>5, Zenon
  <1> HIDE DEF up, g, hs
  <1>8. /\ Len(gs) = Len(hs) + 1 /\ gs[Len(hs) + 1] = g
        /\ \A i \in 1..Len(hs) : gs[i] = hs[i]
    BY <1>6, OneMoreAt, Zenon DEF gs
  <1> HIDE DEF gs
  <1>9. Len(hs) + 1 = Len(frames) - 1 /\ Len(gs) \in 1..Len(frames)
    BY <1>1, <1>2, <1>6, <1>8
  <1>10. ASSUME NEW i \in 1..Len(gs)
         PROVE  gs[i].path = frames[i].path /\ ReadsPlain(gs[i].rest)
    <2>1. i \in 1..Len(frames)
      BY <1>2, <1>9
    <2>2. ReadsPlain(frames[i].rest)
      BY <1>2, <2>1, Zenon DEF Rooted
    <2>3. CASE i = Len(frames) - 1
      BY <1>7, <1>8, <1>9, <2>2, <2>3, Zenon
    <2>4. CASE i # Len(frames) - 1
      <3>1. i \in 1..Len(hs) /\ i \in 1..Len(frames) - 2
        BY <1>2, <1>6, <1>8, <1>9, <2>4
      <3> QED BY <1>6, <1>8, <2>2, <3>1, Zenon
    <2> QED BY <2>3, <2>4
  <1>11. Rooted(gs, m)
    BY <1>2, <1>9, <1>10, StaysRooted, Zenon
  <1>12. ChainInv' /\ disk' \in Disks
    BY <1>1, ChainByFinish DEF OpenInv
  <1> QED BY <1>1, <1>11, <1>12, Zenon DEF OpenInv

\* The main file alone.
LEMMA StartsRooted ==
  ASSUME PlainNames, ImportsInit
  PROVE  OpenInv
  <1>1. PICK main \in MainPaths :
           /\ Plain(main) \in DOMAIN disk
           /\ frames = <<Frame(main, disk[Plain(main)], NoAlias)>>
    BY DEF ImportsInit
  <1> DEFINE f == Frame(main, disk[Plain(main)], NoAlias)
  <1>2. f.path = main /\ f.rest = disk[Plain(main)]
    BY DEF Frame
  <1>3. disk \in Disks
    BY DEF ImportsInit
  <1>4. ReadsPlain(f.rest)
    BY <1>1, <1>2, <1>3, Zenon DEF PlainNames
  <1>5. frames = <<f>>
    BY <1>1, Zenon
  <1> HIDE DEF f
  <1>6. Len(frames) = 1 /\ frames[1] = f
    BY <1>5
  <1>7. (\A i \in 1..Len(frames) : i = 1) /\ 2..Len(frames) = {}
    BY <1>6
  <1>8. Rooted(frames, main)
    BY <1>2, <1>4, <1>6, <1>7, Zenon DEF Rooted
  <1>9. ChainInv
    BY StartsAsChain
  <1> QED BY <1>3, <1>8, <1>9, Zenon DEF OpenInv

\* Every step keeps the invariant.
LEMMA OpenStep ==
  ASSUME PlainNames, OpenInv, [ImportsNext]_ivars
  PROVE  OpenInv'
  <1>1. CASE CopyLine
    BY <1>1, OpenByCopyLine
  <1>2. CASE SkipCircular \/ SkipUnreadable
    BY <1>2, OpenBySkip
  <1>3. CASE Descend
    BY <1>3, OpenByDescend
  <1>4. CASE Finish
    BY <1>4, OpenByFinish
  <1>5. CASE FinishMain
    <2>1. ChainInv'
      BY <1>5, ChainByFinishMain DEF OpenInv
    <2>2. frames' = <<>> /\ disk' = disk
      BY <1>5 DEF FinishMain
    <2> QED BY <2>1, <2>2, Zenon DEF OpenInv
  <1>6. CASE UNCHANGED ivars
    <2>1. /\ frames' = frames /\ stack' = stack /\ overflow' = overflow /\ disk' = disk
      BY <1>6 DEF ivars
    <2>2. ChainInv'
      BY <2>1, ChainInForm, ChainInFormNext DEF InForm, OpenInv
    <2> QED BY <2>1, <2>2, Zenon DEF OpenInv
  <1> QED BY <1>1, <1>2, <1>3, <1>4, <1>5, <1>6 DEF ImportsNext

\* A chain of paths below one directory leads to each file once.
LEMMA RootedOnce ==
  ASSUME PlainNames, OpenInv
  PROVE  OpenOnce
  <1> SUFFICES ASSUME ~overflow, NEW i \in DOMAIN frames, NEW j \in DOMAIN frames, i < j,
                      Plain(frames[i].path) = Plain(frames[j].path),
                      ~(i = 1 /\ Len(frames[1].path) = 1)
               PROVE  FALSE
    BY Zenon DEF OpenOnce
  <1>1. Frames(frames) /\ IsSequence(frames) /\ IsSequence(stack)
    BY DEF OpenInv, ChainInv, Shape, Frames
  <1>2. DOMAIN frames = 1..Len(frames) /\ Len(frames) \in Nat
    BY <1>1, Length
  <1>3. i \in 1..Len(frames) /\ j \in 2..Len(frames) /\ j \in 1..Len(frames) /\ i # j
    BY <1>2
  <1>4. frames # <<>>
    <2>1. Len(<<>>) = 0
      OBVIOUS
    <2> QED BY <1>3, <2>1
  <1>5. PICK m \in MainPaths : MainPath(m) /\ Rooted(frames, m)
    BY <1>4, TopLines, Zenon
  <1>6. Below(frames[j].path, m)
    BY <1>3, <1>5, Zenon DEF Rooted
  <1>7. Below(frames[i].path, m)
    <2>1. CASE i = 1
      BY <1>5, <2>1, MainBelow, Zenon DEF Rooted
    <2>2. CASE i # 1
      <3>1. i \in 2..Len(frames)
        BY <1>2, <1>3, <2>2
      <3> QED BY <1>5, <3>1, Zenon DEF Rooted
    <2> QED BY <2>1, <2>2
  <1>8. frames[i].path = frames[j].path
    BY <1>5, <1>6, <1>7, OnePath, Zenon
  <1>9. Chain(frames, stack)
    BY ChainInForm DEF OpenInv, InForm
  <1>10. /\ Len(stack) = Len(frames) /\ stack[i] = frames[i].path /\ stack[j] = frames[j].path
    BY <1>3, <1>4, <1>9, Zenon DEF Chain, PathOf
  <1>11. stack[i] = stack[j] /\ i \in 1..Len(stack) /\ j \in 1..Len(stack)
    BY <1>3, <1>8, <1>10, Zenon
  <1> QED BY <1>3, <1>9, <1>11, Zenon DEF Chain

\* The files that imports name without ".", in a disk of formed lines.
LEMMA PlainOfFormed ==
  ASSUME LinesFormed, disk \in Disks, NamedPlainly(disk)
  PROVE  PlainNames
  <1>1. ASSUME NEW p \in DOMAIN disk PROVE ReadsPlain(disk[p])
    <2>1. /\ IsSequence(disk[p])
          /\ \A k \in 1..Len(disk[p]) :
               disk[p][k].import => IsSequence(disk[p][k].file) /\ disk[p][k].file # <<>>
      BY <1>1, Zenon DEF LinesFormed
    <2>2. DOMAIN disk[p] = 1..Len(disk[p])
      BY <2>1, Length
    <2>3. ASSUME NEW k \in 1..Len(disk[p]), disk[p][k].import PROVE Word(disk[p][k].file)
      <3> DEFINE w == disk[p][k].file
      <3>1. IsSequence(w) /\ w # <<>>
        BY <2>1, <2>3, Zenon
      <3>2. "." \notin ToSet(w)
        BY <1>1, <2>2, <2>3, Zenon DEF NamedPlainly
      <3> HIDE DEF w
      <3>3. DOMAIN w = 1..Len(w)
        BY <3>1, Length
      <3>4. \A i \in 1..Len(w) : w[i] # "."
        BY <3>2, <3>3 DEF ToSet
      <3>5. Word(w)
        BY <3>1, <3>4, Zenon DEF Word
      <3> QED BY <3>5 DEF w
    <2> QED BY <2>1, <2>3, Zenon DEF ReadsPlain
  <1>2. \A m \in MainPaths : MainPath(m)
    BY DEF LinesFormed
  <1> QED BY <1>1, <1>2, Zenon DEF PlainNames

\* What plainly named files keep, in whatever disk the compiler was given.
NestInv == disk \in Disks /\ (PlainNames => OpenInv)

LEMMA NestStep ==
  ASSUME NestInv, [ImportsNext]_ivars
  PROVE  NestInv'
  <1>1. disk' = disk
    BY DEF ImportsNext, CopyLine, SkipCircular, SkipUnreadable, Descend, Finish, FinishMain,
           ivars
  <1>2. PlainNames' => PlainNames
    BY <1>1 DEF PlainNames
  <1>3. PlainNames => OpenInv'
    BY OpenStep DEF NestInv
  <1> QED BY <1>1, <1>2, <1>3 DEF NestInv

\* OpenOnce: in every file system whose imports are named without ".", whatever
\* others the compiler may be given, no file is read inside itself but the main
\* one, and that one only when its path is given without a directory
\* (resolve_imports, import_stack_contains).
THEOREM NeverInsideItself ==
  ASSUME LinesFormed
  PROVE  ImportsSpec => []OpenOnce
  <1>1. ImportsInit => NestInv
    BY StartsRooted DEF NestInv, ImportsInit
  <1>2. NestInv /\ [ImportsNext]_ivars => NestInv'
    BY NestStep
  <1>3. NestInv => OpenOnce
    <2>1. ASSUME NestInv, NamedPlainly(disk) PROVE OpenOnce
      BY <2>1, PlainOfFormed, RootedOnce DEF NestInv
    <2>2. ASSUME ~NamedPlainly(disk) PROVE OpenOnce
      BY <2>2 DEF OpenOnce
    <2> QED BY <2>1, <2>2
  <1> QED BY <1>1, <1>2, <1>3, PTL DEF ImportsSpec

-----------------------------------------------------------------------------
(* Texts *)

IsId(tok) == tok.t = "id"

\* A token, with all that Stamp gives an identifier.
IsToken(tok) == "t" \in DOMAIN tok /\ (IsId(tok) => {"v", "from", "was"} \subseteq DOMAIN tok)

IsText(T) == IsSequence(T) /\ \A i \in 1..Len(T) : IsToken(T[i])

\* Where names are declared, and whether one is declared in two places.
At(T)    == {i \in 1..Len(T) : Declares(T, i - 1)}
Twice(T) == \E i, j \in At(T) : i # j /\ T[i].v = T[j].v

\* A declaration's name stands between "fn" and "(".
Between(T, i) ==
  /\ i - 1 \in 1..Len(T) /\ i \in 1..Len(T) /\ i + 1 \in 1..Len(T)
  /\ T[i - 1].t = "fn" /\ IsId(T[i]) /\ T[i + 1].t = "("

LEMMA DeclaredBetween ==
  ASSUME NEW T, IsSequence(T)
  PROVE  \A i : i \in At(T) <=> i \in 1..Len(T) /\ Between(T, i)
  <1>1. DOMAIN T = 1..Len(T) /\ Len(T) \in Nat
    BY Length
  <1>2. ASSUME NEW i \in 1..Len(T)
        PROVE  Declares(T, i - 1) <=> Between(T, i)
    <2>1. (i - 1) + 1 = i /\ (i - 1) + 2 = i + 1
      BY <1>1
    <2> QED BY <1>1, <2>1, Zenon DEF Declares, TokenAt, Between, IsId
  <1> QED BY <1>2, Zenon DEF At

\* U has T from position d on, its identifiers perhaps renamed: all those of
\* a name alike.
Renames(T, U, d) ==
  /\ Len(T) + d <= Len(U)
  /\ \A i \in 1..Len(T) :
       /\ U[d + i].t = T[i].t
       /\ IsId(T[i]) => U[d + i].from = T[i].from /\ U[d + i].was = T[i].was
  /\ \A i, j \in 1..Len(T) : IsId(T[i]) /\ IsId(T[j]) /\ T[i].v = T[j].v => U[d + i].v = U[d + j].v

\* What is declared in T is declared in U.
LEMMA StaysDeclared ==
  ASSUME NEW T, IsSequence(T), NEW U, IsSequence(U), NEW d \in Nat, Renames(T, U, d),
         NEW i \in At(T)
  PROVE  d + i \in At(U) /\ IsId(T[i]) /\ i \in 1..Len(T)
  <1>1. i \in 1..Len(T) /\ Between(T, i)
    BY DeclaredBetween, Zenon
  <1>2. Len(T) \in Nat /\ Len(U) \in Nat /\ Len(T) + d <= Len(U)
    BY Length DEF Renames
  <1>3. i - 1 \in 1..Len(T) /\ i + 1 \in 1..Len(T) /\ T[i - 1].t = "fn" /\ IsId(T[i]) /\ T[i + 1].t = "("
    BY <1>1, Zenon DEF Between
  <1>4. d + i \in 1..Len(U) /\ (d + i) - 1 \in 1..Len(U) /\ (d + i) + 1 \in 1..Len(U)
    BY <1>1, <1>2, <1>3
  <1>5. (d + i) - 1 = d + (i - 1) /\ (d + i) + 1 = d + (i + 1)
    BY <1>1, <1>2
  <1>6. \A k \in 1..Len(T) : U[d + k].t = T[k].t
    BY Zenon DEF Renames
  <1>7. U[d + (i - 1)].t = "fn" /\ U[d + i].t = T[i].t /\ U[d + (i + 1)].t = "("
    BY <1>1, <1>3, <1>6, Zenon
  <1>8. Between(U, d + i)
    BY <1>3, <1>4, <1>5, <1>7, Zenon DEF Between, IsId
  <1> QED BY <1>1, <1>3, <1>4, <1>8, DeclaredBetween, Zenon

\* What is declared twice stays declared twice.
LEMMA StaysTwice ==
  ASSUME NEW T, IsSequence(T), NEW U, IsSequence(U), NEW d \in Nat, Renames(T, U, d), Twice(T)
  PROVE  Twice(U)
  <1>1. PICK i, j \in At(T) : i # j /\ T[i].v = T[j].v
    BY DEF Twice
  <1>2. /\ d + i \in At(U) /\ d + j \in At(U) /\ IsId(T[i]) /\ IsId(T[j])
        /\ i \in 1..Len(T) /\ j \in 1..Len(T)
    BY StaysDeclared, Zenon
  <1>3. U[d + i].v = U[d + j].v
    BY <1>1, <1>2, Zenon DEF Renames
  <1>4. d + i # d + j
    <2>1. Len(T) \in Nat
      BY Length
    <2> QED BY <1>1, <1>2, <2>1
  <1> QED BY <1>2, <1>3, <1>4, Zenon DEF Twice

\* Renaming and renaming again.
LEMMA RenamesAgain ==
  ASSUME NEW T, NEW U, NEW V, Len(T) = Len(U), Len(U) = Len(V), Len(T) \in Nat,
         Renames(T, U, 0), Renames(U, V, 0)
  PROVE  Renames(T, V, 0)
  <1>1. \A i \in 1..Len(T) : 0 + i = i
    OBVIOUS
  <1>2. ASSUME NEW i \in 1..Len(T)
        PROVE  /\ V[0 + i].t = T[i].t
               /\ IsId(T[i]) => V[0 + i].from = T[i].from /\ V[0 + i].was = T[i].was
    <2>1. /\ U[i].t = T[i].t
          /\ IsId(T[i]) => U[i].from = T[i].from /\ U[i].was = T[i].was
      BY <1>1, Zenon DEF Renames
    <2>2. /\ V[i].t = U[i].t
          /\ IsId(U[i]) => V[i].from = U[i].from /\ V[i].was = U[i].was
      BY <1>1, Zenon DEF Renames
    <2> QED BY <1>1, <2>1, <2>2, Zenon DEF IsId
  <1>3. ASSUME NEW i \in 1..Len(T), NEW j \in 1..Len(T), IsId(T[i]), IsId(T[j]), T[i].v = T[j].v
        PROVE  V[0 + i].v = V[0 + j].v
    <2>1. U[i].v = U[j].v /\ U[i].t = T[i].t /\ U[j].t = T[j].t
      BY <1>1, <1>3, Zenon DEF Renames
    <2>2. IsId(U[i]) /\ IsId(U[j])
      BY <1>3, <2>1, Zenon DEF IsId
    <2> QED BY <1>1, <2>1, <2>2, Zenon DEF Renames
  <1>4. Len(T) + 0 <= Len(V)
    OBVIOUS
  <1> QED BY <1>2, <1>3, <1>4, Zenon DEF Renames

\* Two texts one after the other.
LEMMA JoinedTexts ==
  ASSUME NEW T, IsText(T), NEW U, IsText(U)
  PROVE  /\ IsText(T \o U) /\ Len(T \o U) = Len(T) + Len(U)
         /\ Renames(T, T \o U, 0) /\ Renames(U, T \o U, Len(T))
         /\ \A i \in 1..Len(T) : (T \o U)[i] = T[i]
         /\ \A i \in 1..Len(U) : (T \o U)[Len(T) + i] = U[i]
         /\ \A i \in 1..Len(T \o U) : i \in 1..Len(T) \/ \E j \in 1..Len(U) : i = Len(T) + j
  <1> DEFINE V == T \o U
  <1>1. IsSequence(T) /\ IsSequence(U)
    BY DEF IsText
  <1>2. Len(T) \in Nat /\ Len(U) \in Nat
    BY <1>1, Length
  <1>3. /\ IsSequence(V) /\ Len(V) = Len(T) + Len(U)
        /\ \A i \in 1..Len(T) : V[i] = T[i]
        /\ \A i \in 1..Len(U) : V[Len(T) + i] = U[i]
    BY <1>1, Joined
  <1> HIDE DEF V
  <1>4. \A i \in 1..Len(V) : i \in 1..Len(T) \/ \E j \in 1..Len(U) : i = Len(T) + j
    <2> SUFFICES ASSUME NEW i \in 1..Len(V), i \notin 1..Len(T)
                 PROVE  \E j \in 1..Len(U) : i = Len(T) + j
      OBVIOUS
    <2>1. i - Len(T) \in 1..Len(U) /\ i = Len(T) + (i - Len(T))
      BY <1>2, <1>3
    <2> QED BY <2>1, Zenon
  <1>5. IsText(V)
    BY <1>3, <1>4, Zenon DEF IsText
  <1>6. Renames(T, V, 0)
    <2>1. \A i \in 1..Len(T) : 0 + i = i
      OBVIOUS
    <2>2. Len(T) + 0 <= Len(V)
      BY <1>2, <1>3
    <2> QED BY <1>3, <2>1, <2>2, Zenon DEF Renames
  <1>7. Renames(U, V, Len(T))
    <2>1. Len(U) + Len(T) <= Len(V)
      BY <1>2, <1>3
    <2> QED BY <1>3, <2>1, Zenon DEF Renames
  <1> QED BY <1>3, <1>4, <1>5, <1>6, <1>7 DEF V

\* Where the second of them is.
SecondAt(T, U, W) == \A k \in 1..Len(U) : W[Len(T) + k] = U[k]

LEMMA SecondPart ==
  ASSUME NEW T, IsText(T), NEW U, IsText(U)
  PROVE  SecondAt(T, U, T \o U)
  BY JoinedTexts DEF SecondAt

-----------------------------------------------------------------------------
(* What a text's names stand for *)

\* The last word of a name: as the function is declared.
Tip(name) == SubSeq(name, Len(name), Len(name))

\* The functions that may be meant by a name as it was written.
Meant(files, from, was) == {s \in Scopes(files)[from] : s.name = was}

\* The declaration at j is that of s, and what stands at i has its name.
Answers(T, i, j, s) ==
  /\ T[j].v = T[i].v /\ T[j].from = s.at /\ T[j].was = Tip(s.name)
  /\ s.at # T[i].from => j < i

\* The identifier at i has the name of a function that is meant, if there is
\* one; and all identifiers of the text have.
ReachedAt(files, T, i) ==
  Meant(files, T[i].from, T[i].was) # {} =>
    \E j \in At(T) : \E s \in Meant(files, T[i].from, T[i].was) : Answers(T, i, j, s)

Reaches(files, T) == \A i \in 1..Len(T) : IsId(T[i]) => ReachedAt(files, T, i)

\* The text declares function s by this name.
FoundIn(T, name, s) == \E j \in At(T) : T[j].v = name /\ T[j].from = s.at /\ T[j].was = Tip(s.name)

\* A function with its file, as Own makes it.
Scoped(s) == s = [name |-> s.name, at |-> s.at] /\ IsSequence(s.name) /\ s.name # <<>>

\* The text declares what the file at path can name, under an alias.
Brings(files, T, as, path) ==
  \A k \in 0..Cardinality(DOMAIN files) :
    \A s \in ScopesTo(files)[k][path] : Scoped(s) /\ FoundIn(T, as \o s.name, s)

\* Renaming leaves an identifier with the function it stood for.
LEMMA StaysReached ==
  ASSUME NEW files, NEW T, IsSequence(T), NEW U, IsSequence(U), NEW d \in Nat, Renames(T, U, d),
         NEW i \in 1..Len(T), IsId(T[i]), ReachedAt(files, T, i)
  PROVE  ReachedAt(files, U, d + i)
  <1> DEFINE M == Meant(files, T[i].from, T[i].was)
  <1>1. U[d + i].from = T[i].from /\ U[d + i].was = T[i].was
    BY Zenon DEF Renames
  <1>2. SUFFICES ASSUME M # {}
                 PROVE  \E j \in At(U) : \E s \in M : Answers(U, d + i, j, s)
    BY <1>1, Zenon DEF ReachedAt
  <1>3. PICK j \in At(T) : \E s \in M : Answers(T, i, j, s)
    BY <1>2, Zenon DEF ReachedAt
  <1>4. PICK s \in M : Answers(T, i, j, s)
    BY <1>3, Zenon
  <1> HIDE DEF M
  <1>5. d + j \in At(U) /\ IsId(T[j]) /\ j \in 1..Len(T)
    BY StaysDeclared, Zenon
  <1>6. T[j].v = T[i].v /\ T[j].from = s.at /\ T[j].was = Tip(s.name)
    BY <1>4, Zenon DEF Answers
  <1>7. U[d + j].v = U[d + i].v /\ U[d + j].from = T[j].from /\ U[d + j].was = T[j].was
    BY <1>5, <1>6, Zenon DEF Renames
  <1>8. s.at # U[d + i].from => d + j < d + i
    <2>1. Len(T) \in Nat
      BY Length
    <2>2. j < i => d + j < d + i
      BY <1>5, <2>1
    <2> QED BY <1>1, <1>4, <2>2, Zenon DEF Answers
  <1> QED BY <1>5, <1>6, <1>7, <1>8, Zenon DEF Answers

LEMMA RenamedReaches ==
  ASSUME NEW files, NEW T, IsSequence(T), NEW U, IsSequence(U), Len(U) = Len(T),
         Renames(T, U, 0), Reaches(files, T)
  PROVE  Reaches(files, U)
  <1> SUFFICES ASSUME NEW i \in 1..Len(U), IsId(U[i])
               PROVE  ReachedAt(files, U, i)
    BY Zenon DEF Reaches
  <1>1. i \in 1..Len(T) /\ 0 + i = i /\ 0 \in Nat
    OBVIOUS
  <1>2. IsId(T[i])
    BY <1>1, Zenon DEF Renames, IsId
  <1>3. ReachedAt(files, T, i)
    BY <1>1, <1>2, Zenon DEF Reaches
  <1>4. ReachedAt(files, U, 0 + i)
    BY <1>1, <1>2, <1>3, StaysReached
  <1> QED BY <1>1, <1>4, Zenon

LEMMA JoinedReaches ==
  ASSUME NEW files, NEW T, IsText(T), NEW U, IsText(U), Reaches(files, T),
         \A i \in 1..Len(U) : IsId(U[i]) => ReachedAt(files, T \o U, Len(T) + i)
  PROVE  Reaches(files, T \o U)
  <1> SUFFICES ASSUME NEW i \in 1..Len(T \o U), IsId((T \o U)[i])
               PROVE  ReachedAt(files, T \o U, i)
    BY Zenon DEF Reaches
  <1>1. IsSequence(T) /\ IsSequence(U) /\ IsSequence(T \o U)
    BY JoinedTexts, Zenon DEF IsText
  <1>2. CASE i \in 1..Len(T)
    <2>1. (T \o U)[i] = T[i] /\ Renames(T, T \o U, 0)
      BY <1>2, JoinedTexts, Zenon
    <2>2. ReachedAt(files, T, i) /\ IsId(T[i])
      BY <1>2, <2>1, Zenon DEF Reaches
    <2>3. ReachedAt(files, T \o U, 0 + i)
      BY <1>1, <1>2, <2>1, <2>2, StaysReached
    <2>4. 0 + i = i
      BY <1>2
    <2> QED BY <2>3, <2>4, Zenon
  <1>3. CASE i \notin 1..Len(T)
    <2>1. PICK j \in 1..Len(U) : i = Len(T) + j
      BY <1>3, JoinedTexts, Zenon
    <2>2. SecondAt(T, U, T \o U)
      BY SecondPart
    <2>3. (T \o U)[i] = U[j]
      BY <2>1, <2>2, Zenon DEF SecondAt
    <2> QED BY <2>1, <2>3, Zenon
  <1> QED BY <1>2, <1>3

\* What a part of the text brings, the text brings.
LEMMA JoinedFound ==
  ASSUME NEW T, IsText(T), NEW U, IsText(U), NEW name, NEW s
  PROVE  /\ FoundIn(T, name, s) =>
              \E j \in At(T \o U) : /\ j \in 1..Len(T)
                                    /\ (T \o U)[j].v = name /\ (T \o U)[j].from = s.at
                                    /\ (T \o U)[j].was = Tip(s.name)
         /\ FoundIn(T, name, s) \/ FoundIn(U, name, s) => FoundIn(T \o U, name, s)
  <1>0. IsSequence(T) /\ IsSequence(U) /\ IsSequence(T \o U) /\ Len(T) \in Nat
    BY JoinedTexts, Length, Zenon DEF IsText
  <1>1. ASSUME NEW j \in At(T)
        PROVE  j \in At(T \o U) /\ (T \o U)[j] = T[j] /\ j \in 1..Len(T)
    <2>1. 0 + j \in At(T \o U) /\ j \in 1..Len(T)
      BY <1>0, JoinedTexts, StaysDeclared
    <2>2. 0 + j = j
      BY <2>1
    <2> QED BY <2>1, <2>2, JoinedTexts, Zenon
  <1>2. ASSUME NEW j \in At(U)
        PROVE  Len(T) + j \in At(T \o U) /\ (T \o U)[Len(T) + j] = U[j]
    <2>1. Len(T) + j \in At(T \o U) /\ j \in 1..Len(U)
      BY <1>0, JoinedTexts, StaysDeclared
    <2>2. SecondAt(T, U, T \o U)
      BY SecondPart
    <2> QED BY <2>1, <2>2, Zenon DEF SecondAt
  <1>3. FoundIn(T, name, s) =>
              \E j \in At(T \o U) : /\ j \in 1..Len(T)
                                    /\ (T \o U)[j].v = name /\ (T \o U)[j].from = s.at
                                    /\ (T \o U)[j].was = Tip(s.name)
    BY <1>1, Zenon DEF FoundIn
  <1>4. FoundIn(U, name, s) => FoundIn(T \o U, name, s)
    BY <1>2, Zenon DEF FoundIn
  <1> QED BY <1>3, <1>4, Zenon DEF FoundIn

LEMMA JoinedBrings ==
  ASSUME NEW files, NEW T, IsText(T), NEW U, IsText(U), NEW as, NEW path,
         Brings(files, T, as, path) \/ Brings(files, U, as, path)
  PROVE  Brings(files, T \o U, as, path)
  BY JoinedFound, Zenon DEF Brings

\* Under an alias, so does the text that is renamed.
LEMMA RenamedBrings ==
  ASSUME NEW files, NEW T, IsText(T), NEW U, IsText(U), NEW as, NEW path,
         Renames(T, U, 0), \A i \in At(T) : U[i].v = as \o T[i].v,
         Brings(files, T, <<>>, path)
  PROVE  Brings(files, U, as, path)
  <1> SUFFICES ASSUME NEW k \in 0..Cardinality(DOMAIN files), NEW s \in ScopesTo(files)[k][path]
               PROVE  Scoped(s) /\ FoundIn(U, as \o s.name, s)
    BY Zenon DEF Brings
  <1>1. Scoped(s) /\ FoundIn(T, <<>> \o s.name, s)
    BY Zenon DEF Brings
  <1>2. <<>> \o s.name = s.name
    <2>1. PICK S : s.name \in Seq(S)
      BY <1>1 DEF Scoped, IsSequence
    <2> QED BY <2>1, ConcatEmptySeq
  <1>3. PICK j \in At(T) : T[j].v = s.name /\ T[j].from = s.at /\ T[j].was = Tip(s.name)
    BY <1>1, <1>2, Zenon DEF FoundIn
  <1>4. 0 + j \in At(U) /\ IsId(T[j]) /\ j \in 1..Len(T)
    BY StaysDeclared DEF IsText
  <1>5. 0 + j = j
    BY <1>4
  <1>6. U[j].from = T[j].from /\ U[j].was = T[j].was
    BY <1>4, <1>5, Zenon DEF Renames
  <1>7. U[j].v = as \o s.name
    BY <1>3, Zenon
  <1> QED BY <1>1, <1>3, <1>4, <1>5, <1>6, <1>7, Zenon DEF FoundIn

-----------------------------------------------------------------------------
(* The functions that are defined by recursion *)

\* What they begin with, and how they go on from what was before.
StartOf(kind, x) ==
  IF kind = "names" THEN <<>>
  ELSE IF kind = "renamed" THEN x[1]
  ELSE IF kind = "calls" THEN x[1]
  ELSE [path \in DOMAIN x |-> Own(x, path)]

StepOf(kind, x, i, before) ==
  IF kind = "names" THEN IF Declares(x, i - 1) THEN Append(before, x[i].v) ELSE before
  ELSE IF kind = "renamed" THEN replace_identifier(before, x[2][i], x[3] \o x[2][i])
  ELSE IF kind = "calls" THEN rewrite_ns_calls(before, x[2][i])
  ELSE [path \in DOMAIN x |->
          Own(x, path) \cup
            UNION {{[s EXCEPT !.name = x[path][k].as \o @] :
                     s \in before[Plain(FullPath(path, x[path][k].file))]} :
                    k \in {j \in DOMAIN x[path] : x[path][j].import}}]

Unrolls(kind, x, n, g) ==
  g = [i \in 0..n |-> IF i = 0 THEN StartOf(kind, x) ELSE StepOf(kind, x, i, g[i - 1])]

\* There is such a function.
LEMMA UnrollsExist ==
  ASSUME NEW kind, NEW x, NEW n \in Nat
  PROVE  \E g : Unrolls(kind, x, n, g)
  <1> DEFINE Bad == {m \in Nat : ~\E g : Unrolls(kind, x, m, g)}
  <1>1. SUFFICES ASSUME n \in Bad PROVE FALSE
    OBVIOUS
  <1>2. PICK m \in Bad : \A k \in Bad : ~(k < m)
    BY <1>1, LeastOf, Zenon
  <1>3. m # 0
    <2> DEFINE e == [i \in 0..0 |-> StartOf(kind, x)]
    <2>1. \A i \in 0..0 : i = 0
      OBVIOUS
    <2>2. e = [i \in 0..0 |-> IF i = 0 THEN StartOf(kind, x) ELSE StepOf(kind, x, i, e[i - 1])]
      BY <2>1
    <2>3. Unrolls(kind, x, 0, e)
      BY <2>2 DEF Unrolls
    <2>4. 0 \notin Bad
      BY <2>3, Zenon
    <2> QED BY <1>2, <2>4, Zenon
  <1>4. m \in Nat /\ m - 1 \in Nat /\ m - 1 < m
    BY <1>2, <1>3
  <1>5. PICK g : Unrolls(kind, x, m - 1, g)
    BY <1>2, <1>4, Zenon
  <1> DEFINE h == [i \in 0..m |-> IF i = m THEN StepOf(kind, x, m, g[m - 1]) ELSE g[i]]
             F(i) == IF i = 0 THEN StartOf(kind, x) ELSE StepOf(kind, x, i, h[i - 1])
  <1>6. ASSUME NEW i \in 0..m PROVE h[i] = F(i)
    <2>1. CASE i = m
      <3>1. h[i] = StepOf(kind, x, m, g[m - 1]) /\ i # 0 /\ i - 1 \in 0..m /\ i - 1 # m
        BY <1>3, <1>4, <2>1
      <3>2. h[i - 1] = g[m - 1]
        BY <2>1, <3>1
      <3> QED BY <2>1, <3>1, <3>2
    <2>2. CASE i # m
      <3>1. h[i] = g[i] /\ i \in 0..m - 1
        BY <1>4, <2>2
      <3>2. g[i] = IF i = 0 THEN StartOf(kind, x) ELSE StepOf(kind, x, i, g[i - 1])
        BY <1>5, <3>1, Zenon DEF Unrolls
      <3>3. ASSUME i # 0 PROVE h[i - 1] = g[i - 1]
        <4>1. i - 1 \in 0..m /\ i - 1 # m
          BY <1>4, <2>2, <3>3
        <4> QED BY <4>1
      <3> HIDE DEF h
      <3> QED BY <3>1, <3>2, <3>3
    <2> QED BY <2>1, <2>2
  <1>7. h = [i \in 0..m |-> F(i)]
    <2> DEFINE D == 0..m
    <2> HIDE DEF D
    <2>1. h = [i \in D |-> h[i]]
      BY DEF D
    <2>2. \A i \in D : h[i] = F(i)
      BY <1>6 DEF D
    <2> HIDE DEF h, F
    <2> QED BY <2>1, <2>2, Zenon DEF D
  <1>8. Unrolls(kind, x, m, h)
    <2> HIDE DEF h
    <2> QED BY <1>7, Zenon DEF Unrolls
  <1> QED BY <1>2, <1>8, Zenon

\* It begins and goes on as it should.
LEMMA UnrollsAt ==
  ASSUME NEW kind, NEW x, NEW n \in Nat, NEW g, Unrolls(kind, x, n, g)
  PROVE  /\ g[0] = StartOf(kind, x)
         /\ \A i \in 1..n : g[i] = StepOf(kind, x, i, g[i - 1])
  <1>1. \A i \in 0..n : g[i] = IF i = 0 THEN StartOf(kind, x) ELSE StepOf(kind, x, i, g[i - 1])
    BY Zenon DEF Unrolls
  <1>2. 0 \in 0..n /\ \A i \in 1..n : i \in 0..n /\ i # 0
    OBVIOUS
  <1> QED BY <1>1, <1>2, Zenon

\* extract_fn_names is one of them, ...
LEMMA NamesUnroll ==
  ASSUME NEW toks, Len(toks) \in Nat
  PROVE  \E g : Unrolls("names", toks, Len(toks), g) /\ extract_fn_names(toks) = g[Len(toks)]
  <1> DEFINE K(g) == g = [i \in 0..Len(toks) |->
                            IF i = 0 THEN <<>>
                            ELSE IF Declares(toks, i - 1) THEN Append(g[i - 1], toks[i].v)
                                 ELSE g[i - 1]]
  <1>1. PICK g : Unrolls("names", toks, Len(toks), g)
    BY UnrollsExist
  <1>2. StartOf("names", toks) = <<>>
        /\ \A i, b : StepOf("names", toks, i, b)
                       = IF Declares(toks, i - 1) THEN Append(b, toks[i].v) ELSE b
    BY Zenon DEF StartOf, StepOf
  <1>3. \A f : K(f) <=> Unrolls("names", toks, Len(toks), f)
    BY <1>2, Zenon DEF Unrolls
  <1>4. K(CHOOSE f : K(f))
    BY <1>1, <1>3, Zenon
  <1>5. extract_fn_names(toks) = (CHOOSE f : K(f))[Len(toks)]
    BY Zenon DEF extract_fn_names
  <1> QED BY <1>3, <1>4, <1>5, Zenon

\* ... and so are namespace_imported_source, ...
LEMMA RenamedUnrolls ==
  ASSUME NEW toks, NEW ns, Len(extract_fn_names(toks)) \in Nat
  PROVE  LET names == extract_fn_names(toks)
             x     == <<toks, names, ns>>
         IN \E g : Unrolls("renamed", x, Len(names), g) /\ Namespaced(toks, ns) = g[Len(names)]
  <1> DEFINE names == extract_fn_names(toks)
             x == <<toks, names, ns>>
             K(g) == g = [k \in 0..Len(names) |->
                            IF k = 0 THEN toks
                            ELSE replace_identifier(g[k - 1], names[k], ns \o names[k])]
  <1>1. PICK g : Unrolls("renamed", x, Len(names), g)
    <2> HIDE DEF names, x
    <2> QED BY UnrollsExist DEF names
  <1>5. Namespaced(toks, ns) = (CHOOSE f : K(f))[Len(names)]
    BY Zenon DEF Namespaced
  <1> HIDE DEF names
  <1>2. x[1] = toks /\ x[2] = names /\ x[3] = ns
    OBVIOUS
  <1> HIDE DEF x
  <1>3. StartOf("renamed", x) = x[1]
    BY DEF StartOf
  <1>4. \A i, b : StepOf("renamed", x, i, b) = replace_identifier(b, x[2][i], x[3] \o x[2][i])
    BY DEF StepOf
  <1>6. StartOf("renamed", x) = toks
        /\ \A i, b : StepOf("renamed", x, i, b) = replace_identifier(b, names[i], ns \o names[i])
    BY <1>2, <1>3, <1>4, Zenon
  <1>7. \A f : K(f) <=> Unrolls("renamed", x, Len(names), f)
    BY <1>6, Zenon DEF Unrolls
  <1>8. K(CHOOSE f : K(f))
    BY <1>1, <1>7, Zenon
  <1> HIDE DEF K
  <1>9. \E f : Unrolls("renamed", x, Len(names), f) /\ Namespaced(toks, ns) = f[Len(names)]
    BY <1>5, <1>7, <1>8, Zenon
  <1> QED BY <1>9, Zenon DEF names, x

\* ... rewriting for each alias in turn, ...
LEMMA CallsUnroll ==
  ASSUME NEW f, Len(f.aliases) \in Nat
  PROVE  \E g : /\ Unrolls("calls", <<f.body, f.aliases>>, Len(f.aliases), g)
                /\ Returned(f) = f.result \o g[Len(f.aliases)]
  <1> DEFINE x == <<f.body, f.aliases>>
             n == Len(f.aliases)
             K(g) == g = [k \in 0..n |->
                            IF k = 0 THEN f.body ELSE rewrite_ns_calls(g[k - 1], f.aliases[k])]
  <1>1. PICK g : Unrolls("calls", x, n, g)
    <2> HIDE DEF x
    <2> QED BY UnrollsExist
  <1>2. x[1] = f.body /\ x[2] = f.aliases
    OBVIOUS
  <1>3. Returned(f) = f.result \o (CHOOSE h : K(h))[n]
    BY Zenon DEF Returned
  <1> HIDE DEF x, n
  <1>4. StartOf("calls", x) = x[1]
    BY DEF StartOf
  <1>5. \A i, b : StepOf("calls", x, i, b) = rewrite_ns_calls(b, x[2][i])
    BY DEF StepOf
  <1>6. StartOf("calls", x) = f.body
        /\ \A i, b : StepOf("calls", x, i, b) = rewrite_ns_calls(b, f.aliases[i])
    BY <1>2, <1>4, <1>5, Zenon
  <1>7. \A h : K(h) <=> Unrolls("calls", x, n, h)
    BY <1>6, Zenon DEF Unrolls
  <1>8. K(CHOOSE h : K(h))
    BY <1>1, <1>7, Zenon
  <1> HIDE DEF K
  <1>9. \E h : Unrolls("calls", x, n, h) /\ Returned(f) = f.result \o h[n]
    BY <1>3, <1>7, <1>8, Zenon
  <1> QED BY <1>9, Zenon DEF x, n

\* ... and the functions of the files a file imports, theirs, and so on.
LEMMA ScopesUnroll ==
  ASSUME NEW files, Cardinality(DOMAIN files) \in Nat
  PROVE  Unrolls("scopes", files, Cardinality(DOMAIN files), ScopesTo(files))
  <1> DEFINE n == Cardinality(DOMAIN files)
             Brought1(before, path) ==
               UNION {{[s EXCEPT !.name = files[path][k].as \o @] :
                        s \in before[Plain(FullPath(path, files[path][k].file))]} :
                       k \in {j \in DOMAIN files[path] : files[path][j].import}}
             One(g, i) == [path \in DOMAIN files |->
                             Own(files, path) \cup IF i = 0 THEN {} ELSE Brought1(g[i - 1], path)]
             K(g) == g = [i \in 0..n |-> One(g, i)]
  <1>1. PICK g : Unrolls("scopes", files, n, g)
    BY UnrollsExist
  <1>2. ScopesTo(files) = CHOOSE f : K(f)
    BY Zenon DEF ScopesTo
  <1> HIDE DEF n
  <1>3. StartOf("scopes", files) = [path \in DOMAIN files |-> Own(files, path)]
    BY DEF StartOf
  <1>4. \A i, b : StepOf("scopes", files, i, b)
                    = [path \in DOMAIN files |-> Own(files, path) \cup Brought1(b, path)]
    BY DEF StepOf
  <1> HIDE DEF Brought1
  <1>5. \A f, i : One(f, i) = IF i = 0 THEN StartOf("scopes", files)
                              ELSE StepOf("scopes", files, i, f[i - 1])
    <2> SUFFICES ASSUME NEW f, NEW i
                 PROVE  One(f, i) = IF i = 0 THEN StartOf("scopes", files)
                                    ELSE StepOf("scopes", files, i, f[i - 1])
      BY Zenon
    <2>1. CASE i = 0
      <3>1. One(f, i) = [path \in DOMAIN files |-> Own(files, path) \cup {}]
        BY <2>1, Zenon
      <3>2. \A A : A \cup {} = A
        OBVIOUS
      <3>3. One(f, i) = [path \in DOMAIN files |-> Own(files, path)]
        BY <3>1, <3>2, Zenon
      <3> QED BY <1>3, <2>1, <3>3, Zenon
    <2>2. CASE i # 0
      BY <1>4, <2>2, Zenon
    <2> QED BY <2>1, <2>2
  <1> HIDE DEF One
  <1>6. \A f : K(f) <=> Unrolls("scopes", files, n, f)
    BY <1>5, Zenon DEF Unrolls
  <1>7. K(CHOOSE f : K(f))
    BY <1>1, <1>6, Zenon
  <1> HIDE DEF K
  <1> QED BY <1>2, <1>6, <1>7, Zenon DEF n

\* Induction over a function's arguments.
LEMMA UpTo ==
  ASSUME NEW n \in Nat, NEW S, 0 \in S, \A i \in 1..n : i - 1 \in S => i \in S
  PROVE  \A i \in 0..n : i \in S
  <1> DEFINE Bad == {m \in Nat : m <= n /\ m \notin S}
  <1> SUFFICES ASSUME NEW i \in 0..n, i \notin S PROVE FALSE
    OBVIOUS
  <1>1. i \in Bad
    OBVIOUS
  <1>2. PICK m \in Bad : \A k \in Bad : ~(k < m)
    BY <1>1, LeastOf, Zenon
  <1>3. m # 0 /\ m \in Nat /\ m <= n /\ m \notin S
    BY <1>2
  <1>4. m \in 1..n /\ m - 1 \in Nat /\ m - 1 <= n /\ m - 1 < m
    BY <1>3
  <1>5. m - 1 \in S
    BY <1>2, <1>4
  <1> QED BY <1>3, <1>4, <1>5

-----------------------------------------------------------------------------
(* Renaming *)

\* The names a text declares, without their places, up to place n.
ListedTo(toks, n, names) ==
  /\ IsSequence(names)
  /\ \A k \in 1..Len(names) : \E p \in At(toks) : p <= n /\ names[k] = toks[p].v
  /\ \A p \in At(toks) : p <= n => \E k \in 1..Len(names) : names[k] = toks[p].v
  /\ ~Twice(toks) => \A k, m \in 1..Len(names) : names[k] = names[m] => k = m

LEMMA OneMoreListed ==
  ASSUME NEW toks, NEW n \in Nat, n # 0, NEW names, ListedTo(toks, n - 1, names), n \in At(toks)
  PROVE  ListedTo(toks, n, Append(names, toks[n].v))
  <1> DEFINE more == Append(names, toks[n].v)
             c == Len(names)
  <1>1. IsSequence(names)
    BY DEF ListedTo
  <1>2. /\ IsSequence(more) /\ Len(more) = c + 1
        /\ \A k \in 1..c : more[k] = names[k]
        /\ more[c + 1] = toks[n].v
    BY <1>1, OneMore
  <1>3. c \in Nat
    BY <1>1, Length
  <1> HIDE DEF more, c
  <1>4. \A k : k \in 1..Len(more) <=> k \in 1..c \/ k = c + 1
    BY <1>2, <1>3
  <1>5. At(toks) \subseteq Int /\ \A p \in At(toks) : p <= n - 1 => p <= n /\ p # n
    BY DEF At
  <1>6. \A p \in At(toks) : p <= n => p <= n - 1 \/ p = n
    BY <1>5
  <1>7. n <= n
    OBVIOUS
  <1>8. /\ \A k \in 1..c : \E p \in At(toks) : p <= n - 1 /\ names[k] = toks[p].v
        /\ \A p \in At(toks) : p <= n - 1 => \E k \in 1..c : names[k] = toks[p].v
        /\ ~Twice(toks) => \A k, m \in 1..c : names[k] = names[m] => k = m
    BY Zenon DEF ListedTo, c
  <1>9. \A k \in 1..Len(more) : \E p \in At(toks) : p <= n /\ more[k] = toks[p].v
    <2> SUFFICES ASSUME NEW k \in 1..Len(more)
                 PROVE  \E p \in At(toks) : p <= n /\ more[k] = toks[p].v
      OBVIOUS
    <2>1. CASE k \in 1..c
      <3>1. PICK p \in At(toks) : p <= n - 1 /\ names[k] = toks[p].v
        BY <1>8, <2>1, Zenon
      <3>2. p <= n /\ more[k] = toks[p].v
        BY <1>2, <1>5, <2>1, <3>1, Zenon
      <3> QED BY <3>2, Zenon
    <2>2. CASE k = c + 1
      BY <1>2, <1>7, <2>2, Zenon
    <2> QED BY <1>4, <2>1, <2>2, Zenon
  <1>10. \A p \in At(toks) : p <= n => \E k \in 1..Len(more) : more[k] = toks[p].v
    BY <1>2, <1>4, <1>6, <1>8, Zenon
  <1>11. ASSUME ~Twice(toks), NEW k \in 1..c PROVE more[k] # more[c + 1]
    <2>1. PICK p \in At(toks) : p <= n - 1 /\ names[k] = toks[p].v
      BY <1>8, Zenon
    <2>2. p # n
      BY <1>5, <2>1, Zenon
    <2>3. toks[p].v # toks[n].v
      BY <1>11, <2>2, Zenon DEF Twice
    <2> QED BY <1>2, <2>1, <2>3, Zenon
  <1>12. ~Twice(toks) => \A k, m \in 1..Len(more) : more[k] = more[m] => k = m
    BY <1>2, <1>4, <1>8, <1>11, Zenon
  <1> QED BY <1>2, <1>9, <1>10, <1>12, Zenon DEF ListedTo, more

\* What extract_fn_names gives.
LEMMA NamesListed ==
  ASSUME NEW toks, IsSequence(toks)
  PROVE  ListedTo(toks, Len(toks), extract_fn_names(toks))
  <1>1. Len(toks) \in Nat /\ DOMAIN toks = 1..Len(toks)
    BY Length
  <1>2. PICK g : Unrolls("names", toks, Len(toks), g) /\ extract_fn_names(toks) = g[Len(toks)]
    BY <1>1, NamesUnroll, Zenon
  <1>3. /\ g[0] = StartOf("names", toks)
        /\ \A i \in 1..Len(toks) : g[i] = StepOf("names", toks, i, g[i - 1])
    BY <1>1, <1>2, UnrollsAt
  <1>4. StartOf("names", toks) = <<>>
        /\ \A i, b : StepOf("names", toks, i, b)
                       = IF Declares(toks, i - 1) THEN Append(b, toks[i].v) ELSE b
    BY Zenon DEF StartOf, StepOf
  <1> DEFINE S == {i \in Nat : ListedTo(toks, i, g[i])}
  <1>5. 0 \in S
    <2>1. IsSequence(<<>>) /\ Len(<<>>) = 0 /\ 1..0 = {}
      <3>1. <<>> \in Seq({0})
        OBVIOUS
      <3> QED BY <3>1 DEF IsSequence
    <2>2. \A p \in At(toks) : ~(p <= 0)
      BY DEF At
    <2>3. ListedTo(toks, 0, <<>>)
      BY <2>1, <2>2, Zenon DEF ListedTo
    <2> QED BY <1>3, <1>4, <2>3
  <1>6. ASSUME NEW i \in 1..Len(toks), i - 1 \in S PROVE i \in S
    <2>1. i \in Nat /\ i # 0 /\ ListedTo(toks, i - 1, g[i - 1])
      BY <1>1, <1>6
    <2>2. g[i] = IF Declares(toks, i - 1) THEN Append(g[i - 1], toks[i].v) ELSE g[i - 1]
      BY <1>3, <1>4, Zenon
    <2>3. CASE i \in At(toks)
      <3>1. g[i] = Append(g[i - 1], toks[i].v)
        BY <2>2, <2>3, Zenon DEF At
      <3>2. ListedTo(toks, i, g[i])
        BY <2>1, <2>3, <3>1, OneMoreListed
      <3> QED BY <2>1, <3>2
    <2>4. CASE i \notin At(toks)
      <3>1. g[i] = g[i - 1]
        BY <2>2, <2>4, Zenon DEF At
      <3>2. \A p \in At(toks) : (p <= i => p <= i - 1) /\ (p <= i - 1 => p <= i)
        BY <2>1, <2>4 DEF At
      <3> DEFINE names == g[i]
      <3>4. ListedTo(toks, i - 1, names)
        BY <2>1, <3>1, Zenon
      <3> HIDE DEF names
      <3>5. /\ IsSequence(names)
            /\ \A k \in 1..Len(names) : \E p \in At(toks) : p <= i - 1 /\ names[k] = toks[p].v
            /\ \A p \in At(toks) : p <= i - 1 => \E k \in 1..Len(names) : names[k] = toks[p].v
            /\ ~Twice(toks) => \A k, m \in 1..Len(names) : names[k] = names[m] => k = m
        BY <3>4, Zenon DEF ListedTo
      <3>6. ListedTo(toks, i, names)
        BY <3>2, <3>5, Zenon DEF ListedTo
      <3>3. ListedTo(toks, i, g[i])
        BY <3>6 DEF names
      <3> QED BY <2>1, <3>3
    <2> QED BY <2>3, <2>4
  <1>7. Len(toks) \in S
    <2> HIDE DEF S
    <2>1. \A i \in 0..Len(toks) : i \in S
      BY <1>1, <1>5, <1>6, UpTo
    <2>2. Len(toks) \in 0..Len(toks)
      BY <1>1
    <2> QED BY <2>1, <2>2, Zenon
  <1> QED BY <1>2, <1>7

\* A token whose name is replaced.
LEMMA OneToken ==
  ASSUME NEW tok, IsToken(tok), NEW new
  PROVE  LET to == [tok EXCEPT !.v = new]
         IN /\ IsToken(to) /\ to.t = tok.t
            /\ IsId(tok) => to.v = new /\ to.from = tok.from /\ to.was = tok.was
  <1> DEFINE to == [tok EXCEPT !.v = new]
  <1>1. DOMAIN to = DOMAIN tok
    OBVIOUS
  <1>2. "t" \in DOMAIN tok
    BY DEF IsToken
  <1>3. to.t = tok.t
    BY <1>2
  <1>4. ASSUME IsId(tok) PROVE to.v = new /\ to.from = tok.from /\ to.was = tok.was
    <2>1. "v" \in DOMAIN tok /\ "from" \in DOMAIN tok /\ "was" \in DOMAIN tok
      BY <1>4, Zenon DEF IsToken
    <2> QED BY <2>1
  <1> HIDE DEF to
  <1>5. IsToken(to)
    BY <1>1, <1>3, Zenon DEF IsToken, IsId
  <1> QED BY <1>3, <1>4, <1>5 DEF to

\* A function from 1..n is a sequence.
LEMMA AsSequence ==
  ASSUME NEW n \in Nat, NEW s, s = [i \in 1..n |-> s[i]]
  PROVE  IsSequence(s) /\ Len(s) = n
  <1> DEFINE S == {s[i] : i \in 1..n}
  <1>1. s \in [1..n -> S]
    <2>1. \A i \in 1..n : s[i] \in S
      OBVIOUS
    <2> HIDE DEF S
    <2> QED BY <2>1, Zenon
  <1> HIDE DEF S
  <1>2. s \in Seq(S)
    BY <1>1
  <1>3. Len(s) = n
    BY <1>1
  <1> QED BY <1>2, <1>3, Zenon DEF IsSequence

\* What replace_identifier does.
LEMMA OneRenamed ==
  ASSUME NEW T, IsText(T), NEW old, NEW new
  PROVE  LET U == replace_identifier(T, old, new)
         IN /\ IsText(U) /\ Len(U) = Len(T) /\ Renames(T, U, 0)
            /\ \A i \in 1..Len(T) : IsId(T[i]) => U[i].v = IF T[i].v = old THEN new ELSE T[i].v
  <1> DEFINE ren(tok) == IF tok.t \in {"id", "str"} /\ tok.v = old THEN [tok EXCEPT !.v = new] ELSE tok
             U == replace_identifier(T, old, new)
  <1>1. DOMAIN T = 1..Len(T) /\ Len(T) \in Nat /\ IsSequence(T)
    BY Length, Zenon DEF IsText
  <1>2. U = [i \in 1..Len(T) |-> ren(T[i])]
    BY <1>1, Zenon DEF replace_identifier
  <1>3. ASSUME NEW tok, IsToken(tok)
        PROVE  /\ IsToken(ren(tok)) /\ ren(tok).t = tok.t
               /\ IsId(tok) => /\ ren(tok).v = IF tok.v = old THEN new ELSE tok.v
                               /\ ren(tok).from = tok.from /\ ren(tok).was = tok.was
    <2> DEFINE to == [tok EXCEPT !.v = new]
    <2>1. /\ IsToken(to) /\ to.t = tok.t
          /\ IsId(tok) => to.v = new /\ to.from = tok.from /\ to.was = tok.was
      BY <1>3, OneToken
    <2> HIDE DEF to
    <2>2. CASE tok.t \in {"id", "str"} /\ tok.v = old
      <3>1. ren(tok) = to
        BY <2>2, Zenon DEF to
      <3> HIDE DEF ren
      <3> QED BY <2>1, <2>2, <3>1, Zenon
    <2>3. CASE ~(tok.t \in {"id", "str"} /\ tok.v = old)
      <3>1. ren(tok) = tok
        BY <2>3, Zenon
      <3>2. IsId(tok) => tok.v # old
        BY <2>3 DEF IsId
      <3> HIDE DEF ren
      <3> QED BY <1>3, <3>1, <3>2, Zenon
    <2> QED BY <2>2, <2>3
  <1> HIDE DEF ren, U
  <1>4. \A i \in 1..Len(T) : U[i] = ren(T[i])
    BY <1>2, Zenon
  <1>5. U = [i \in 1..Len(T) |-> U[i]]
    BY <1>2
  <1>6. IsSequence(U) /\ Len(U) = Len(T)
    BY <1>1, <1>5, AsSequence
  <1>7. \A i \in 1..Len(T) :
          /\ IsToken(U[i]) /\ U[i].t = T[i].t
          /\ IsId(T[i]) => /\ U[i].v = IF T[i].v = old THEN new ELSE T[i].v
                           /\ U[i].from = T[i].from /\ U[i].was = T[i].was
    BY <1>3, <1>4, Zenon DEF IsText
  <1>8. Renames(T, U, 0)
    <2>1. \A i \in 1..Len(T) : 0 + i = i
      OBVIOUS
    <2>2. Len(T) + 0 <= Len(U)
      BY <1>1, <1>6
    <2>3. ASSUME NEW i \in 1..Len(T), NEW j \in 1..Len(T), IsId(T[i]), IsId(T[j]), T[i].v = T[j].v
          PROVE  U[0 + i].v = U[0 + j].v
      BY <1>7, <2>1, <2>3, Zenon
    <2>4. ASSUME NEW i \in 1..Len(T)
          PROVE  /\ U[0 + i].t = T[i].t
                 /\ IsId(T[i]) => U[0 + i].from = T[i].from /\ U[0 + i].was = T[i].was
      BY <1>7, <2>1, Zenon
    <2> QED BY <2>2, <2>3, <2>4, Zenon DEF Renames
  <1> QED BY <1>6, <1>7, <1>8, Zenon DEF IsText, U

\* U is T after the first k names were given the prefix, unless that gave two
\* functions one name.
PartlyRenamed(T, names, ns, k, U) ==
  /\ IsText(U) /\ Len(U) = Len(T) /\ Renames(T, U, 0)
  /\ \/ Twice(U)
     \/ \A p \in At(T) :
          /\ (\E m \in 1..k : names[m] = T[p].v) => U[p].v = ns \o T[p].v
          /\ ~(\E m \in 1..k : names[m] = T[p].v) => U[p].v = T[p].v

LEMMA OneMoreRenamed ==
  ASSUME NEW T, IsText(T), NEW names, ListedTo(T, Len(T), names), NEW ns, NEW k \in 1..Len(names),
         NEW V, PartlyRenamed(T, names, ns, k - 1, V)
  PROVE  PartlyRenamed(T, names, ns, k, replace_identifier(V, names[k], ns \o names[k]))
  <1> DEFINE U == replace_identifier(V, names[k], ns \o names[k])
  <1>1. IsText(V) /\ Len(V) = Len(T) /\ Renames(T, V, 0)
    BY DEF PartlyRenamed
  <1>2. /\ IsText(U) /\ Len(U) = Len(V) /\ Renames(V, U, 0)
        /\ \A i \in 1..Len(V) :
             IsId(V[i]) => U[i].v = IF V[i].v = names[k] THEN ns \o names[k] ELSE V[i].v
    BY <1>1, OneRenamed
  <1> HIDE DEF U
  <1>3. IsSequence(T) /\ IsSequence(U) /\ IsSequence(V) /\ Len(T) \in Nat /\ IsSequence(names)
    BY <1>1, <1>2, Length DEF IsText, ListedTo
  <1>4. Renames(T, U, 0)
    BY <1>1, <1>2, <1>3, RenamesAgain
  <1>5. 0 \in Nat
    OBVIOUS
  <1>6. CASE Twice(V)
    <2>1. Twice(U)
      BY <1>2, <1>3, <1>5, <1>6, StaysTwice
    <2> QED BY <1>1, <1>2, <1>4, <2>1, Zenon DEF PartlyRenamed, U
  <1>7. CASE ~Twice(V)
    <2>1. ~Twice(T)
      BY <1>1, <1>3, <1>5, <1>7, StaysTwice
    <2>2. Len(names) \in Nat
      BY <1>3, Length
    <2>3. k - 1 \in Nat /\ \A m \in 1..k : m \in 1..Len(names) /\ (m # k => m \in 1..k - 1)
      BY <2>2
    <2>4. \A m \in 1..k - 1 : m \in 1..k /\ m \in 1..Len(names) /\ m # k
      BY <2>2
    <2>5. k \in 1..k
      BY <2>2
    <2>6. PICK q \in At(T) : names[k] = T[q].v
      BY Zenon DEF ListedTo
    <2>7. \A m \in 1..Len(names) : names[m] = names[k] => m = k
      BY <2>1, Zenon DEF ListedTo
    <2>8. \A p \in At(T) :
            /\ (\E m \in 1..k - 1 : names[m] = T[p].v) => V[p].v = ns \o T[p].v
            /\ ~(\E m \in 1..k - 1 : names[m] = T[p].v) => V[p].v = T[p].v
      BY <1>7, Zenon DEF PartlyRenamed
    <2>9. V[q].v = names[k]
      <3>1. ~\E m \in 1..k - 1 : names[m] = T[q].v
        BY <2>4, <2>6, <2>7, Zenon
      <3> QED BY <2>6, <2>8, <3>1, Zenon
    <2>10. ASSUME NEW p \in At(T)
           PROVE  p \in At(V) /\ IsId(V[p]) /\ p \in 1..Len(V)
      <3>1. 0 + p \in At(V) /\ p \in 1..Len(T) /\ IsId(T[p])
        BY <1>1, <1>3, <1>5, StaysDeclared
      <3>2. 0 + p = p
        BY <3>1
      <3>3. V[p].t = T[p].t
        BY <1>1, <3>1, <3>2, Zenon DEF Renames
      <3> QED BY <1>1, <3>1, <3>2, <3>3, Zenon DEF IsId
    <2>11. ASSUME NEW p \in At(T)
           PROVE  /\ (\E m \in 1..k : names[m] = T[p].v) => U[p].v = ns \o T[p].v
                  /\ ~(\E m \in 1..k : names[m] = T[p].v) => U[p].v = T[p].v
      <3>1. U[p].v = IF V[p].v = names[k] THEN ns \o names[k] ELSE V[p].v
        BY <1>2, <2>10, Zenon
      <3>2. CASE T[p].v = names[k]
        <4>1. p = q
          BY <2>1, <2>6, <3>2, Zenon DEF Twice
        <4> QED BY <2>5, <2>9, <3>1, <3>2, <4>1, Zenon
      <3>3. CASE T[p].v # names[k]
        <4>1. p # q
          BY <2>6, <3>3
        <4>2. V[p].v # V[q].v
          BY <1>7, <2>10, <4>1, Zenon DEF Twice
        <4>3. U[p].v = V[p].v
          BY <2>9, <3>1, <4>2, Zenon
        <4>4. (\E m \in 1..k : names[m] = T[p].v) => \E m \in 1..k - 1 : names[m] = T[p].v
          BY <2>3, <3>3, Zenon
        <4>5. (\E m \in 1..k - 1 : names[m] = T[p].v) => \E m \in 1..k : names[m] = T[p].v
          BY <2>4, Zenon
        <4> QED BY <2>8, <4>3, <4>4, <4>5, Zenon
      <3> QED BY <3>2, <3>3
    <2> QED BY <1>1, <1>2, <1>4, <2>11, Zenon DEF PartlyRenamed, U
  <1> QED BY <1>6, <1>7

\* Under an alias every name is kept apart as it was, and what is declared has
\* the alias before its name: or two functions have come to one name.
LEMMA NamespacedRenames ==
  ASSUME NEW T, IsText(T), NEW ns
  PROVE  LET U == Namespaced(T, ns)
         IN /\ IsText(U) /\ Len(U) = Len(T) /\ Renames(T, U, 0)
            /\ Twice(U) \/ \A p \in At(T) : U[p].v = ns \o T[p].v
  <1> DEFINE names == extract_fn_names(T)
             x     == <<T, names, ns>>
             n     == Len(names)
             U     == Namespaced(T, ns)
  <1>1. IsSequence(T) /\ Len(T) \in Nat
    BY Length DEF IsText
  <1>2. ListedTo(T, Len(T), names)
    BY <1>1, NamesListed
  <1>3. n \in Nat
    BY <1>2, Length DEF ListedTo
  <1>4. PICK g : Unrolls("renamed", x, n, g) /\ U = g[n]
    BY <1>3, RenamedUnrolls
  <1>5. x[1] = T /\ x[2] = names /\ x[3] = ns
    OBVIOUS
  <1> HIDE DEF names, n, U, x
  <1>6. /\ g[0] = StartOf("renamed", x)
        /\ \A i \in 1..n : g[i] = StepOf("renamed", x, i, g[i - 1])
    BY <1>3, <1>4, UnrollsAt
  <1>7. StartOf("renamed", x) = x[1]
        /\ \A i, b : StepOf("renamed", x, i, b) = replace_identifier(b, x[2][i], x[3] \o x[2][i])
    BY DEF StartOf, StepOf
  <1>8. g[0] = T /\ \A i \in 1..n : g[i] = replace_identifier(g[i - 1], names[i], ns \o names[i])
    BY <1>5, <1>6, <1>7, Zenon
  <1> DEFINE S == {i \in Nat : PartlyRenamed(T, names, ns, i, g[i])}
  <1>9. 0 \in S
    <2>1. Renames(T, T, 0)
      <3>1. \A i \in 1..Len(T) : 0 + i = i
        OBVIOUS
      <3>2. Len(T) + 0 <= Len(T)
        BY <1>1
      <3> QED BY <3>1, <3>2, Zenon DEF Renames
    <2>2. \A m \in 1..0 : FALSE
      OBVIOUS
    <2>3. PartlyRenamed(T, names, ns, 0, T)
      BY <2>1, <2>2, Zenon DEF PartlyRenamed
    <2> QED BY <1>8, <2>3
  <1>10. ASSUME NEW i \in 1..n, i - 1 \in S PROVE i \in S
    <2>1. PartlyRenamed(T, names, ns, i - 1, g[i - 1]) /\ i \in Nat
      BY <1>3, <1>10
    <2>2. PartlyRenamed(T, names, ns, i, replace_identifier(g[i - 1], names[i], ns \o names[i]))
      BY <1>2, <2>1, OneMoreRenamed DEF n
    <2> QED BY <1>8, <2>1, <2>2
  <1>11. n \in S
    <2> HIDE DEF S
    <2>1. \A i \in 0..n : i \in S
      BY <1>3, <1>9, <1>10, UpTo
    <2>2. n \in 0..n
      BY <1>3
    <2> QED BY <2>1, <2>2, Zenon
  <1>12. PartlyRenamed(T, names, ns, n, U)
    BY <1>4, <1>11
  <1>13. \A p \in At(T) : \E m \in 1..n : names[m] = T[p].v
    <2>1. \A p \in At(T) : p <= Len(T)
      BY <1>1 DEF At
    <2> QED BY <1>2, <2>1, Zenon DEF ListedTo, n
  <1> QED BY <1>12, <1>13, Zenon DEF PartlyRenamed, U

-----------------------------------------------------------------------------
(* Rewriting calls *)

\* What rewrite_ns_calls makes of a text from the i-th token on, and the
\* function it does so by.
RestAt(T, ns, i, rest) ==
  IF i > Len(T) THEN <<>>
  ELSE IF Qualified(T, i, ns)
       THEN <<[T[i + 2] EXCEPT !.v = ns \o @, !.was = ns \o @]>> \o rest[i + 3]
       ELSE <<T[i]>> \o rest[i + 1]

Rests(T, ns, m, rest) == rest = [i \in m..Len(T) + 1 |-> RestAt(T, ns, i, rest)]

LEMMA RestsExist ==
  ASSUME NEW T, IsSequence(T), NEW ns
  PROVE  \E g : Rests(T, ns, 1, g)
  <1> DEFINE n == Len(T)
             S == {c \in Nat : \E g : Rests(T, ns, n + 1 - c, g)}
  <1>1. n \in Nat /\ DOMAIN T = 1..n
    BY Length
  <1>2. 0 \in S
    <2> DEFINE e == [i \in n + 1..n + 1 |-> <<>>]
    <2>1. n + 1 - 0 = n + 1 /\ \A i \in n + 1..n + 1 : i > n
      BY <1>1
    <2>2. e = [i \in n + 1..n + 1 |-> RestAt(T, ns, i, e)]
      BY <2>1 DEF RestAt
    <2>3. Rests(T, ns, n + 1, e)
      BY <2>2 DEF Rests
    <2>4. \E g : Rests(T, ns, n + 1 - 0, g)
      BY <2>1, <2>3
    <2> HIDE DEF e
    <2> QED BY <2>4
  <1>3. ASSUME NEW c \in 1..n, c - 1 \in S PROVE c \in S
    <2> DEFINE m == n + 1 - c
    <2>1. m \in 1..n /\ m + 1 = n + 1 - (c - 1) /\ c \in Nat
      BY <1>1
    <2>2. PICK g : Rests(T, ns, m + 1, g)
      BY <1>3, <2>1
    <2> HIDE DEF m
    <2> DEFINE D    == m..n + 1
               h    == [i \in D |-> IF i = m THEN RestAt(T, ns, m, g) ELSE g[i]]
    <2>3. \A i \in D : i # m => i \in m + 1..n + 1
      BY <1>1, <2>1
    <2>4. \A i \in m + 1..n + 1 : g[i] = RestAt(T, ns, i, g)
      BY <2>2, Zenon DEF Rests
    <2>5. \A i \in D : h[i] = RestAt(T, ns, i, g)
      BY <2>3, <2>4
    <2>6. ASSUME NEW i \in D PROVE RestAt(T, ns, i, h) = RestAt(T, ns, i, g)
      <3>1. ASSUME ~(i > n) PROVE h[i + 1] = g[i + 1]
        <4>1. i + 1 \in D /\ i + 1 # m
          BY <1>1, <2>1, <3>1
        <4> QED BY <4>1
      <3>2. ASSUME Qualified(T, i, ns) PROVE h[i + 3] = g[i + 3]
        <4>1. i + 2 \in 1..n
          BY <1>1, <3>2 DEF Qualified, TokenAt
        <4>2. i + 3 \in D /\ i + 3 # m
          BY <1>1, <2>1, <4>1
        <4> QED BY <4>2
      <3> HIDE DEF h
      <3> QED BY <3>1, <3>2, Zenon DEF RestAt
    <2>7. h = [i \in D |-> RestAt(T, ns, i, h)]
      <3>1. h = [i \in D |-> h[i]]
        OBVIOUS
      <3> HIDE DEF h, D
      <3> QED BY <2>5, <2>6, <3>1, Zenon
    <2>8. Rests(T, ns, m, h)
      BY <2>7, Zenon DEF Rests
    <2> HIDE DEF h
    <2>9. \E f : Rests(T, ns, n + 1 - c, f)
      BY <2>8, Zenon DEF m
    <2> QED BY <2>1, <2>9
  <1>4. n \in S
    <2> HIDE DEF S
    <2>1. \A c \in 0..n : c \in S
      BY <1>1, <1>2, <1>3, UpTo
    <2>2. n \in 0..n
      BY <1>1
    <2> QED BY <2>1, <2>2, Zenon
  <1>5. n + 1 - n = 1
    BY <1>1
  <1> QED BY <1>4, <1>5

LEMMA RewritingRests ==
  ASSUME NEW T, IsSequence(T), NEW ns
  PROVE  \E g : /\ rewrite_ns_calls(T, ns) = g[1]
                /\ \A i \in 1..Len(T) + 1 : g[i] = RestAt(T, ns, i, g)
  <1> DEFINE K(g) == g = [i \in 1..Len(T) + 1 |->
                            IF i > Len(T) THEN <<>>
                            ELSE IF Qualified(T, i, ns)
                            THEN <<[T[i + 2] EXCEPT !.v = ns \o @, !.was = ns \o @]>> \o g[i + 3]
                            ELSE <<T[i]>> \o g[i + 1]]
  <1>1. PICK g : Rests(T, ns, 1, g)
    BY RestsExist
  <1>2. \A f : K(f) <=> Rests(T, ns, 1, f)
    BY Zenon DEF Rests, RestAt
  <1>3. rewrite_ns_calls(T, ns) = (CHOOSE f : K(f))[1]
    BY Zenon DEF rewrite_ns_calls
  <1>4. K(CHOOSE f : K(f))
    BY <1>1, <1>2, Zenon
  <1> HIDE DEF K
  <1>5. PICK f : Rests(T, ns, 1, f) /\ rewrite_ns_calls(T, ns) = f[1]
    BY <1>2, <1>3, <1>4, Zenon
  <1>6. \A i \in 1..Len(T) + 1 : f[i] = RestAt(T, ns, i, f)
    BY <1>5, Zenon DEF Rests
  <1> QED BY <1>5, <1>6, Zenon

\* A file's own text: its identifiers are as they were written.
OwnText(T, path) ==
  IsText(T) /\ \A i \in 1..Len(T) : IsId(T[i]) => T[i].v = T[i].was /\ T[i].from = path

OwnToken(tok, path) == IsToken(tok) /\ (IsId(tok) => tok.v = tok.was /\ tok.from = path)

LEMMA OneOwn ==
  ASSUME NEW tok, NEW path, OwnToken(tok, path)
  PROVE  OwnText(<<tok>>, path) /\ Len(<<tok>>) = 1 /\ <<tok>>[1] = tok
  <1> DEFINE T == <<tok>>
  <1>1. T \in Seq({tok}) /\ Len(T) = 1 /\ T[1] = tok /\ \A i \in 1..Len(T) : i = 1
    OBVIOUS
  <1> HIDE DEF T
  <1>2. IsSequence(T)
    BY <1>1, Zenon DEF IsSequence
  <1>3. OwnText(T, path)
    BY <1>1, <1>2, Zenon DEF OwnText, OwnToken, IsText
  <1> QED BY <1>1, <1>3 DEF T

LEMMA JoinedOwn ==
  ASSUME NEW T, NEW U, NEW path, OwnText(T, path), OwnText(U, path)
  PROVE  OwnText(T \o U, path)
  <1>1. IsText(T) /\ IsText(U)
    BY DEF OwnText
  <1> DEFINE V == T \o U
  <1>2. /\ IsText(V)
        /\ \A i \in 1..Len(T) : V[i] = T[i]
        /\ \A i \in 1..Len(U) : V[Len(T) + i] = U[i]
        /\ \A i \in 1..Len(V) : i \in 1..Len(T) \/ \E j \in 1..Len(U) : i = Len(T) + j
    BY <1>1, JoinedTexts
  <1> HIDE DEF V
  <1>3. ASSUME NEW i \in 1..Len(V), IsId(V[i])
        PROVE  V[i].v = V[i].was /\ V[i].from = path
    <2>1. CASE i \in 1..Len(T)
      BY <1>2, <1>3, <2>1, Zenon DEF OwnText
    <2>2. CASE i \notin 1..Len(T)
      <3>1. PICK j \in 1..Len(U) : i = Len(T) + j
        BY <1>2, <2>2, Zenon
      <3>2. V[i] = U[j]
        BY <1>2, <3>1, Zenon
      <3> QED BY <1>3, <3>2, Zenon DEF OwnText
    <2> QED BY <2>1, <2>2
  <1> QED BY <1>2, <1>3, Zenon DEF OwnText, V

\* The declarations that begin at the i-th token of T or later are in U.
Keeps2(T, i, U) == \A p \in At(T) : p - 1 >= i => \E q \in At(U) : U[q] = T[p]

\* They are when more is put before U.
LEMMA KeepsMore ==
  ASSUME NEW T, NEW i, NEW U, IsText(U), Keeps2(T, i, U), NEW V, IsText(V)
  PROVE  Keeps2(T, i, V \o U)
  <1> DEFINE W == V \o U
  <1>1. /\ IsText(W) /\ Renames(U, W, Len(V))
        /\ \A k \in 1..Len(U) : W[Len(V) + k] = U[k]
    BY JoinedTexts, SMTT(30)
  <1>2. IsSequence(U) /\ IsSequence(V) /\ IsSequence(W) /\ Len(V) \in Nat
    BY <1>1, Length DEF IsText
  <1> HIDE DEF W
  <1>3. ASSUME NEW q \in At(U) PROVE Len(V) + q \in At(W) /\ W[Len(V) + q] = U[q]
    <2>1. Len(V) + q \in At(W) /\ q \in 1..Len(U)
      BY <1>1, <1>2, StaysDeclared
    <2> QED BY <1>1, <2>1, Zenon
  <1>4. Keeps2(T, i, W)
    BY <1>3, Zenon DEF Keeps2
  <1> QED BY <1>4 DEF W

\* alias.f is never part of a declaration.
LEMMA QualifiedApart ==
  ASSUME NEW T, IsSequence(T), NEW ns, NEW i \in 1..Len(T), Qualified(T, i, ns), NEW p \in At(T),
         p - 1 >= i
  PROVE  p - 1 >= i + 3
  <1>1. DOMAIN T = 1..Len(T) /\ Len(T) \in Nat
    BY Length
  <1>2. /\ T[i].t = "id" /\ T[i + 1].t = "." /\ T[i + 2].t = "id"
    BY Zenon DEF Qualified, TokenAt
  <1>3. p \in 1..Len(T) /\ T[p - 1].t = "fn"
    BY DeclaredBetween, Zenon DEF Between
  <1>4. T[p - 1].t # "id" /\ T[p - 1].t # "."
    BY <1>3
  <1>5. p - 1 # i /\ p - 1 # i + 1 /\ p - 1 # i + 2
    BY <1>2, <1>4, Zenon
  <1> QED BY <1>1, <1>3, <1>5

\* A token that is rewritten.
LEMMA RewrittenOwn ==
  ASSUME NEW tok, NEW path, OwnToken(tok, path), IsId(tok), NEW ns
  PROVE  OwnToken([tok EXCEPT !.v = ns \o @, !.was = ns \o @], path)
  <1> DEFINE to == [tok EXCEPT !.v = ns \o @, !.was = ns \o @]
             a  == ns \o tok.v
             b  == ns \o tok.was
  <1>1. IsToken(tok) /\ tok.v = tok.was /\ tok.from = path
    BY DEF OwnToken
  <1>2. {"t", "v", "from", "was"} \subseteq DOMAIN tok
    BY <1>1 DEF IsToken
  <1>3. to = [tok EXCEPT !.v = a, !.was = b]
    OBVIOUS
  <1>4. a = b
    BY <1>1, Zenon
  <1> HIDE DEF to, a, b
  <1>5. DOMAIN to = DOMAIN tok
    BY <1>3
  <1>6. to.v = a /\ to.was = b /\ to.t = tok.t /\ to.from = tok.from
    BY <1>2, <1>3
  <1>7. OwnToken(to, path)
    BY <1>1, <1>2, <1>4, <1>5, <1>6, Zenon DEF OwnToken, IsToken, IsId
  <1> QED BY <1>7 DEF to

\* The text from the i-th token on, when what is after is right.
Rewritten(T, path, i, U) == OwnText(U, path) /\ Keeps2(T, i, U)

LEMMA OneRewritten ==
  ASSUME NEW T, NEW path, OwnText(T, path), NEW ns, NEW g,
         \A i \in 1..Len(T) + 1 : g[i] = RestAt(T, ns, i, g),
         NEW i \in 1..Len(T), \A k \in i + 1..Len(T) + 1 : Rewritten(T, path, k, g[k])
  PROVE  Rewritten(T, path, i, g[i])
  <1>1. IsText(T) /\ IsSequence(T) /\ Len(T) \in Nat /\ DOMAIN T = 1..Len(T)
    BY Length DEF OwnText, IsText
  <1>2. \A k \in 1..Len(T) : OwnToken(T[k], path)
    BY Zenon DEF OwnText, OwnToken, IsText
  <1>3. g[i] = IF Qualified(T, i, ns)
               THEN <<[T[i + 2] EXCEPT !.v = ns \o @, !.was = ns \o @]>> \o g[i + 3]
               ELSE <<T[i]>> \o g[i + 1]
    <2>1. i \in 1..Len(T) + 1 /\ ~(i > Len(T))
      BY <1>1
    <2> QED BY <2>1, Zenon DEF RestAt
  <1>4. \A p \in At(T) : p \in Int
    BY DEF At
  <1>5. CASE Qualified(T, i, ns)
    <2> DEFINE tok == [T[i + 2] EXCEPT !.v = ns \o @, !.was = ns \o @]
    <2>1. i + 2 \in 1..Len(T) /\ IsId(T[i + 2])
      BY <1>1, <1>5, Zenon DEF Qualified, TokenAt, IsId
    <2>2. OwnToken(tok, path)
      BY <1>2, <2>1, RewrittenOwn
    <2> HIDE DEF tok
    <2>3. i + 3 \in i + 1..Len(T) + 1
      BY <1>1, <2>1
    <2>4. OwnText(g[i + 3], path) /\ Keeps2(T, i + 3, g[i + 3])
      BY <2>3, Zenon DEF Rewritten
    <2>5. OwnText(<<tok>>, path)
      BY <2>2, OneOwn
    <2>6. g[i] = <<tok>> \o g[i + 3]
      BY <1>3, <1>5, Zenon DEF tok
    <2>7. OwnText(g[i], path)
      BY <2>4, <2>5, <2>6, JoinedOwn
    <2>8. Keeps2(T, i + 3, g[i])
      BY <2>4, <2>5, <2>6, KeepsMore DEF OwnText
    <2>9. Keeps2(T, i, g[i])
      BY <1>1, <1>5, <2>8, QualifiedApart DEF Keeps2
    <2> QED BY <2>7, <2>9 DEF Rewritten
  <1>6. CASE ~Qualified(T, i, ns)
    <2>1. i + 1 \in i + 1..Len(T) + 1
      BY <1>1
    <2>2. OwnText(g[i + 1], path) /\ Keeps2(T, i + 1, g[i + 1])
      BY <2>1, Zenon DEF Rewritten
    <2>3. OwnText(<<T[i]>>, path)
      BY <1>2, OneOwn
    <2>4. g[i] = <<T[i]>> \o g[i + 1]
      BY <1>3, <1>6, Zenon
    <2>5. OwnText(g[i], path)
      BY <2>2, <2>3, <2>4, JoinedOwn
    <2>6. Keeps2(T, i + 1, g[i])
      BY <2>2, <2>3, <2>4, KeepsMore DEF OwnText
    <2>7. ASSUME NEW p \in At(T), p - 1 = i
          PROVE  \E q \in At(g[i]) : g[i][q] = T[p]
      <3>1. /\ p \in 1..Len(T) /\ p + 1 \in 1..Len(T)
            /\ T[p - 1].t = "fn" /\ IsId(T[p]) /\ T[p + 1].t = "("
        BY <1>1, DeclaredBetween, Zenon DEF Between
      <3>2. p = i + 1 /\ p + 1 = i + 2 /\ p + 2 = i + 3 /\ i + 2 <= Len(T)
        BY <1>1, <1>4, <2>7, <3>1
      <3>3. ~Qualified(T, p, ns)
        <4>1. T[p + 1].t # "."
          BY <3>1
        <4> QED BY <4>1, Zenon DEF Qualified, TokenAt
      <3>4. ~Qualified(T, p + 1, ns)
        <4>1. T[p + 1].t # "id"
          BY <3>1
        <4> QED BY <4>1, Zenon DEF Qualified, TokenAt
      <3>5. /\ p \in 1..Len(T) + 1 /\ ~(p > Len(T))
            /\ p + 1 \in 1..Len(T) + 1 /\ ~(p + 1 > Len(T)) /\ (p + 1) + 1 = i + 3
            /\ i + 3 \in i + 1..Len(T) + 1
        BY <1>1, <3>1, <3>2
      <3>6. g[p] = <<T[p]>> \o g[p + 1]
        BY <3>3, <3>5, Zenon DEF RestAt
      <3>7. g[p + 1] = <<T[p + 1]>> \o g[i + 3]
        BY <3>4, <3>5, Zenon DEF RestAt
      <3>8. OwnText(g[i + 3], path)
        BY <3>5, Zenon DEF Rewritten
      <3> DEFINE a == T[i]
                 b == T[p]
                 c == T[p + 1]
                 V == g[i + 3]
                 W == <<a>> \o (<<b>> \o (<<c>> \o V))
      <3>9. g[i] = W
        BY <2>4, <3>2, <3>6, <3>7, Zenon
      <3>10. IsText(V) /\ OwnToken(a, path) /\ OwnToken(b, path) /\ OwnToken(c, path)
        BY <1>2, <3>1, <3>8, Zenon DEF OwnText
      <3>11. a.t = "fn" /\ IsId(b) /\ c.t = "("
        BY <2>7, <3>1, Zenon
      <3> HIDE DEF a, b, c, V
      <3>12. /\ OwnText(<<a>>, path) /\ OwnText(<<b>>, path) /\ OwnText(<<c>>, path)
             /\ Len(<<a>>) = 1 /\ Len(<<b>>) = 1 /\ Len(<<c>>) = 1
             /\ <<a>>[1] = a /\ <<b>>[1] = b /\ <<c>>[1] = c
        BY <3>10, OneOwn
      <3> DEFINE X == <<c>> \o V
                 Y == <<b>> \o X
      <3>13. IsText(X) /\ Len(X) = 1 + Len(V) /\ X[1] = c
        BY <3>10, <3>12, JoinedTexts DEF OwnText
      <3>14. Len(V) \in Nat
        BY <3>10, Length DEF IsText
      <3> HIDE DEF X
      <3>15. IsText(Y) /\ Len(Y) = 1 + Len(X) /\ Y[1] = b /\ \A k \in 1..Len(X) : Y[1 + k] = X[k]
        BY <3>12, <3>13, JoinedTexts DEF OwnText
      <3> HIDE DEF Y, W
      <3>16. /\ IsText(W) /\ Len(W) = 1 + Len(Y) /\ W[1] = a
             /\ \A k \in 1..Len(Y) : W[1 + k] = Y[k]
        <4>1. W = <<a>> \o Y
          BY DEF W, X, Y
        <4> QED BY <3>12, <3>15, <4>1, JoinedTexts DEF OwnText
      <3>17. Len(W) = 3 + Len(V) /\ 1 \in 1..Len(Y) /\ 2 \in 1..Len(Y) /\ 1 \in 1..Len(X)
        BY <3>13, <3>14, <3>15, <3>16
      <3>18. W[1 + 1] = b /\ W[1 + 2] = c
        <4>1. Y[1 + 1] = c
          BY <3>13, <3>15, <3>17, Zenon
        <4>2. 1 + 1 = 2
          OBVIOUS
        <4> QED BY <3>15, <3>16, <3>17, <4>1, <4>2, Zenon
      <3>19. 1 \in 1..Len(W) /\ 2 \in 1..Len(W) /\ 3 \in 1..Len(W)
             /\ 2 - 1 = 1 /\ 2 + 1 = 3 /\ 1 + 1 = 2 /\ 1 + 2 = 3
        BY <3>14, <3>17
      <3>20. Between(W, 2)
        BY <3>11, <3>16, <3>18, <3>19, Zenon DEF Between
      <3>21. 2 \in At(W)
        BY <3>16, <3>19, <3>20, DeclaredBetween, Zenon DEF IsText
      <3>22. W[2] = T[p]
        BY <3>18, <3>19, Zenon DEF b
      <3> QED BY <3>9, <3>21, <3>22, Zenon
    <2>8. Keeps2(T, i, g[i])
      <3> SUFFICES ASSUME NEW p \in At(T), p - 1 >= i
                   PROVE  \E q \in At(g[i]) : g[i][q] = T[p]
        BY Zenon DEF Keeps2
      <3>1. p - 1 = i \/ p - 1 >= i + 1
        BY <1>4
      <3> QED BY <2>6, <2>7, <3>1, Zenon DEF Keeps2
    <2> QED BY <2>5, <2>8 DEF Rewritten
  <1> QED BY <1>5, <1>6

\* rewrite_ns_calls leaves a file's own text its own, with all it declares.
LEMMA RewritingKeeps ==
  ASSUME NEW T, NEW path, OwnText(T, path), NEW ns
  PROVE  LET U == rewrite_ns_calls(T, ns)
         IN OwnText(U, path) /\ \A p \in At(T) : \E q \in At(U) : U[q] = T[p]
  <1> DEFINE n == Len(T)
  <1>1. IsSequence(T) /\ n \in Nat
    BY Length DEF OwnText, IsText
  <1>2. PICK g : /\ rewrite_ns_calls(T, ns) = g[1]
                 /\ \A i \in 1..n + 1 : g[i] = RestAt(T, ns, i, g)
    BY <1>1, RewritingRests
  <1> HIDE DEF n
  <1> DEFINE Good(k) == Rewritten(T, path, k, g[k])
             S == {c \in Nat : \A b \in 0..c : Good(n + 1 - b)}
  <1>3. 0 \in S
    <2>1. n + 1 \in 1..n + 1 /\ n + 1 > n /\ n + 1 - 0 = n + 1 /\ \A b \in 0..0 : b = 0
      BY <1>1
    <2>2. g[n + 1] = <<>>
      BY <1>2, <2>1, Zenon DEF RestAt, n
    <2>3. IsSequence(<<>>) /\ Len(<<>>) = 0 /\ 1..0 = {}
      <3>1. <<>> \in Seq({0})
        OBVIOUS
      <3> QED BY <3>1 DEF IsSequence
    <2>4. OwnText(<<>>, path)
      BY <2>3, Zenon DEF OwnText, IsText
    <2>5. \A p \in At(T) : ~(p - 1 >= n + 1)
      BY <1>1 DEF At, n
    <2>6. Keeps2(T, n + 1, <<>>)
      BY <2>5, Zenon DEF Keeps2
    <2>7. Good(n + 1)
      BY <2>2, <2>4, <2>6, Zenon DEF Rewritten
    <2> HIDE DEF Good
    <2>8. \A b \in 0..0 : Good(n + 1 - b)
      BY <2>1, <2>7, Zenon
    <2> QED BY <2>8
  <1>4. ASSUME NEW c \in 1..n, c - 1 \in S PROVE c \in S
    <2> DEFINE i == n + 1 - c
    <2>1. i \in 1..n /\ c \in Nat
      BY <1>1
    <2>2. \A k \in i + 1..n + 1 : n + 1 - k \in 0..c - 1 /\ n + 1 - (n + 1 - k) = k
      BY <1>1, <2>1
    <2> HIDE DEF i, Good
    <2>3. \A b \in 0..c - 1 : Good(n + 1 - b)
      BY <1>4
    <2>4. \A k \in i + 1..n + 1 : Good(k)
      BY <2>2, <2>3, Zenon
    <2>5. Good(i)
      BY <1>2, <2>1, <2>4, OneRewritten DEF Good, n
    <2>6. \A b \in 0..c : b \in 0..c - 1 \/ b = c
      BY <2>1
    <2>7. \A b \in 0..c : Good(n + 1 - b)
      BY <2>3, <2>5, <2>6, Zenon DEF i
    <2> QED BY <2>1, <2>7
  <1>5. n \in S
    <2> HIDE DEF S
    <2>1. \A i \in 0..n : i \in S
      BY <1>1, <1>3, <1>4, UpTo
    <2>2. n \in 0..n
      BY <1>1
    <2> QED BY <2>1, <2>2, Zenon
  <1>6. Good(1)
    <2>1. n + 1 - n = 1 /\ n \in 0..n
      BY <1>1
    <2> HIDE DEF Good
    <2>2. \A b \in 0..n : Good(n + 1 - b)
      BY <1>5
    <2>3. Good(n + 1 - n)
      BY <2>1, <2>2, Zenon
    <2> QED BY <2>1, <2>3, Zenon
  <1>7. \A p \in At(T) : p - 1 >= 1
    <2>1. \A p \in At(T) : p \in 1..n /\ p - 1 \in 1..n
      BY <1>1, DeclaredBetween, Zenon DEF Between, n
    <2> QED BY <1>1, <2>1
  <1> QED BY <1>2, <1>6, <1>7, Zenon DEF Rewritten, Keeps2

\* What a call of resolve_imports returns: what its imports brought, then the
\* file's own text with all it declares.
Parts(f, path, B) ==
  /\ Returned(f) = f.result \o B
  /\ OwnText(B, path)
  /\ \A p \in At(f.body) : \E q \in At(B) : B[q] = f.body[p]

LEMMA ReturnedParts ==
  ASSUME NEW f, NEW path, OwnText(f.body, path), IsSequence(f.aliases)
  PROVE  \E B : Parts(f, path, B)
  <1> DEFINE x == <<f.body, f.aliases>>
             n == Len(f.aliases)
  <1>1. n \in Nat
    BY Length
  <1>2. PICK g : Unrolls("calls", x, n, g) /\ Returned(f) = f.result \o g[n]
    BY <1>1, CallsUnroll
  <1>3. x[1] = f.body /\ x[2] = f.aliases
    OBVIOUS
  <1> HIDE DEF x, n
  <1>4. /\ g[0] = StartOf("calls", x)
        /\ \A i \in 1..n : g[i] = StepOf("calls", x, i, g[i - 1])
    BY <1>1, <1>2, UnrollsAt
  <1>5. StartOf("calls", x) = x[1] /\ \A i, b : StepOf("calls", x, i, b) = rewrite_ns_calls(b, x[2][i])
    BY DEF StartOf, StepOf
  <1>6. g[0] = f.body /\ \A i \in 1..n : g[i] = rewrite_ns_calls(g[i - 1], f.aliases[i])
    BY <1>3, <1>4, <1>5, Zenon
  <1> DEFINE Good(B) == OwnText(B, path) /\ \A p \in At(f.body) : \E q \in At(B) : B[q] = f.body[p]
             S == {i \in Nat : Good(g[i])}
  <1>7. Good(f.body)
    BY Zenon
  <1>8. ASSUME NEW B, Good(B), NEW ns PROVE Good(rewrite_ns_calls(B, ns))
    <2> DEFINE U == rewrite_ns_calls(B, ns)
    <2>1. OwnText(U, path) /\ \A p \in At(B) : \E q \in At(U) : U[q] = B[p]
      BY <1>8, RewritingKeeps
    <2> HIDE DEF U
    <2>2. Good(U)
      BY <1>8, <2>1, Zenon
    <2> QED BY <2>2 DEF U
  <1> HIDE DEF Good
  <1>9. 0 \in S
    BY <1>6, <1>7
  <1>10. ASSUME NEW i \in 1..n, i - 1 \in S PROVE i \in S
    <2>1. i \in Nat /\ Good(g[i - 1])
      BY <1>1, <1>10
    <2> QED BY <1>6, <1>8, <2>1
  <1>11. n \in S
    <2> HIDE DEF S
    <2>1. \A i \in 0..n : i \in S
      BY <1>1, <1>9, <1>10, UpTo
    <2>2. n \in 0..n
      BY <1>1
    <2> QED BY <2>1, <2>2, Zenon
  <1>12. Good(g[n])
    BY <1>11
  <1> QED BY <1>2, <1>12, Zenon DEF Good, Parts

-----------------------------------------------------------------------------
(* What a file can name *)

\* A line as the compiler reads it: an import of a file, or tokens of which a
\* declared name is one word.
LineFormed(l) ==
  /\ l.import => MainPath(l.file) /\ IsSequence(l.as)
  /\ ~l.import =>
       /\ IsSequence(l.toks)
       /\ \A i \in 1..Len(l.toks) : "t" \in DOMAIN l.toks[i]
                                    /\ (IsId(l.toks[i]) => "v" \in DOMAIN l.toks[i])
       /\ \A i \in At(l.toks) : IsSequence(l.toks[i].v) /\ Len(l.toks[i].v) = 1

FilesFormed(files) ==
  /\ IsFiniteSet(DOMAIN files)
  /\ \A p \in DOMAIN files :
       IsSequence(files[p]) /\ \A k \in 1..Len(files[p]) : LineFormed(files[p][k])

\* What resolve_imports is given: paths of files, and files of such lines.
FilesInForm ==
  /\ \A m \in MainPaths : MainPath(m)
  /\ \A files \in Disks : FilesFormed(files)

Levels(files) == Cardinality(DOMAIN files)

\* Where a function that a file can name is from: a line of its own, or what a
\* file it imports can name.
OwnName(files, path, n, s) ==
  /\ ~files[path][n].import
  /\ \E p \in At(files[path][n].toks) : s = [name |-> files[path][n].toks[p].v, at |-> path]

BroughtName(files, path, n, s) ==
  /\ files[path][n].import
  /\ \E k \in 0..Levels(files) :
       \E t \in ScopesTo(files)[k][Plain(FullPath(path, files[path][n].file))] :
         s = [t EXCEPT !.name = files[path][n].as \o @]

LEMMA OwnFrom ==
  ASSUME NEW files, FilesFormed(files), NEW path \in DOMAIN files, NEW s \in Own(files, path)
  PROVE  \E n \in 1..Len(files[path]) : OwnName(files, path, n, s)
  <1>1. DOMAIN files[path] = 1..Len(files[path])
    BY Length DEF FilesFormed
  <1>2. PICK n \in DOMAIN files[path] :
          /\ ~files[path][n].import
          /\ s \in LET names == extract_fn_names(files[path][n].toks)
                   IN {[name |-> names[k], at |-> path] : k \in DOMAIN names}
    BY Zenon DEF Own
  <1> DEFINE toks  == files[path][n].toks
             names == extract_fn_names(toks)
  <1>3. IsSequence(toks)
    BY <1>1, <1>2, Zenon DEF FilesFormed, LineFormed
  <1>4. ListedTo(toks, Len(toks), names)
    BY <1>3, NamesListed
  <1>5. PICK k \in DOMAIN names : s = [name |-> names[k], at |-> path]
    BY <1>2, Zenon
  <1> HIDE DEF names
  <1>6. k \in 1..Len(names)
    BY <1>4, <1>5, Length DEF ListedTo
  <1>7. \E p \in At(toks) : names[k] = toks[p].v
    BY <1>4, <1>6, Zenon DEF ListedTo
  <1>8. \E p \in At(toks) : s = [name |-> toks[p].v, at |-> path]
    BY <1>5, <1>7, Zenon
  <1> QED BY <1>1, <1>2, <1>8, Zenon DEF OwnName

LEMMA ScopeFrom ==
  ASSUME NEW files, FilesFormed(files), NEW path \in DOMAIN files, NEW k \in 0..Levels(files),
         NEW s \in ScopesTo(files)[k][path]
  PROVE  \E n \in 1..Len(files[path]) : OwnName(files, path, n, s) \/ BroughtName(files, path, n, s)
  <1> DEFINE g == ScopesTo(files)
  <1>1. Levels(files) \in Nat
    BY FS_CardinalityType DEF FilesFormed, Levels
  <1>2. Unrolls("scopes", files, Levels(files), g)
    BY <1>1, ScopesUnroll DEF Levels
  <1>3. s \in g[k][path]
    OBVIOUS
  <1> HIDE DEF g
  <1>4. /\ g[0] = StartOf("scopes", files)
        /\ \A i \in 1..Levels(files) : g[i] = StepOf("scopes", files, i, g[i - 1])
    BY <1>1, <1>2, UnrollsAt
  <1>5. StartOf("scopes", files)[path] = Own(files, path)
    BY DEF StartOf
  <1> DEFINE More(b) ==
               UNION {{[t EXCEPT !.name = files[path][n].as \o @] :
                        t \in b[Plain(FullPath(path, files[path][n].file))]} :
                       n \in {j \in DOMAIN files[path] : files[path][j].import}}
  <1>6. \A i, b : StepOf("scopes", files, i, b)[path] = Own(files, path) \cup More(b)
    BY DEF StepOf
  <1>7. CASE k = 0
    BY <1>3, <1>4, <1>5, <1>7, OwnFrom, Zenon
  <1>8. CASE k # 0
    <2>1. k \in 1..Levels(files) /\ k - 1 \in 0..Levels(files)
      BY <1>1, <1>8
    <2>2. s \in Own(files, path) \/ s \in More(g[k - 1])
      <3> HIDE DEF More
      <3>1. g[k] = StepOf("scopes", files, k, g[k - 1])
        BY <1>4, <2>1, Zenon
      <3>2. StepOf("scopes", files, k, g[k - 1])[path] = Own(files, path) \cup More(g[k - 1])
        BY <1>6, Zenon
      <3>3. s \in Own(files, path) \cup More(g[k - 1])
        BY <1>3, <3>1, <3>2, Zenon
      <3> QED BY <3>3, Zenon
    <2>3. CASE s \in Own(files, path)
      BY <2>3, OwnFrom, Zenon
    <2>4. CASE s \in More(g[k - 1])
      <3>1. PICK n \in DOMAIN files[path] :
               /\ files[path][n].import
               /\ \E t \in g[k - 1][Plain(FullPath(path, files[path][n].file))] :
                    s = [t EXCEPT !.name = files[path][n].as \o @]
        BY <2>4, Zenon
      <3>2. n \in 1..Len(files[path])
        BY Length DEF FilesFormed
      <3>3. BroughtName(files, path, n, s)
        BY <2>1, <3>1, Zenon DEF BroughtName, g
      <3> QED BY <3>2, <3>3, Zenon
    <2> QED BY <2>2, <2>3, <2>4
  <1> QED BY <1>7, <1>8

\* The text declares all that a line of the file at path declares.
Holds(T, toks, path) ==
  \A i \in At(toks) : \E j \in At(T) : T[j].v = toks[i].v /\ T[j].from = path /\ T[j].was = toks[i].v

\* The imports of the file's first n lines have brought what they name.
Imported(files, T, path, n) ==
  \A k \in 1..n :
    files[path][k].import =>
      Brings(files, T, files[path][k].as, Plain(FullPath(path, files[path][k].file)))

\* The last word of a name, and of one with a prefix.
LEMMA TipOfOne ==
  ASSUME NEW w, IsSequence(w), Len(w) = 1
  PROVE  Tip(w) = w /\ w # <<>>
  <1>1. PICK S : w \in Seq(S)
    BY DEF IsSequence
  <1>2. Len(<<>>) = 0
    OBVIOUS
  <1> QED BY <1>1, <1>2, SubSeqFull DEF Tip

LEMMA TipOfPrefixed ==
  ASSUME NEW ns, IsSequence(ns), NEW w, IsSequence(w), w # <<>>
  PROVE  Tip(ns \o w) = Tip(w) /\ IsSequence(ns \o w) /\ ns \o w # <<>>
  <1>1. PICK S, T : ns \in Seq(S) /\ w \in Seq(T)
    BY DEF IsSequence
  <1>2. ns \in Seq(S \cup T) /\ w \in Seq(S \cup T)
    BY <1>1, SeqMonotonic
  <1>3. Len(ns) \in Nat /\ Len(w) \in Nat /\ Len(w) # 0
    BY Length
  <1>4. Len(ns \o w) = Len(ns) + Len(w) /\ IsSequence(ns \o w)
    BY Joined
  <1> DEFINE m == Len(ns) + Len(w)
  <1>5. m \in Len(ns) + 1..Len(ns) + Len(w) /\ m - Len(ns) = Len(w)
    BY <1>3
  <1> HIDE DEF m
  <1>6. SubSeq(ns \o w, m, m) = SubSeq(w, m - Len(ns), m - Len(ns))
    BY <1>2, <1>5, SubSeqOfConcat2
  <1>7. Tip(ns \o w) = Tip(w)
    BY <1>4, <1>5, <1>6, Zenon DEF Tip, m
  <1>8. ns \o w # <<>>
    <2>1. Len(<<>>) = 0
      OBVIOUS
    <2> QED BY <1>3, <1>4, <2>1
  <1> QED BY <1>4, <1>7, <1>8

\* A file that was read to its end has a text in which every name it can use
\* is declared, and which answers for all names in it: or two functions have
\* one name.
Complete(files, T, path) == Reaches(files, T) /\ Brings(files, T, <<>>, path)

LEMMA CompleteText ==
  ASSUME NEW files, FilesFormed(files), NEW path \in DOMAIN files,
         NEW R, IsText(R), NEW B, OwnText(B, path),
         \A n \in 1..Len(files[path]) :
            ~files[path][n].import => Holds(B, files[path][n].toks, path),
         Reaches(files, R), Imported(files, R, path, Len(files[path]))
  PROVE  Complete(files, R \o B, path)
  <1> DEFINE W == R \o B
             N == Levels(files)
             Known(j, s) == /\ j \in At(W) /\ W[j].v = s.name /\ W[j].from = s.at
                            /\ W[j].was = Tip(s.name) /\ (s.at # path => j \in 1..Len(R))
  <1>1. IsText(B) /\ IsSequence(R) /\ IsSequence(B) /\ IsSequence(W) /\ Len(R) \in Nat
    BY JoinedTexts, Length DEF OwnText, IsText
  <1>2. /\ IsText(W) /\ Renames(B, W, Len(R))
        /\ \A i \in 1..Len(B) : W[Len(R) + i] = B[i]
    BY <1>1, JoinedTexts
  <1>3. N \in Nat /\ N \in 0..N
    BY FS_CardinalityType DEF FilesFormed, Levels
  <1>4. \A n \in 1..Len(files[path]) : LineFormed(files[path][n])
    BY Zenon DEF FilesFormed
  <1>5. ASSUME NEW n \in 1..Len(files[path]), NEW s, OwnName(files, path, n, s)
        PROVE  Scoped(s) /\ \E j : Known(j, s)
    <2> DEFINE toks == files[path][n].toks
    <2>1. PICK p \in At(toks) : s = [name |-> toks[p].v, at |-> path]
      BY <1>5, Zenon DEF OwnName
    <2>2. ~files[path][n].import
      BY <1>5 DEF OwnName
    <2>3. IsSequence(toks[p].v) /\ Len(toks[p].v) = 1
      BY <1>4, <2>2, Zenon DEF LineFormed
    <2>4. PICK j \in At(B) : B[j].v = toks[p].v /\ B[j].from = path /\ B[j].was = toks[p].v
      BY <2>2, Zenon DEF Holds
    <2> DEFINE w == toks[p].v
    <2> HIDE DEF toks
    <2>5. s.name = w /\ s.at = path
      BY <2>1
    <2>6. Scoped(s)
      <3>1. w # <<>>
        BY <2>3, TipOfOne
      <3> QED BY <2>1, <2>3, <2>5, <3>1, Zenon DEF Scoped
    <2>7. Tip(s.name) = w
      BY <2>3, <2>5, TipOfOne
    <2>8. Len(R) + j \in At(W) /\ j \in 1..Len(B)
      BY <1>1, <1>2, StaysDeclared
    <2>9. W[Len(R) + j] = B[j]
      BY <1>2, <2>8, Zenon
    <2>10. Known(Len(R) + j, s)
      <3> HIDE DEF W
      <3> QED BY <2>4, <2>5, <2>7, <2>8, <2>9, Zenon
    <2> QED BY <2>6, <2>10, Zenon
  <1>6. ASSUME NEW n \in 1..Len(files[path]), NEW s, BroughtName(files, path, n, s)
        PROVE  Scoped(s) /\ \E j : Known(j, s)
    <2> DEFINE as == files[path][n].as
               q  == Plain(FullPath(path, files[path][n].file))
    <2>1. PICK k \in 0..N : \E t \in ScopesTo(files)[k][q] : s = [t EXCEPT !.name = as \o @]
      BY <1>6, Zenon DEF BroughtName
    <2>2. PICK t \in ScopesTo(files)[k][q] : s = [t EXCEPT !.name = as \o @]
      BY <2>1, Zenon
    <2>3. Brings(files, R, as, q)
      BY <1>6, Zenon DEF Imported, BroughtName
    <2>4. IsSequence(as)
      BY <1>4, <1>6, Zenon DEF LineFormed, BroughtName
    <2> HIDE DEF as, q
    <2>5. Scoped(t) /\ FoundIn(R, as \o t.name, t)
      BY <2>3, Zenon DEF Brings, Levels
    <2> DEFINE a == as \o t.name
               b == t.at
               c == t.name
    <2>6. t = [name |-> c, at |-> b] /\ IsSequence(c) /\ c # <<>>
      BY <2>5, Zenon DEF Scoped
    <2>7. s = [t EXCEPT !.name = a]
      BY <2>2
    <2>8. IsSequence(a) /\ a # <<>> /\ Tip(a) = Tip(c)
      BY <2>4, <2>6, TipOfPrefixed
    <2>9. FoundIn(R, a, t)
      BY <2>5
    <2> HIDE DEF a, b, c
    <2>10. s = [name |-> a, at |-> b]
      BY <2>6, <2>7
    <2>11. s.name = a /\ s.at = b /\ t.name = c /\ t.at = b
      BY <2>6, <2>10
    <2>12. Scoped(s)
      BY <2>8, <2>10, <2>11, Zenon DEF Scoped
    <2>13. PICK j \in At(W) : /\ j \in 1..Len(R) /\ W[j].v = a /\ W[j].from = t.at
                              /\ W[j].was = Tip(t.name)
      BY <1>1, <2>9, JoinedFound
    <2>14. Known(j, s)
      <3> HIDE DEF W
      <3> QED BY <2>8, <2>11, <2>13, Zenon
    <2> QED BY <2>12, <2>14, Zenon
  <1>7. ASSUME NEW k \in 0..N, NEW s \in ScopesTo(files)[k][path]
        PROVE  Scoped(s) /\ \E j : Known(j, s)
    <2> HIDE DEF Known
    <2>1. \E n \in 1..Len(files[path]) : OwnName(files, path, n, s) \/ BroughtName(files, path, n, s)
      BY ScopeFrom
    <2> QED BY <1>5, <1>6, <2>1, Zenon
  <1> HIDE DEF W
  <1>8. Brings(files, W, <<>>, path)
    <2> SUFFICES ASSUME NEW k \in 0..N, NEW s \in ScopesTo(files)[k][path]
                 PROVE  Scoped(s) /\ FoundIn(W, <<>> \o s.name, s)
      BY Zenon DEF Brings, Levels
    <2>1. Scoped(s)
      BY <1>7, Zenon
    <2>2. PICK j : Known(j, s)
      BY <1>7, Zenon
    <2>3. <<>> \o s.name = s.name
      <3>1. PICK S : s.name \in Seq(S)
        BY <2>1 DEF Scoped, IsSequence
      <3> QED BY <3>1, ConcatEmptySeq
    <2> QED BY <2>1, <2>2, <2>3, Zenon DEF FoundIn
  <1>9. ASSUME NEW i \in 1..Len(B), IsId(B[i])
        PROVE  ReachedAt(files, W, Len(R) + i)
    <2> DEFINE c == Len(R) + i
    <2>1. W[c] = B[i]
      BY <1>2, Zenon DEF W
    <2>2. B[i].v = B[i].was /\ B[i].from = path
      BY <1>9, Zenon DEF OwnText
    <2>3. \A j \in 1..Len(R) : j < c
      BY <1>1
    <2> HIDE DEF c
    <2>4. ASSUME NEW s \in Meant(files, path, B[i].was)
          PROVE  \E j \in At(W) : Answers(W, c, j, s)
      <3>1. s \in ScopesTo(files)[N][path] /\ s.name = B[i].was
        BY Zenon DEF Meant, Scopes, Levels
      <3>2. PICK j : Known(j, s)
        BY <1>3, <1>7, <3>1, Zenon
      <3> QED BY <2>1, <2>2, <2>3, <3>1, <3>2, Zenon DEF Answers
    <2>5. ReachedAt(files, W, c)
      BY <2>1, <2>2, <2>4, Zenon DEF ReachedAt
    <2> QED BY <2>5 DEF c
  <1>10. Reaches(files, W)
    BY <1>1, <1>9, JoinedReaches DEF W
  <1> QED BY <1>8, <1>10, Zenon DEF Complete, W

-----------------------------------------------------------------------------
(* A file's imports do not depend on how its own path is spelled *)

\* Appending to the second of two sequences.
LEMMA JoinedAppend ==
  ASSUME NEW s, IsSequence(s), NEW t, IsSequence(t), NEW e
  PROVE  s \o Append(t, e) = Append(s \o t, e)
  <1>1. PICK S, T : s \in Seq(S) /\ t \in Seq(T)
    BY DEF IsSequence
  <1> DEFINE A == S \cup T \cup {e}
  <1>2. s \in Seq(A) /\ t \in Seq(A) /\ e \in A
    BY <1>1, SeqMonotonic
  <1> HIDE DEF A
  <1>3. <<e>> \in Seq(A) /\ s \o t \in Seq(A)
    BY <1>2, ConcatProperties
  <1>4. Append(t, e) = t \o <<e>> /\ Append(s \o t, e) = (s \o t) \o <<e>>
    BY <1>2, <1>3, AppendIsConcat
  <1>5. (s \o t) \o <<e>> = s \o (t \o <<e>>)
    BY <1>2, <1>3, ConcatAssociative
  <1> QED BY <1>4, <1>5, Zenon

\* What is kept of two paths, one after the other, is kept of each.
LEMMA PlainJoined ==
  ASSUME NEW a, IsSequence(a), NEW b, IsSequence(b)
  PROVE  Plain(a \o b) = Plain(a) \o Plain(b) /\ IsSequence(Plain(a))
  <1> DEFINE c == a \o b
             l == Len(a)
             m == Len(b)
  <1>1. /\ IsSequence(c) /\ Len(c) = l + m
        /\ \A i \in 1..l : c[i] = a[i]
        /\ \A i \in 1..m : c[l + i] = b[i]
    BY Joined
  <1>2. l \in Nat /\ m \in Nat /\ l + m \in Nat
    BY Length
  <1> HIDE DEF c
  <1>3. PICK u : Keeps(a, l, u) /\ Plain(a) = u[l]
    BY <1>2, PlainIsKept
  <1>4. PICK v : Keeps(b, m, v) /\ Plain(b) = v[m]
    BY <1>2, PlainIsKept
  <1>5. PICK g : Keeps(c, l + m, g) /\ Plain(c) = g[l + m]
    BY <1>1, <1>2, PlainIsKept
  <1> HIDE DEF l, m
  <1>6. g[l] = u[l]
    <2>1. l <= l + m /\ l <= l /\ Agree(c, a, l)
      BY <1>1, <1>2 DEF Agree
    <2> QED BY <1>2, <1>3, <1>5, <2>1, KeptAgree
  <1>7. IsSequence(u[l]) /\ \A i \in 0..m : IsSequence(v[i])
    <2>1. l \in 0..l
      BY <1>2
    <2> QED BY <1>2, <1>3, <1>4, <2>1, KeptSeq
  <1> DEFINE Right(i) == g[l + i] = u[l] \o v[i]
             S == {i \in Nat : Right(i)}
  <1>8. 0 \in S
    <2>1. v[0] = <<>> /\ l + 0 = l
      <3>1. 0 \in 0..m
        BY <1>2
      <3>2. v[0] = IF 0 = 0 THEN <<>> ELSE Next1(b, 0, v[0 - 1])
        BY <1>4, <3>1, Zenon DEF Keeps
      <3> QED BY <1>2, <3>2
    <2>2. u[l] \o <<>> = u[l]
      BY <1>7, ConcatEmptySeq DEF IsSequence
    <2> QED BY <1>6, <2>1, <2>2
  <1>9. ASSUME NEW i \in 1..m, i - 1 \in S PROVE i \in S
    <2>1. Right(i - 1) /\ i \in Nat
      <3> HIDE DEF Right
      <3>1. i \in Nat
        BY <1>2
      <3>2. Right(i - 1)
        BY <1>9, Zenon
      <3> QED BY <3>1, <3>2
    <2>2. i \in 0..m /\ i # 0 /\ l + i \in 0..l + m /\ l + i # 0 /\ (l + i) - 1 = l + (i - 1)
          /\ i - 1 \in 0..m
      BY <1>2
    <2>3. v[i] = Next1(b, i, v[i - 1])
      BY <1>4, <2>2, Zenon DEF Keeps
    <2>4. g[l + i] = Next1(c, l + i, g[l + (i - 1)])
      BY <1>5, <2>2, Zenon DEF Keeps
    <2>5. c[l + i] = b[i]
      BY <1>1 DEF m
    <2>6. u[l] \o Append(v[i - 1], b[i]) = Append(u[l] \o v[i - 1], b[i])
      <3>1. IsSequence(u[l]) /\ IsSequence(v[i - 1])
        BY <1>7, <2>2, Zenon
      <3> DEFINE x == u[l]
                 y == v[i - 1]
                 z == b[i]
      <3>2. IsSequence(x) /\ IsSequence(y)
        BY <3>1
      <3> HIDE DEF x, y, z
      <3>3. x \o Append(y, z) = Append(x \o y, z)
        BY <3>2, JoinedAppend
      <3> QED BY <3>3 DEF x, y, z
    <2>7. Right(i)
      BY <2>1, <2>3, <2>4, <2>5, <2>6, Zenon DEF Next1
    <2> QED BY <2>1, <2>7
  <1>10. m \in S
    <2> HIDE DEF S
    <2>1. \A i \in 0..m : i \in S
      BY <1>2, <1>8, <1>9, UpTo
    <2>2. m \in 0..m
      BY <1>2
    <2> QED BY <2>1, <2>2, Zenon
  <1>11. g[l + m] = u[l] \o v[m]
    BY <1>10
  <1>12. Plain(c) = Plain(a) \o Plain(b)
    BY <1>3, <1>4, <1>5, <1>11, Zenon
  <1>13. IsSequence(Plain(a))
    BY <1>3, <1>7, Zenon
  <1> QED BY <1>12, <1>13 DEF c

\* No directory is ".".
Undotted(p) == \A i \in 1..Len(p) : p[i] # "."

\* Of such a path all is kept ...
LEMMA PlainOfUndotted ==
  ASSUME NEW p, IsSequence(p), Undotted(p)
  PROVE  Plain(p) = p
  <1>1. Len(p) \in Nat
    BY Length
  <1>2. PICK g : Keeps(p, Len(p), g) /\ Plain(p) = g[Len(p)]
    BY <1>1, PlainIsKept, Zenon
  <1>3. 0 \in 0..Len(p) /\ 0 + 1 = 1 /\ Len(p) - 0 = Len(p) /\ Len(p) \in 0..Len(p)
    BY <1>1
  <1>4. NoDots(p, 0, Len(p))
    BY <1>3, Zenon DEF NoDots, Undotted
  <1>5. Follows(g[Len(p)], Len(g[0]), p, 0, Len(p) - 0)
    BY <1>1, <1>2, <1>3, <1>4, KeptTail
  <1>6. Len(g[0]) = 0
    <2>1. g[0] = IF 0 = 0 THEN <<>> ELSE Next1(p, 0, g[0 - 1])
      BY <1>2, <1>3, Zenon DEF Keeps
    <2>2. Len(<<>>) = 0
      OBVIOUS
    <2> QED BY <2>1, <2>2
  <1>7. Follows(Plain(p), 0, p, 0, Len(p))
    BY <1>2, <1>3, <1>5, <1>6, Zenon
  <1>8. Len(Plain(p)) = Len(p) /\ \A i \in 1..Len(p) : Plain(p)[i] = p[i]
    <2>1. Len(Plain(p)) = 0 + Len(p) /\ \A i \in 1..Len(p) : Plain(p)[0 + i] = p[0 + i]
      BY <1>7, Zenon DEF Follows
    <2>2. 0 + Len(p) = Len(p) /\ \A i \in 1..Len(p) : 0 + i = i
      BY <1>1
    <2> QED BY <2>1, <2>2, Zenon
  <1>9. IsSequence(Plain(p))
    BY <1>1, <1>2, <1>3, KeptSeq
  <1> QED BY <1>8, <1>9, SameElements

\* ... and what is kept of any is such a path.
LEMMA PlainUndotted ==
  ASSUME NEW p, IsSequence(p)
  PROVE  IsSequence(Plain(p)) /\ Undotted(Plain(p))
  <1> DEFINE n == Len(p)
  <1>1. n \in Nat
    BY Length
  <1>2. PICK g : Keeps(p, n, g) /\ Plain(p) = g[n]
    BY <1>1, PlainIsKept, Zenon
  <1> HIDE DEF n
  <1> DEFINE S == {i \in Nat : Undotted(g[i])}
  <1>3. \A i \in 0..n : IsSequence(g[i]) /\ g[i] = IF i = 0 THEN <<>> ELSE Next1(p, i, g[i - 1])
    <2>1. \A i \in 0..n : g[i] = IF i = 0 THEN <<>> ELSE Next1(p, i, g[i - 1])
      BY <1>2, Zenon DEF Keeps
    <2>2. \A i \in 0..n : IsSequence(g[i])
      BY <1>1, <1>2, KeptSeq
    <2> QED BY <2>1, <2>2, Zenon
  <1>4. 0 \in S
    <2>1. 0 \in 0..n
      BY <1>1
    <2>2. g[0] = <<>>
      BY <1>3, <2>1, Zenon
    <2>3. Len(<<>>) = 0 /\ 1..0 = {}
      OBVIOUS
    <2>4. Undotted(<<>>)
      BY <2>3, Zenon DEF Undotted
    <2> QED BY <2>2, <2>4
  <1>5. ASSUME NEW i \in 1..n, i - 1 \in S PROVE i \in S
    <2>1. i \in Nat /\ i # 0 /\ i \in 0..n /\ i - 1 \in 0..n /\ Undotted(g[i - 1])
      BY <1>1, <1>5
    <2>2. g[i] = Next1(p, i, g[i - 1]) /\ IsSequence(g[i - 1])
      BY <1>3, <2>1, Zenon
    <2>3. CASE p[i] = "."
      <3>1. g[i] = g[i - 1]
        BY <2>2, <2>3, Zenon DEF Next1
      <3> QED BY <2>1, <3>1
    <2>4. CASE p[i] # "."
      <3> DEFINE x == g[i - 1]
                 y == Append(x, p[i])
      <3>1. g[i] = y
        BY <2>2, <2>4, Zenon DEF Next1
      <3>2. /\ IsSequence(x) /\ Undotted(x)
        BY <2>1, <2>2
      <3> HIDE DEF x
      <3>3. /\ Len(y) = Len(x) + 1 /\ \A k \in 1..Len(x) : y[k] = x[k]
            /\ y[Len(x) + 1] = p[i] /\ Len(x) \in Nat
        BY <3>2, OneMore, Length
      <3> HIDE DEF y
      <3>4. \A k \in 1..Len(y) : k \in 1..Len(x) \/ k = Len(x) + 1
        BY <3>3
      <3>5. Undotted(y)
        BY <2>4, <3>2, <3>3, <3>4, Zenon DEF Undotted
      <3> QED BY <2>1, <3>1, <3>5
    <2> QED BY <2>3, <2>4
  <1>6. n \in S
    <2> HIDE DEF S
    <2>1. \A i \in 0..n : i \in S
      BY <1>1, <1>4, <1>5, UpTo
    <2>2. n \in 0..n
      BY <1>1
    <2> QED BY <2>1, <2>2, Zenon
  <1>7. n \in 0..n
    BY <1>1
  <1> QED BY <1>2, <1>3, <1>6, <1>7

\* A path is its directory and its file.
LEMMA FrontAndLast ==
  ASSUME NEW q, MainPath(q)
  PROVE  \E f, e : /\ IsSequence(f) /\ e # "." /\ q = f \o <<e>>
                   /\ \A w : FullPath(q, w) = (IF f = <<>> THEN <<".">> ELSE f) \o w
  <1> DEFINE f == SubSeq(q, 1, Len(q) - 1)
             e == q[Len(q)]
             r == <<e>>
             p == f \o r
  <1>1. IsSequence(q) /\ Len(q) \in Nat /\ Len(q) # 0 /\ e # "."
    BY Length DEF MainPath
  <1>2. Len(q) - 1 \in 0..Len(q) /\ Len(q) \in 1..Len(q)
    BY <1>1
  <1>3. /\ IsSequence(f) /\ Len(f) = Len(q) - 1
        /\ \A i \in 1..Len(q) - 1 : f[i] = q[i]
    BY <1>1, <1>2, OneLess, Zenon
  <1>4. IsSequence(r) /\ Len(r) = 1 /\ r[1] = e
    <2>1. r \in Seq({e}) /\ Len(r) = 1 /\ r[1] = e
      OBVIOUS
    <2> QED BY <2>1, Zenon DEF IsSequence
  <1>5. \A w : FullPath(q, w) = (IF f = <<>> THEN <<".">> ELSE f) \o w
    <2>1. f = <<>> <=> Len(q) = 1
      <3>1. Len(<<>>) = 0
        OBVIOUS
      <3>2. f # <<>> => Len(f) # 0
        BY <1>3, Length, Zenon
      <3> HIDE DEF f
      <3> QED BY <1>1, <1>3, <3>1, <3>2
    <2>2. DirOf(q) = IF f = <<>> THEN <<".">> ELSE f
      BY <2>1, Zenon DEF DirOf, Front
    <2> HIDE DEF f
    <2> QED BY <2>2, Zenon DEF FullPath
  <1> HIDE DEF p
  <1> HIDE DEF f, e, r
  <1>6. /\ IsSequence(p) /\ Len(p) = Len(f) + Len(r)
        /\ \A i \in 1..Len(f) : p[i] = f[i]
        /\ \A i \in 1..Len(r) : p[Len(f) + i] = r[i]
    <2>1. IsSequence(f) /\ IsSequence(r)
      BY <1>3, <1>4, Zenon
    <2> QED BY <2>1, Joined DEF p
  <1>7. Len(p) = Len(q)
    BY <1>1, <1>3, <1>4, <1>6
  <1>8. ASSUME NEW i \in 1..Len(p) PROVE p[i] = q[i]
    <2>1. CASE i = Len(q)
      <3>1. Len(f) + 1 = i /\ 1 \in 1..Len(r)
        BY <1>1, <1>3, <1>4, <2>1
      <3>2. p[Len(f) + 1] = r[1]
        BY <1>6, <3>1, Zenon
      <3> QED BY <1>4, <2>1, <3>1, <3>2, Zenon DEF e
    <2>2. CASE i # Len(q)
      <3>1. i \in 1..Len(f) /\ i \in 1..Len(q) - 1
        BY <1>1, <1>3, <1>7, <2>2
      <3> QED BY <1>3, <1>6, <3>1, Zenon
    <2> QED BY <2>1, <2>2
  <1>9. q = p
    BY <1>1, <1>6, <1>7, <1>8, SameElements
  <1>10. q = f \o <<e>>
    BY <1>9, Zenon DEF p, r
  <1> QED BY <1>1, <1>3, <1>5, <1>10, Zenon

\* Where FullPath leads is found from the directory that is kept.
LEMMA PlainOfFull ==
  ASSUME NEW f, IsSequence(f), NEW w, IsSequence(w)
  PROVE  Plain((IF f = <<>> THEN <<".">> ELSE f) \o w) = Plain(f) \o Plain(w)
  <1>1. CASE f # <<>>
    BY <1>1, PlainJoined
  <1>2. CASE f = <<>>
    <2> DEFINE d == <<".">>
    <2>1. IsSequence(d) /\ Len(d) = 1 /\ d[1] = "."
      <3>1. d \in Seq({"."}) /\ Len(d) = 1 /\ d[1] = "."
        OBVIOUS
      <3> QED BY <3>1, Zenon DEF IsSequence
    <2> HIDE DEF d
    <2>2. Plain(d) = <<>>
      <3>1. PICK g : Keeps(d, 1, g) /\ Plain(d) = g[1]
        <4>1. Len(d) \in Nat
          BY <2>1, Length, Zenon
        <4>2. \E g : Keeps(d, Len(d), g) /\ Plain(d) = g[Len(d)]
          BY <4>1, PlainIsKept, Zenon
        <4> QED BY <2>1, <4>2, Zenon
      <3>2. 0 \in 0..1 /\ 1 \in 0..1 /\ 1 - 1 = 0 /\ 1 # 0
        OBVIOUS
      <3>3. g[0] = <<>> /\ g[1] = Next1(d, 1, g[0])
        BY <3>1, <3>2, Zenon DEF Keeps
      <3> QED BY <2>1, <3>1, <3>3, Zenon DEF Next1
    <2>3. Plain(f) = <<>>
      <3>1. Undotted(f)
        BY <1>2 DEF Undotted
      <3> QED BY <1>2, <3>1, PlainOfUndotted, Zenon
    <2>4. Plain(d \o w) = Plain(d) \o Plain(w)
      BY <2>1, PlainJoined
    <2> QED BY <1>2, <2>2, <2>3, <2>4, Zenon DEF d
  <1> QED BY <1>1, <1>2

LEMMA ImportOfPlain ==
  ASSUME NEW p, MainPath(p), NEW w, MainPath(w)
  PROVE  Plain(FullPath(Plain(p), w)) = Plain(FullPath(p, w)) /\ MainPath(FullPath(p, w))
  <1>1. PICK f, e : /\ IsSequence(f) /\ e # "." /\ p = f \o <<e>>
                    /\ \A x : FullPath(p, x) = (IF f = <<>> THEN <<".">> ELSE f) \o x
    BY FrontAndLast
  <1> DEFINE r == <<e>>
             q == Plain(p)
             h == Plain(f)
  <1>2. IsSequence(r) /\ Len(r) = 1 /\ r[1] = e
    <2>1. r \in Seq({e}) /\ Len(r) = 1 /\ r[1] = e
      OBVIOUS
    <2> QED BY <2>1, Zenon DEF IsSequence
  <1>3. p = f \o r
    BY <1>1
  <1> HIDE DEF r
  <1>4. Plain(r) = r
    <2>1. \A i \in 1..Len(r) : i = 1
      BY <1>2
    <2>2. Undotted(r)
      BY <1>1, <1>2, <2>1, Zenon DEF Undotted
    <2> QED BY <1>2, <2>2, PlainOfUndotted
  <1>5. q = h \o r /\ IsSequence(h)
    BY <1>1, <1>2, <1>3, <1>4, PlainJoined
  <1>6. Plain(h) = h
    BY <1>1, PlainUndotted, PlainOfUndotted
  <1>7. IsSequence(w) /\ Len(w) \in Nat /\ Len(w) # 0 /\ w[Len(w)] # "."
    BY Length DEF MainPath
  <1> HIDE DEF q, h
  <1>8. \A s : IsSequence(s) =>
          LET t == s \o r
          IN /\ IsSequence(t) /\ Len(t) = Len(s) + 1 /\ Len(s) \in Nat
             /\ t[Len(t)] = e /\ SubSeq(t, 1, Len(t) - 1) = s
    <2> SUFFICES ASSUME NEW s, IsSequence(s)
                 PROVE  LET t == s \o r
                        IN /\ IsSequence(t) /\ Len(t) = Len(s) + 1 /\ Len(s) \in Nat
                           /\ t[Len(t)] = e /\ SubSeq(t, 1, Len(t) - 1) = s
      OBVIOUS
    <2> DEFINE t == s \o r
    <2>1. /\ IsSequence(t) /\ Len(t) = Len(s) + 1
          /\ \A i \in 1..Len(s) : t[i] = s[i]
          /\ \A i \in 1..1 : t[Len(s) + i] = r[i]
      <3> HIDE DEF t
      <3>1. /\ IsSequence(t) /\ Len(t) = Len(s) + Len(r)
            /\ \A i \in 1..Len(s) : t[i] = s[i]
            /\ \A i \in 1..Len(r) : t[Len(s) + i] = r[i]
        <4>1. IsSequence(r)
          BY <1>2
        <4> QED BY <4>1, Joined DEF t
      <3> QED BY <1>2, <3>1, Zenon
    <2>2. Len(s) \in Nat
      BY Length
    <2> HIDE DEF t
    <2>3. t[Len(t)] = e
      <3>1. 1 \in 1..1
        OBVIOUS
      <3> QED BY <1>2, <2>1, <3>1, Zenon
    <2>4. SubSeq(t, 1, Len(t) - 1) = s
      <3>1. Len(t) - 1 = Len(s) /\ Len(s) \in 0..Len(t)
        BY <2>1, <2>2
      <3> DEFINE u == SubSeq(t, 1, Len(s))
      <3>2. IsSequence(u) /\ Len(u) = Len(s) /\ \A i \in 1..Len(s) : u[i] = t[i]
        BY <2>1, <3>1, OneLess
      <3> HIDE DEF u
      <3>3. u = s
        BY <2>1, <3>2, SameElements
      <3> QED BY <3>1, <3>3, Zenon DEF u
    <2> QED BY <2>1, <2>2, <2>3, <2>4 DEF t
  <1>9. MainPath(q)
    <2>1. IsSequence(q) /\ Len(q) = Len(h) + 1 /\ Len(h) \in Nat /\ q[Len(q)] = e
      BY <1>5, <1>8, Zenon
    <2>2. Len(<<>>) = 0
      OBVIOUS
    <2>3. q # <<>>
      BY <2>1, <2>2
    <2> QED BY <1>1, <2>1, <2>3, Zenon DEF MainPath
  <1>10. FullPath(q, w) = (IF h = <<>> THEN <<".">> ELSE h) \o w
    <2>1. SubSeq(q, 1, Len(q) - 1) = h /\ Len(q) = Len(h) + 1 /\ Len(h) \in Nat
      BY <1>5, <1>8, Zenon
    <2>2. h = <<>> => Len(h) = 0
      OBVIOUS
    <2>3. h # <<>> => Len(h) # 0
      BY <1>5, Length, Zenon
    <2>4. h = <<>> <=> Len(q) = 1
      BY <2>1, <2>2, <2>3
    <2>5. DirOf(q) = IF h = <<>> THEN <<".">> ELSE h
      BY <2>1, <2>4, Zenon DEF DirOf, Front
    <2> QED BY <2>5, Zenon DEF FullPath
  <1>11. Plain(FullPath(q, w)) = Plain(h) \o Plain(w)
    BY <1>5, <1>7, <1>10, PlainOfFull
  <1>12. Plain(FullPath(p, w)) = Plain(f) \o Plain(w)
    BY <1>1, <1>7, PlainOfFull
  <1>13. Plain(FullPath(q, w)) = Plain(FullPath(p, w))
    BY <1>6, <1>11, <1>12, Zenon DEF h
  <1>14. MainPath(FullPath(p, w))
    <2> DEFINE d == IF f = <<>> THEN <<".">> ELSE f
               t == d \o w
    <2>1. IsSequence(d)
      <3>1. <<".">> \in Seq({"."})
        OBVIOUS
      <3>2. IsSequence(<<".">>)
        BY <3>1, Zenon DEF IsSequence
      <3> QED BY <1>1, <3>2, Zenon
    <2> HIDE DEF d
    <2>2. /\ IsSequence(t) /\ Len(t) = Len(d) + Len(w) /\ Len(d) \in Nat
          /\ \A i \in 1..Len(w) : t[Len(d) + i] = w[i]
      BY <1>7, <2>1, Joined, Length
    <2> HIDE DEF t
    <2>3. Len(w) \in 1..Len(w) /\ Len(t) # 0 /\ Len(<<>>) = 0
      BY <1>7, <2>2
    <2>4. t[Len(t)] = w[Len(w)]
      BY <2>2, <2>3, Zenon
    <2>5. t # <<>>
      BY <2>3
    <2>6. MainPath(t)
      BY <1>7, <2>2, <2>4, <2>5, Zenon DEF MainPath
    <2> QED BY <1>1, <2>6, Zenon DEF t, d
  <1> QED BY <1>13, <1>14 DEF q

-----------------------------------------------------------------------------
(* What is known of an open file *)

\* r is the rest of the lines.
RestOf(lines, r) ==
  /\ IsSequence(r) /\ Len(r) <= Len(lines)
  /\ \A k \in 1..Len(r) : r[k] = lines[(Len(lines) - Len(r)) + k]

\* How many lines of the file were read.
Begun(files, f) == Len(files[Plain(f.path)]) - Len(f.rest)

\* The body has what the first n lines declare.
Collects(files, T, path, n) ==
  \A k \in 1..n : ~files[path][k].import => Holds(T, files[path][k].toks, path)

\* The file was read that far, and its body is of those lines.
Reads(files, f) ==
  /\ MainPath(f.path) /\ Plain(f.path) \in DOMAIN files
  /\ RestOf(files[Plain(f.path)], f.rest)
  /\ OwnText(f.body, Plain(f.path))
  /\ Collects(files, f.body, Plain(f.path), Begun(files, f))
  /\ IsSequence(f.aliases) /\ IsText(f.result)

\* What the imports of its first n lines have brought.
Resolves(files, f, n) ==
  Twice(f.result) \/ (Reaches(files, f.result) /\ Imported(files, f.result, Plain(f.path), n))

\* The file g was opened for the line of f that was read last.
Opens(files, f, g) ==
  LET line == files[Plain(f.path)][Begun(files, f)]
  IN /\ Begun(files, f) >= 1 /\ line.import
     /\ g.path = FullPath(f.path, line.file) /\ g.as = line.as
     /\ Resolves(files, f, Begun(files, f) - 1)

\* So it is with all that are open.
AllSound(files, fs) ==
  /\ \A i \in 1..Len(fs) : Reads(files, fs[i])
  /\ fs # <<>> => Resolves(files, fs[Len(fs)], Begun(files, fs[Len(fs)]))
  /\ \A i \in 1..Len(fs) - 1 : Opens(files, fs[i], fs[i + 1])

\* The line that is read next.
LEMMA NextOfRest ==
  ASSUME NEW lines, IsSequence(lines), NEW r, RestOf(lines, r), r # <<>>
  PROVE  LET n == Len(lines) - Len(r)
         IN /\ n \in Nat /\ n + 1 \in 1..Len(lines) /\ r[1] = lines[n + 1]
            /\ RestOf(lines, Tail(r)) /\ Len(lines) - Len(Tail(r)) = n + 1
  <1> DEFINE n == Len(lines) - Len(r)
             t == Tail(r)
  <1>1. IsSequence(r) /\ Len(r) <= Len(lines) /\ \A k \in 1..Len(r) : r[k] = lines[n + k]
    BY DEF RestOf
  <1>2. Len(lines) \in Nat /\ Len(r) \in Nat /\ Len(r) # 0
    BY <1>1, Length
  <1>3. PICK S : r \in Seq(S)
    BY <1>1 DEF IsSequence
  <1>4. /\ t \in Seq(S) /\ Len(t) = Len(r) - 1
        /\ \A i \in 1..Len(t) : t[i] = r[i + 1]
    BY <1>3, HeadTailProperties
  <1> HIDE DEF t
  <1>5. n \in Nat /\ n + 1 \in 1..Len(lines) /\ 1 \in 1..Len(r) /\ Len(t) <= Len(lines)
        /\ Len(lines) - Len(t) = n + 1
    BY <1>1, <1>2, <1>4
  <1> HIDE DEF n
  <1>6. ASSUME NEW k \in 1..Len(t) PROVE t[k] = lines[(n + 1) + k]
    <2>1. k + 1 \in 1..Len(r) /\ n + (k + 1) = (n + 1) + k
      BY <1>2, <1>4, <1>5
    <2>2. t[k] = r[k + 1]
      BY <1>4, Zenon
    <2> QED BY <1>1, <2>1, <2>2, Zenon
  <1>7. RestOf(lines, t)
    <2>1. IsSequence(t)
      BY <1>4, Zenon DEF IsSequence
    <2> QED BY <1>5, <1>6, <2>1, Zenon DEF RestOf
  <1> QED BY <1>1, <1>5, <1>7, Zenon DEF n, t

\* What is copied of a line is its own text, with all it declares.
LEMMA StampOwn ==
  ASSUME NEW toks, IsSequence(toks), NEW path,
         \A i \in 1..Len(toks) : "t" \in DOMAIN toks[i] /\ (IsId(toks[i]) => "v" \in DOMAIN toks[i])
  PROVE  /\ OwnText(Stamp(toks, path), Plain(path))
         /\ Holds(Stamp(toks, path), toks, Plain(path))
  <1> DEFINE P == Plain(path)
             n == Len(toks)
             s == Stamp(toks, path)
             Of(tok) == [t |-> "id", v |-> tok.v, from |-> P, was |-> tok.v]
  <1>1. n \in Nat /\ DOMAIN toks = 1..n
    BY Length
  <1>2. s = [i \in 1..n |-> IF IsId(toks[i]) THEN Of(toks[i]) ELSE toks[i]]
    BY <1>1, Zenon DEF Stamp, IsId
  <1>3. \A tok : LET o == Of(tok)
                 IN /\ DOMAIN o = {"t", "v", "from", "was"} /\ IsId(o)
                    /\ o.v = tok.v /\ o.was = tok.v /\ o.from = P
    BY DEF IsId
  <1> HIDE DEF Of, P, n, s
  <1>4. \A i \in 1..n : s[i] = IF IsId(toks[i]) THEN Of(toks[i]) ELSE toks[i]
    BY <1>2, Zenon
  <1>5. IsSequence(s) /\ Len(s) = n
    <2>1. s = [i \in 1..n |-> s[i]]
      BY <1>2, Zenon
    <2> QED BY <1>1, <2>1, AsSequence
  <1>6. ASSUME NEW i \in 1..n
        PROVE  OwnToken(s[i], P) /\ s[i].t = toks[i].t /\ (IsId(toks[i]) => s[i].v = toks[i].v)
    <2>1. "t" \in DOMAIN toks[i]
      BY Zenon DEF n
    <2>2. CASE IsId(toks[i])
      <3>1. s[i] = Of(toks[i])
        BY <1>4, <2>2, Zenon
      <3>2. /\ DOMAIN s[i] = {"t", "v", "from", "was"} /\ IsId(s[i])
            /\ s[i].v = toks[i].v /\ s[i].was = toks[i].v /\ s[i].from = P
        BY <1>3, <3>1, Zenon
      <3>3. "t" \in DOMAIN s[i] /\ {"v", "from", "was"} \subseteq DOMAIN s[i]
        BY <3>2
      <3> QED BY <2>2, <3>2, <3>3, Zenon DEF OwnToken, IsToken, IsId
    <2>3. CASE ~IsId(toks[i])
      <3>1. s[i] = toks[i]
        BY <1>4, <2>3, Zenon
      <3> QED BY <2>1, <2>3, <3>1, Zenon DEF OwnToken, IsToken
    <2> QED BY <2>2, <2>3
  <1>7. OwnText(s, P)
    BY <1>5, <1>6, Zenon DEF OwnText, OwnToken, IsText
  <1>8. ASSUME NEW i \in At(toks)
        PROVE  i \in At(s) /\ s[i].v = toks[i].v /\ s[i].from = P /\ s[i].was = toks[i].v
    <2>1. i \in 1..n /\ Between(toks, i)
      BY DeclaredBetween, Zenon DEF n
    <2>2. /\ i - 1 \in 1..n /\ i + 1 \in 1..n
          /\ toks[i - 1].t = "fn" /\ IsId(toks[i]) /\ toks[i + 1].t = "("
      BY <2>1, Zenon DEF Between, n
    <2>3. s[i - 1].t = "fn" /\ s[i + 1].t = "(" /\ IsId(s[i])
      BY <1>6, <2>1, <2>2, Zenon DEF IsId
    <2>4. Between(s, i)
      BY <1>5, <2>1, <2>2, <2>3, Zenon DEF Between
    <2>5. i \in At(s)
      BY <1>5, <2>1, <2>4, DeclaredBetween, Zenon
    <2> QED BY <1>6, <2>1, <2>2, <2>3, <2>5, Zenon DEF OwnToken
  <1>9. Holds(s, toks, P)
    BY <1>8, Zenon DEF Holds
  <1> QED BY <1>7, <1>9, Zenon DEF s, P

\* What a part of the text holds, the text holds.
LEMMA JoinedHolds ==
  ASSUME NEW T, IsText(T), NEW U, IsText(U), NEW toks, NEW path,
         Holds(T, toks, path) \/ Holds(U, toks, path)
  PROVE  Holds(T \o U, toks, path)
  <1>0. IsSequence(T) /\ IsSequence(U) /\ IsSequence(T \o U) /\ Len(T) \in Nat
    BY JoinedTexts, Length, Zenon DEF IsText
  <1>1. ASSUME NEW j \in At(T)
        PROVE  j \in At(T \o U) /\ (T \o U)[j] = T[j]
    <2>1. 0 + j \in At(T \o U) /\ j \in 1..Len(T)
      BY <1>0, JoinedTexts, StaysDeclared
    <2>2. 0 + j = j
      BY <2>1
    <2> QED BY <2>1, <2>2, JoinedTexts, Zenon
  <1>2. ASSUME NEW j \in At(U)
        PROVE  Len(T) + j \in At(T \o U) /\ (T \o U)[Len(T) + j] = U[j]
    <2>1. Len(T) + j \in At(T \o U) /\ j \in 1..Len(U)
      BY <1>0, JoinedTexts, StaysDeclared
    <2>2. SecondAt(T, U, T \o U)
      BY SecondPart
    <2> QED BY <2>1, <2>2, Zenon DEF SecondAt
  <1> DEFINE Is(tok, i) == tok.v = toks[i].v /\ tok.from = path /\ tok.was = toks[i].v
             V == T \o U
  <1>3. \A X : Holds(X, toks, path) <=> \A i \in At(toks) : \E j \in At(X) : Is(X[j], i)
    BY Zenon DEF Holds
  <1> HIDE DEF Is, V
  <1>4. /\ \A j \in At(T) : j \in At(V) /\ V[j] = T[j]
        /\ \A j \in At(U) : Len(T) + j \in At(V) /\ V[Len(T) + j] = U[j]
    BY <1>1, <1>2, Zenon DEF V
  <1>5. ASSUME NEW i \in At(toks) PROVE \E j \in At(V) : Is(V[j], i)
    <2>1. CASE \E j \in At(T) : Is(T[j], i)
      BY <1>4, <2>1, Zenon
    <2>2. CASE \E j \in At(U) : Is(U[j], i)
      BY <1>4, <2>2, Zenon
    <2> QED BY <1>3, <2>1, <2>2, Zenon
  <1> QED BY <1>3, <1>5, Zenon DEF V

\* A line was read: h is f after it.
AfterLine(f, h) ==
  /\ h.path = f.path /\ h.rest = Tail(f.rest) /\ h.aliases = f.aliases /\ h.result = f.result
  /\ h.body = IF f.rest[1].import THEN f.body ELSE f.body \o Stamp(f.rest[1].toks, f.path)

LEMMA LineIsRead ==
  ASSUME NEW files, FilesFormed(files), NEW f, Reads(files, f), f.rest # <<>>,
         NEW h, AfterLine(f, h)
  PROVE  LET n == Begun(files, f)
             l == files[Plain(f.path)][n + 1]
         IN /\ n \in Nat /\ f.rest[1] = l /\ LineFormed(l)
            /\ Reads(files, h) /\ Begun(files, h) = n + 1
            /\ Resolves(files, f, n) => /\ Resolves(files, h, n)
                                        /\ ~l.import => Resolves(files, h, n + 1)
  <1> DEFINE P     == Plain(f.path)
             lines == files[P]
             n     == Begun(files, f)
             l     == lines[n + 1]
             T     == f.body
             S     == Stamp(l.toks, f.path)
  <1>1. /\ MainPath(f.path) /\ P \in DOMAIN files /\ RestOf(lines, f.rest)
        /\ OwnText(T, P) /\ Collects(files, T, P, n)
        /\ IsSequence(f.aliases) /\ IsText(f.result)
    BY Zenon DEF Reads
  <1>2. IsSequence(lines) /\ \A k \in 1..Len(lines) : LineFormed(lines[k])
    BY <1>1, Zenon DEF FilesFormed
  <1>3. n = Len(lines) - Len(f.rest)
    BY DEF Begun
  <1>4. Begun(files, h) = Len(lines) - Len(Tail(f.rest))
    BY Zenon DEF Begun, AfterLine
  <1> HIDE DEF lines, n
  <1>5. /\ n \in Nat /\ n + 1 \in 1..Len(lines) /\ f.rest[1] = l
        /\ RestOf(lines, Tail(f.rest)) /\ Begun(files, h) = n + 1
    BY <1>1, <1>2, <1>3, <1>4, NextOfRest
  <1>6. LineFormed(l)
    BY <1>2, <1>5, Zenon
  <1>7. \A k \in 1..n + 1 : k \in 1..n \/ k = n + 1
    BY <1>5
  <1>8. OwnText(h.body, P) /\ Collects(files, h.body, P, n + 1)
    <2>1. CASE l.import
      <3>1. h.body = T
        BY <1>5, <2>1, Zenon DEF AfterLine
      <3>2. Collects(files, T, P, n + 1)
        BY <1>1, <1>7, <2>1, Zenon DEF Collects, lines
      <3> QED BY <1>1, <3>1, <3>2, Zenon
    <2>2. CASE ~l.import
      <3>1. h.body = T \o S
        BY <1>5, <2>2, Zenon DEF AfterLine
      <3>2. OwnText(S, P) /\ Holds(S, l.toks, P)
        <4>1. /\ IsSequence(l.toks)
              /\ \A i \in 1..Len(l.toks) : "t" \in DOMAIN l.toks[i]
                                           /\ (IsId(l.toks[i]) => "v" \in DOMAIN l.toks[i])
          BY <1>6, <2>2, Zenon DEF LineFormed
        <4> DEFINE toks == l.toks
        <4> HIDE DEF l, toks
        <4>2. OwnText(Stamp(toks, f.path), Plain(f.path)) /\ Holds(Stamp(toks, f.path), toks, Plain(f.path))
          BY <4>1, StampOwn DEF toks
        <4> QED BY <4>2, Zenon DEF toks
      <3> HIDE DEF S, T, l
      <3>3. OwnText(T \o S, P)
        BY <1>1, <3>2, JoinedOwn
      <3>4. IsText(T) /\ IsText(S)
        BY <1>1, <3>2, Zenon DEF OwnText
      <3>5. ASSUME NEW k \in 1..n, ~files[P][k].import PROVE Holds(T \o S, files[P][k].toks, P)
        <4>1. Holds(T, files[P][k].toks, P)
          BY <1>1, <3>5, Zenon DEF Collects
        <4> QED BY <3>4, <4>1, JoinedHolds
      <3>6. Holds(T \o S, files[P][n + 1].toks, P)
        <4>1. Holds(T \o S, l.toks, P)
          BY <3>2, <3>4, JoinedHolds
        <4> QED BY <4>1, Zenon DEF l, lines
      <3>7. Collects(files, T \o S, P, n + 1)
        BY <1>7, <3>5, <3>6, Zenon DEF Collects
      <3> QED BY <3>1, <3>3, <3>7, Zenon
    <2> QED BY <2>1, <2>2
  <1>9. Reads(files, h)
    <2>1. h.path = f.path /\ h.rest = Tail(f.rest) /\ h.aliases = f.aliases /\ h.result = f.result
      BY Zenon DEF AfterLine
    <2>2. Plain(h.path) = P /\ MainPath(h.path) /\ RestOf(files[P], h.rest)
      BY <1>1, <1>5, <2>1, Zenon DEF lines
    <2> QED BY <1>1, <1>5, <1>8, <2>1, <2>2, Zenon DEF Reads
  <1>10. Resolves(files, f, n) => Resolves(files, h, n)
    BY Zenon DEF Resolves, AfterLine
  <1>11. ASSUME Resolves(files, h, n), ~l.import PROVE Resolves(files, h, n + 1)
    <2>1. Plain(h.path) = P
      BY Zenon DEF AfterLine
    <2>2. CASE Twice(h.result)
      BY <2>2, Zenon DEF Resolves
    <2>3. CASE ~Twice(h.result)
      <3>1. Reaches(files, h.result) /\ Imported(files, h.result, P, n)
        BY <1>11, <2>1, <2>3, Zenon DEF Resolves
      <3>2. Imported(files, h.result, P, n + 1)
        BY <1>7, <1>11, <3>1, Zenon DEF Imported, lines
      <3> QED BY <2>1, <3>1, <3>2, Zenon DEF Resolves
    <2> QED BY <2>2, <2>3
  <1> QED BY <1>5, <1>6, <1>9, <1>10, <1>11, Zenon DEF n, lines

\* What a file that was read to its end returns.
LEMMA FinishedText ==
  ASSUME NEW files, FilesFormed(files), NEW f, Reads(files, f), f.rest = <<>>,
         Resolves(files, f, Begun(files, f))
  PROVE  /\ IsText(Returned(f))
         /\ Twice(Returned(f)) \/ Complete(files, Returned(f), Plain(f.path))
  <1> DEFINE P == Plain(f.path)
             R == f.result
             n == Begun(files, f)
  <1>1. /\ P \in DOMAIN files /\ OwnText(f.body, P) /\ Collects(files, f.body, P, n)
        /\ IsSequence(f.aliases) /\ IsText(R)
    BY Zenon DEF Reads
  <1>2. n = Len(files[P])
    <2>1. IsSequence(files[P]) /\ Len(<<>>) = 0
      BY <1>1 DEF FilesFormed
    <2>2. Len(files[P]) \in Nat
      BY <2>1, Length, Zenon
    <2>3. n = Len(files[P]) - 0
      BY <2>1, Zenon DEF Begun
    <2> HIDE DEF n, P
    <2> QED BY <2>2, <2>3
  <1>3. PICK B : /\ Returned(f) = R \o B /\ OwnText(B, P)
                 /\ \A p \in At(f.body) : \E q \in At(B) : B[q] = f.body[p]
    <2>1. OwnText(f.body, P) /\ IsSequence(f.aliases)
      BY <1>1
    <2> HIDE DEF P
    <2>2. \E B : Parts(f, P, B)
      BY <2>1, ReturnedParts
    <2> QED BY <2>2, Zenon DEF Parts, R
  <1> HIDE DEF n, P, R
  <1>4. \A k \in 1..Len(files[P]) : ~files[P][k].import => Holds(B, files[P][k].toks, P)
    <2>1. \A toks : Holds(f.body, toks, P) => Holds(B, toks, P)
      <3> SUFFICES ASSUME NEW toks, Holds(f.body, toks, P), NEW i \in At(toks)
                   PROVE  \E j \in At(B) : /\ B[j].v = toks[i].v /\ B[j].from = P
                                           /\ B[j].was = toks[i].v
        BY Zenon DEF Holds
      <3>1. PICK p \in At(f.body) : /\ f.body[p].v = toks[i].v /\ f.body[p].from = P
                                    /\ f.body[p].was = toks[i].v
        BY Zenon DEF Holds
      <3>2. PICK q \in At(B) : B[q] = f.body[p]
        BY <1>3, Zenon
      <3> QED BY <3>1, <3>2, Zenon
    <2> QED BY <1>1, <1>2, <2>1, Zenon DEF Collects
  <1>5. IsText(B)
    BY <1>3, Zenon DEF OwnText
  <1>6. IsText(R \o B) /\ Renames(R, R \o B, 0)
    BY <1>1, <1>5, JoinedTexts
  <1>7. CASE Twice(R)
    <2>1. IsSequence(R) /\ IsSequence(R \o B) /\ 0 \in Nat
      BY <1>1, <1>6 DEF IsText
    <2>2. Twice(R \o B)
      BY <1>6, <1>7, <2>1, StaysTwice
    <2> QED BY <1>3, <1>6, <2>2, Zenon
  <1>8. CASE ~Twice(R)
    <2>1. Reaches(files, R) /\ Imported(files, R, P, Len(files[P]))
      BY <1>2, <1>8, Zenon DEF Resolves, P, R, n
    <2>2. Complete(files, R \o B, P)
      BY <1>1, <1>3, <1>4, <2>1, CompleteText
    <2> QED BY <1>3, <1>6, <2>2, Zenon DEF P
  <1> QED BY <1>7, <1>8

\* What its importer takes of it.
TextOf(f) == IF f.as = NoAlias THEN Returned(f) ELSE Namespaced(Returned(f), f.as)

LEMMA TakenText ==
  ASSUME NEW files, FilesFormed(files), NEW f, Reads(files, f), f.rest = <<>>,
         Resolves(files, f, Begun(files, f))
  PROVE  /\ IsText(TextOf(f))
         /\ \/ Twice(TextOf(f))
            \/ (Reaches(files, TextOf(f)) /\ Brings(files, TextOf(f), f.as, Plain(f.path)))
  <1> DEFINE T == Returned(f)
             P == Plain(f.path)
             U == Namespaced(T, f.as)
  <1>1. IsText(T) /\ (Twice(T) \/ Complete(files, T, P))
    BY FinishedText, Zenon
  <1>2. Complete(files, T, P) => Reaches(files, T) /\ Brings(files, T, <<>>, P)
    BY Zenon DEF Complete
  <1> HIDE DEF T, P, U
  <1>3. CASE f.as = NoAlias
    <2>1. TextOf(f) = T
      BY <1>3, Zenon DEF TextOf, T
    <2>2. f.as = <<>>
      BY <1>3, Zenon DEF NoAlias
    <2> QED BY <1>1, <1>2, <2>1, <2>2, Zenon DEF P
  <1>4. CASE f.as # NoAlias
    <2>1. TextOf(f) = U
      BY <1>4, Zenon DEF TextOf, T, U
    <2>2. /\ IsText(U) /\ Len(U) = Len(T) /\ Renames(T, U, 0)
          /\ Twice(U) \/ \A p \in At(T) : U[p].v = f.as \o T[p].v
      BY <1>1, NamespacedRenames DEF U
    <2>3. IsSequence(T) /\ IsSequence(U) /\ 0 \in Nat
      BY <1>1, <2>2 DEF IsText
    <2>4. Twice(T) => Twice(U)
      BY <2>2, <2>3, StaysTwice
    <2>5. CASE Twice(U)
      BY <2>1, <2>2, <2>5, Zenon
    <2>6. CASE ~Twice(U)
      <3>1. Reaches(files, T) /\ Brings(files, T, <<>>, P)
        BY <1>1, <1>2, <2>4, <2>6, Zenon
      <3>2. Reaches(files, U)
        BY <2>2, <2>3, <3>1, RenamedReaches
      <3>3. \A p \in At(T) : U[p].v = f.as \o T[p].v
        BY <2>2, <2>6, Zenon
      <3>4. Brings(files, U, f.as, P)
        BY <1>1, <2>2, <3>1, <3>3, RenamedBrings
      <3> QED BY <2>1, <2>2, <3>2, <3>4, Zenon DEF P
    <2> QED BY <2>5, <2>6
  <1> QED BY <1>3, <1>4

\* The importer f took what g brought, and is h.
AfterImport(f, g, h) ==
  /\ h.path = f.path /\ h.rest = f.rest /\ h.body = f.body /\ IsSequence(h.aliases)
  /\ h.result = f.result \o TextOf(g)

LEMMA ImportIsTaken ==
  ASSUME NEW files, FilesFormed(files), NEW f, Reads(files, f), NEW g, Reads(files, g),
         Opens(files, f, g), g.rest = <<>>, Resolves(files, g, Begun(files, g)),
         NEW h, AfterImport(f, g, h)
  PROVE  Reads(files, h) /\ Begun(files, h) = Begun(files, f)
         /\ Resolves(files, h, Begun(files, h))
  <1> DEFINE P    == Plain(f.path)
             Q    == Plain(g.path)
             n    == Begun(files, f)
             line == files[P][n]
             R    == f.result
             U    == TextOf(g)
             W    == R \o U
  <1>1. /\ MainPath(f.path) /\ P \in DOMAIN files /\ RestOf(files[P], f.rest) /\ IsText(R)
    BY Zenon DEF Reads
  <1>2. /\ n >= 1 /\ line.import /\ g.path = FullPath(f.path, line.file) /\ g.as = line.as
        /\ Resolves(files, f, n - 1)
    BY Zenon DEF Opens
  <1>3. /\ IsText(U)
        /\ Twice(U) \/ (Reaches(files, U) /\ Brings(files, U, g.as, Q))
    BY TakenText, Zenon
  <1>4. n \in 1..Len(files[P])
    <2>1. IsSequence(files[P]) /\ IsSequence(f.rest) /\ n = Len(files[P]) - Len(f.rest)
      BY <1>1, Zenon DEF FilesFormed, RestOf, Begun
    <2>2. Len(files[P]) \in Nat /\ Len(f.rest) \in Nat
      BY <2>1, Length, Zenon
    <2>3. \A a, b \in Nat : a - b >= 1 => a - b \in 1..a
      OBVIOUS
    <2>4. n >= 1
      BY <1>2, Zenon
    <2> HIDE DEF n, P
    <2> QED BY <2>1, <2>2, <2>3, <2>4, Zenon
  <1>5. Q = Plain(FullPath(P, line.file))
    <2>1. LineFormed(line)
      BY <1>1, <1>4, Zenon DEF FilesFormed
    <2>2. MainPath(line.file)
      BY <1>2, <2>1, Zenon DEF LineFormed
    <2>3. Plain(FullPath(Plain(f.path), line.file)) = Plain(FullPath(f.path, line.file))
      <3> DEFINE p == f.path
                 w == line.file
      <3>1. MainPath(p) /\ MainPath(w)
        BY <1>1, <2>2
      <3> HIDE DEF p, w
      <3>2. Plain(FullPath(Plain(p), w)) = Plain(FullPath(p, w))
        BY <3>1, ImportOfPlain
      <3> QED BY <3>2 DEF p, w
    <2> QED BY <1>2, <2>3, Zenon
  <1>6. h.path = f.path /\ h.rest = f.rest /\ h.body = f.body /\ IsSequence(h.aliases) /\ h.result = W
    BY Zenon DEF AfterImport
  <1>7. Begun(files, h) = n /\ Plain(h.path) = P
    BY <1>6, Zenon DEF Begun
  <1> HIDE DEF R, U, W
  <1>8. IsText(W) /\ Renames(R, W, 0) /\ Renames(U, W, Len(R)) /\ Len(R) \in Nat
    <2>1. IsText(W) /\ Renames(R, W, 0) /\ Renames(U, W, Len(R))
      BY <1>1, <1>3, JoinedTexts DEF W
    <2>2. Len(R) \in Nat
      BY <1>1, Length DEF IsText
    <2> QED BY <2>1, <2>2
  <1>9. IsSequence(R) /\ IsSequence(U) /\ IsSequence(W) /\ 0 \in Nat
    BY <1>1, <1>3, <1>8 DEF IsText
  <1>10. Reads(files, h)
    <2>1. OwnText(f.body, P) /\ Collects(files, f.body, P, n)
      BY Zenon DEF Reads
    <2> QED BY <1>1, <1>6, <1>7, <1>8, <2>1, Zenon DEF Reads
  <1> HIDE DEF P, Q, n
  <1>11. CASE Twice(R)
    <2>1. Twice(W)
      BY <1>8, <1>9, <1>11, StaysTwice
    <2> QED BY <1>6, <1>7, <1>10, <2>1, Zenon DEF Resolves, n
  <1>12. CASE Twice(U)
    <2>1. Twice(W)
      BY <1>8, <1>9, <1>12, StaysTwice
    <2> QED BY <1>6, <1>7, <1>10, <2>1, Zenon DEF Resolves, n
  <1>13. CASE ~Twice(R) /\ ~Twice(U)
    <2>1. Reaches(files, U) /\ Brings(files, U, g.as, Q)
      BY <1>3, <1>13, Zenon
    <2>2. Reaches(files, R) /\ Imported(files, R, P, n - 1)
      BY <1>2, <1>13, Zenon DEF Resolves, R, P
    <2>3. Reaches(files, W)
      <3>1. ASSUME NEW i \in 1..Len(U), IsId(U[i]) PROVE ReachedAt(files, W, Len(R) + i)
        <4>1. ReachedAt(files, U, i)
          BY <2>1, <3>1, Zenon DEF Reaches
        <4> QED BY <1>8, <1>9, <3>1, <4>1, StaysReached
      <3>2. \A i \in 1..Len(U) : IsId(U[i]) => ReachedAt(files, R \o U, Len(R) + i)
        BY <3>1, Zenon DEF W
      <3>3. Reaches(files, R \o U)
        BY <1>1, <1>3, <2>2, <3>2, JoinedReaches DEF R
      <3> QED BY <3>3, Zenon DEF W
    <2>4. ASSUME NEW k \in 1..n, files[P][k].import
          PROVE  Brings(files, W, files[P][k].as, Plain(FullPath(P, files[P][k].file)))
      <3>1. CASE k = n
        <4>1. Brings(files, R \o U, g.as, Q)
          BY <1>1, <1>3, <2>1, JoinedBrings DEF R
        <4> QED BY <1>2, <1>5, <3>1, <4>1, Zenon DEF W
      <3>2. CASE k # n
        <4>1. k \in 1..n - 1
          BY <1>2, <1>4, <3>2
        <4> DEFINE as == files[P][k].as
                   to == Plain(FullPath(P, files[P][k].file))
        <4>2. Brings(files, R, as, to)
          BY <2>2, <2>4, <4>1, Zenon DEF Imported
        <4> HIDE DEF as, to
        <4>3. Brings(files, R \o U, as, to)
          BY <1>1, <1>3, <4>2, JoinedBrings DEF R
        <4> QED BY <4>3, Zenon DEF W, as, to
      <3> QED BY <3>1, <3>2
    <2>5. Imported(files, W, P, n)
      BY <2>4, Zenon DEF Imported
    <2> QED BY <1>6, <1>7, <1>10, <2>3, <2>5, Zenon DEF Resolves, n
  <1> QED BY <1>11, <1>12, <1>13

\* A file that is opened: nothing of it is read yet.
LEMMA NothingRead ==
  ASSUME NEW files, FilesFormed(files), NEW g, MainPath(g.path), Plain(g.path) \in DOMAIN files,
         g.rest = files[Plain(g.path)], g.body = <<>>, g.result = <<>>, g.aliases = <<>>
  PROVE  Reads(files, g) /\ Resolves(files, g, Begun(files, g))
  <1> DEFINE P == Plain(g.path)
  <1>1. IsSequence(files[P])
    BY Zenon DEF FilesFormed
  <1>2. Len(files[P]) \in Nat
    BY <1>1, Length, Zenon
  <1>3. Begun(files, g) = Len(files[P]) - Len(files[P])
    BY Zenon DEF Begun
  <1> HIDE DEF P
  <1>4. Begun(files, g) = 0
    BY <1>2, <1>3
  <1>5. RestOf(files[P], files[P])
    <2> DEFINE l == files[P]
    <2>1. \A k \in 1..Len(l) : (Len(l) - Len(l)) + k = k
      BY <1>2
    <2>2. Len(l) <= Len(l)
      BY <1>2
    <2> HIDE DEF l
    <2> QED BY <1>1, <2>1, <2>2, Zenon DEF RestOf, l
  <1>6. IsSequence(<<>>) /\ 1..Len(<<>>) = {} /\ 1..0 = {}
    <2>1. <<>> \in Seq({0}) /\ 1..Len(<<>>) = {} /\ 1..0 = {}
      OBVIOUS
    <2> QED BY <2>1, Zenon DEF IsSequence
  <1>7. OwnText(<<>>, P) /\ IsText(<<>>) /\ Reaches(files, <<>>)
    BY <1>6, Zenon DEF OwnText, IsText, Reaches
  <1>8. Collects(files, <<>>, P, 0) /\ Imported(files, <<>>, P, 0)
    BY <1>6, Zenon DEF Collects, Imported
  <1>9. Reads(files, g)
    BY <1>4, <1>5, <1>6, <1>7, <1>8, Zenon DEF Reads, P
  <1>10. Resolves(files, g, Begun(files, g))
    BY <1>4, <1>7, <1>8, Zenon DEF Resolves, P
  <1> QED BY <1>9, <1>10

-----------------------------------------------------------------------------
(* All that are open *)

\* The fields that a step leaves, and those it sets.
LEMMA RestSet ==
  ASSUME NEW f, IsFrame(f), NEW e, NEW g, g = [f EXCEPT !.rest = e]
  PROVE  /\ IsFrame(g) /\ g.path = f.path /\ g.rest = e /\ g.result = f.result
         /\ g.body = f.body /\ g.aliases = f.aliases /\ g.as = f.as
  <1>1. PICK p, l, r, b, c, n :
             f = [path |-> p, rest |-> l, result |-> r, body |-> b, aliases |-> c, as |-> n]
    BY DEF IsFrame
  <1>2. DOMAIN f = {"path", "rest", "result", "body", "aliases", "as"}
    BY <1>1
  <1>3. /\ g.path = f.path /\ g.rest = e /\ g.result = f.result
        /\ g.body = f.body /\ g.aliases = f.aliases /\ g.as = f.as
    BY <1>2
  <1>4. IsFrame(g)
    BY ReadOn, Zenon
  <1> QED BY <1>3, <1>4

LEMMA BodySet ==
  ASSUME NEW f, IsFrame(f), NEW e, NEW g, g = [f EXCEPT !.body = e]
  PROVE  /\ g.path = f.path /\ g.rest = f.rest /\ g.result = f.result
         /\ g.body = e /\ g.aliases = f.aliases /\ g.as = f.as
  <1>1. PICK p, l, r, b, c, n :
             f = [path |-> p, rest |-> l, result |-> r, body |-> b, aliases |-> c, as |-> n]
    BY DEF IsFrame
  <1>2. DOMAIN f = {"path", "rest", "result", "body", "aliases", "as"}
    BY <1>1
  <1> QED BY <1>2

WithImport(f, e, a) == [f EXCEPT !.result = e, !.aliases = a]

LEMMA ImportSet ==
  ASSUME NEW f, IsFrame(f), NEW e, NEW a, NEW g, g = WithImport(f, e, a)
  PROVE  /\ g.path = f.path /\ g.rest = f.rest /\ g.result = e
         /\ g.body = f.body /\ g.aliases = a /\ g.as = f.as
  <1>1. PICK p, l, r, b, c, n :
             f = [path |-> p, rest |-> l, result |-> r, body |-> b, aliases |-> c, as |-> n]
    BY DEF IsFrame
  <1>2. DOMAIN f = {"path", "rest", "result", "body", "aliases", "as"}
    BY <1>1
  <1> QED BY <1>2 DEF WithImport

\* What SetTop does to a sequence.
WithLast(s, e) == [s EXCEPT ![Len(s)] = e]

LEMMA LastSet ==
  ASSUME NEW s, IsSequence(s), s # <<>>, NEW e, NEW g, g = WithLast(s, e)
  PROVE  /\ IsSequence(g) /\ Len(g) = Len(s) /\ g[Len(s)] = e /\ g # <<>>
         /\ \A i \in 1..Len(s) - 1 : g[i] = s[i]
  <1>1. /\ IsSequence(g) /\ Len(g) = Len(s) /\ g[Len(s)] = e
        /\ \A i \in 1..Len(s) - 1 : g[i] = s[i]
    <2> DEFINE h == [s EXCEPT ![Len(s)] = e]
    <2>1. /\ IsSequence(h) /\ Len(h) = Len(s) /\ h[Len(s)] = e
          /\ \A i \in 1..Len(s) - 1 : h[i] = s[i]
      BY Replaced
    <2>2. g = h
      BY DEF WithLast
    <2> HIDE DEF h
    <2> QED BY <2>1, <2>2, Zenon
  <1>2. Len(s) # 0 /\ Len(<<>>) = 0
    BY Length
  <1> QED BY <1>1, <1>2

\* The last of n open files has gone on.
GoesOn(files, fs, gs, n) ==
  /\ n \in Nat /\ n # 0 /\ Len(fs) = n /\ Len(gs) = n
  /\ \A i \in 1..n - 1 : gs[i] = fs[i]
  /\ gs[n].path = fs[n].path /\ gs[n].as = fs[n].as
  /\ Reads(files, gs[n])

\* The innermost file alone is another.
LEMMA SoundWithTop ==
  ASSUME NEW files, NEW fs, NEW gs, NEW n, AllSound(files, fs), GoesOn(files, fs, gs, n),
         Resolves(files, gs[n], Begun(files, gs[n]))
  PROVE  AllSound(files, gs)
  <1> USE DEF GoesOn
  <1>1. ASSUME NEW i \in 1..Len(gs) PROVE Reads(files, gs[i])
    <2>1. CASE i = n
      BY <2>1, Zenon
    <2>2. CASE i # n
      <3>1. i \in 1..n - 1 /\ i \in 1..Len(fs)
        BY <2>2
      <3> QED BY <3>1, Zenon DEF AllSound
    <2> QED BY <2>1, <2>2
  <1>2. ASSUME NEW i \in 1..Len(gs) - 1 PROVE Opens(files, gs[i], gs[i + 1])
    <2>1. i \in 1..n - 1 /\ i \in 1..Len(fs) - 1
      OBVIOUS
    <2>2. gs[i] = fs[i] /\ Opens(files, fs[i], fs[i + 1])
      BY <2>1, Zenon DEF AllSound
    <2>3. gs[i + 1].path = fs[i + 1].path /\ gs[i + 1].as = fs[i + 1].as
      <3>1. CASE i + 1 = n
        BY <3>1, Zenon
      <3>2. CASE i + 1 # n
        <4>1. i + 1 \in 1..n - 1
          BY <2>1, <3>2
        <4> QED BY <4>1, Zenon
      <3> QED BY <3>1, <3>2
    <2> QED BY <2>2, <2>3, Zenon DEF Opens
  <1> QED BY <1>1, <1>2, Zenon DEF AllSound

\* A file is opened for the line that the innermost of n has just read.
OpensNext(files, gs, hs, n) ==
  /\ Len(hs) = n + 1 /\ \A i \in 1..n : hs[i] = gs[i]
  /\ Opens(files, gs[n], hs[n + 1]) /\ Reads(files, hs[n + 1])
  /\ Resolves(files, hs[n + 1], Begun(files, hs[n + 1]))

LEMMA SoundWithOneMore ==
  ASSUME NEW files, NEW fs, NEW gs, NEW hs, NEW n, AllSound(files, fs),
         GoesOn(files, fs, gs, n), OpensNext(files, gs, hs, n)
  PROVE  AllSound(files, hs)
  <1> USE DEF GoesOn, OpensNext
  <1>0. n \in 1..n
    OBVIOUS
  <1>1. ASSUME NEW i \in 1..Len(hs) PROVE Reads(files, hs[i])
    <2>1. CASE i = n + 1
      BY <2>1, Zenon
    <2>2. CASE i = n
      BY <1>0, <2>2, Zenon
    <2>3. CASE i # n /\ i # n + 1
      <3>1. i \in 1..n - 1 /\ i \in 1..Len(fs) /\ i \in 1..n
        BY <2>3
      <3> QED BY <3>1, Zenon DEF AllSound
    <2> QED BY <2>1, <2>2, <2>3
  <1>2. ASSUME NEW i \in 1..Len(hs) - 1 PROVE Opens(files, hs[i], hs[i + 1])
    <2>1. CASE i = n
      BY <1>0, <2>1, Zenon
    <2>2. CASE i # n
      <3>1. i \in 1..n - 1 /\ i \in 1..Len(fs) - 1 /\ i \in 1..n /\ i + 1 \in 1..n
        BY <2>2
      <3>2. hs[i] = fs[i] /\ Opens(files, fs[i], fs[i + 1]) /\ hs[i + 1] = gs[i + 1]
        BY <3>1, Zenon DEF AllSound
      <3>3. gs[i + 1].path = fs[i + 1].path /\ gs[i + 1].as = fs[i + 1].as
        <4>1. CASE i + 1 = n
          BY <4>1, Zenon
        <4>2. CASE i + 1 # n
          <5>1. i + 1 \in 1..n - 1
            BY <3>1, <4>2
          <5> QED BY <5>1, Zenon
        <4> QED BY <4>1, <4>2
      <3> QED BY <3>2, <3>3, Zenon DEF Opens
    <2> QED BY <2>1, <2>2
  <1> QED BY <1>1, <1>2, Zenon DEF AllSound

\* The innermost file has ended, and the one that opened it is innermost again.
GoesBack(files, fs, gs, n) ==
  /\ n \in Nat /\ n > 1 /\ Len(fs) = n /\ Len(gs) = n - 1
  /\ \A i \in 1..n - 2 : gs[i] = fs[i]
  /\ gs[n - 1].path = fs[n - 1].path /\ gs[n - 1].as = fs[n - 1].as
  /\ Reads(files, gs[n - 1]) /\ Resolves(files, gs[n - 1], Begun(files, gs[n - 1]))

LEMMA SoundWithOneLess ==
  ASSUME NEW files, NEW fs, NEW gs, NEW n, AllSound(files, fs), GoesBack(files, fs, gs, n)
  PROVE  AllSound(files, gs)
  <1> USE DEF GoesBack
  <1>1. ASSUME NEW i \in 1..Len(gs) PROVE Reads(files, gs[i])
    <2>1. CASE i = n - 1
      BY <2>1, Zenon
    <2>2. CASE i # n - 1
      <3>1. i \in 1..n - 2 /\ i \in 1..Len(fs)
        BY <2>2
      <3> QED BY <3>1, Zenon DEF AllSound
    <2> QED BY <2>1, <2>2
  <1>2. ASSUME NEW i \in 1..Len(gs) - 1 PROVE Opens(files, gs[i], gs[i + 1])
    <2>1. i \in 1..n - 2 /\ i \in 1..Len(fs) - 1
      OBVIOUS
    <2>2. gs[i] = fs[i] /\ Opens(files, fs[i], fs[i + 1])
      BY <2>1, Zenon DEF AllSound
    <2>3. gs[i + 1].path = fs[i + 1].path /\ gs[i + 1].as = fs[i + 1].as
      <3>1. CASE i + 1 = n - 1
        BY <3>1, Zenon
      <3>2. CASE i + 1 # n - 1
        <4>1. i + 1 \in 1..n - 2
          BY <2>1, <3>2
        <4> QED BY <4>1, Zenon
      <3> QED BY <3>1, <3>2
    <2> QED BY <2>2, <2>3, Zenon DEF Opens
  <1> QED BY <1>1, <1>2, Zenon DEF AllSound

-----------------------------------------------------------------------------
(* The invariant *)

\* As long as every import was read, all open files are as they should be, and
\* the text at the end is.
NamesInv ==
  /\ ChainInv
  /\ disk \in Disks
  /\ complaints = {} =>
       /\ AllSound(disk, frames)
       /\ frames = <<>> => IsText(text) /\ (Twice(text) \/ Reaches(disk, text))

\* What is known of the innermost file.
LEMMA TopKnown ==
  ASSUME FilesInForm, NamesInv, frames # <<>>
  PROVE  /\ FilesFormed(disk) /\ IsSequence(frames) /\ Len(frames) \in Nat /\ Len(frames) # 0
         /\ IsFrame(Top) /\ \A i \in 1..Len(frames) : IsFrame(frames[i])
         /\ complaints = {} =>
              /\ AllSound(disk, frames) /\ Reads(disk, Top)
              /\ Resolves(disk, Top, Begun(disk, Top))
  <1>1. FilesFormed(disk)
    BY Zenon DEF FilesInForm, NamesInv
  <1>2. ChainInv
    BY DEF NamesInv
  <1>3. IsSequence(frames) /\ \A i \in 1..Len(frames) : IsFrame(frames[i])
    BY <1>2, Zenon DEF ChainInv, Shape, Frames
  <1>4. Len(frames) \in Nat /\ Len(frames) # 0 /\ IsFrame(Top)
    BY <1>2, InnermostFrame, Zenon
  <1>5. Len(frames) \in 1..Len(frames)
    BY <1>4
  <1>6. complaints = {} =>
          /\ AllSound(disk, frames) /\ Reads(disk, Top)
          /\ Resolves(disk, Top, Begun(disk, Top))
    BY <1>5, Zenon DEF NamesInv, AllSound, Top
  <1> QED BY <1>1, <1>3, <1>4, <1>6, Zenon

\* The frame that has read one line more.
LEMMA NextLineSet ==
  ASSUME IsFrame(Top)
  PROVE  /\ IsFrame(NextLine) /\ NextLine.path = Top.path
         /\ NextLine.rest = Tail(Top.rest) /\ NextLine.result = Top.result
         /\ NextLine.body = Top.body /\ NextLine.aliases = Top.aliases /\ NextLine.as = Top.as
  <1> DEFINE f == Top
             e == Tail(Top.rest)
             g == NextLine
  <1>1. IsFrame(f) /\ g = [f EXCEPT !.rest = e]
    BY DEF NextLine
  <1> HIDE DEF f, e, g
  <1>2. /\ IsFrame(g) /\ g.path = f.path /\ g.rest = e /\ g.result = f.result
        /\ g.body = f.body /\ g.aliases = f.aliases /\ g.as = f.as
    BY <1>1, RestSet
  <1> QED BY <1>2, Zenon DEF f, e, g

\* A line that is not an import.
LEMMA NamesByCopyLine ==
  ASSUME FilesInForm, NamesInv, CopyLine
  PROVE  NamesInv'
  <1> DEFINE b == NextLine.body \o Stamp(Line.toks, Top.path)
             g == [NextLine EXCEPT !.body = b]
  <1>1. /\ frames # <<>> /\ Top.rest # <<>> /\ ~Line.import /\ SetTop(g)
        /\ disk' = disk /\ complaints' = complaints
    BY Zenon DEF CopyLine
  <1>2. ChainInv' /\ disk' \in Disks
    BY <1>1, ChainByCopyLine DEF NamesInv
  <1>3. /\ FilesFormed(disk) /\ IsSequence(frames) /\ Len(frames) \in Nat /\ Len(frames) # 0
        /\ IsFrame(Top)
    BY <1>1, TopKnown, Zenon
  <1>4. /\ IsFrame(NextLine) /\ NextLine.path = Top.path
        /\ NextLine.rest = Tail(Top.rest) /\ NextLine.result = Top.result
        /\ NextLine.body = Top.body /\ NextLine.aliases = Top.aliases /\ NextLine.as = Top.as
    BY <1>3, NextLineSet, Zenon
  <1>5. /\ g.path = Top.path /\ g.rest = Tail(Top.rest) /\ g.result = Top.result
        /\ g.body = b /\ g.aliases = Top.aliases /\ g.as = Top.as
    <2>1. g = [NextLine EXCEPT !.body = b]
      OBVIOUS
    <2> HIDE DEF b, g
    <2>2. /\ g.path = NextLine.path /\ g.rest = NextLine.rest /\ g.result = NextLine.result
          /\ g.body = b /\ g.aliases = NextLine.aliases /\ g.as = NextLine.as
      BY <1>4, <2>1, BodySet
    <2> QED BY <1>4, <2>2, Zenon
  <1>6. AfterLine(Top, g)
    <2>1. b = Top.body \o Stamp(Top.rest[1].toks, Top.path)
      BY <1>4, Zenon DEF Line
    <2> HIDE DEF b, g
    <2> QED BY <1>1, <1>5, <2>1, Zenon DEF AfterLine, Line
  <1> HIDE DEF b, g
  <1>7. /\ Len(frames') = Len(frames) /\ frames'[Len(frames)] = g /\ frames' # <<>>
        /\ \A i \in 1..Len(frames) - 1 : frames'[i] = frames[i]
    <2>1. frames' = WithLast(frames, g)
      BY <1>1, Zenon DEF SetTop, WithLast
    <2>9. IsSequence(frames) /\ frames # <<>>
      BY <1>1, <1>3
    <2> QED BY <2>9, <2>1, LastSet, SMTT(30)
  <1>8. ASSUME complaints = {}
        PROVE  AllSound(disk, frames')
    <2>1. /\ AllSound(disk, frames) /\ Reads(disk, Top) /\ Resolves(disk, Top, Begun(disk, Top))
      BY <1>1, <1>8, TopKnown, Zenon
    <2> DEFINE n == Begun(disk, Top)
               l == disk[Plain(Top.path)][n + 1]
    <2>2. /\ Top.rest[1] = l /\ Reads(disk, g) /\ Begun(disk, g) = n + 1
          /\ Resolves(disk, Top, n) => (~l.import => Resolves(disk, g, n + 1))
      BY <1>1, <1>3, <1>6, <2>1, LineIsRead, Zenon
    <2>3. Resolves(disk, g, Begun(disk, g))
      BY <1>1, <2>1, <2>2, Zenon DEF Line
    <2>4. frames[Len(frames)] = Top
      BY DEF Top
    <2> DEFINE gs == frames'
               m  == Len(frames)
    <2>5. /\ m \in Nat /\ m # 0 /\ Len(frames) = m /\ Len(gs) = m /\ gs[m] = g
          /\ \A i \in 1..m - 1 : gs[i] = frames[i]
      BY <1>3, <1>7, Zenon
    <2> HIDE DEF gs, m
    <2>6. gs[m].path = frames[m].path /\ gs[m].as = frames[m].as
      BY <1>5, <2>4, <2>5, Zenon
    <2>7. GoesOn(disk, frames, gs, m)
      BY <2>2, <2>5, <2>6, Zenon DEF GoesOn
    <2>8. Resolves(disk, gs[m], Begun(disk, gs[m]))
      BY <2>3, <2>5, Zenon
    <2>9. AllSound(disk, gs)
      BY <2>1, <2>7, <2>8, SoundWithTop, Zenon
    <2> QED BY <2>9 DEF gs
  <1> QED BY <1>1, <1>2, <1>7, <1>8, Zenon DEF NamesInv

\* An import that is not followed: that is complained of.
LEMMA NamesBySkip ==
  ASSUME NamesInv, SkipCircular \/ SkipUnreadable
  PROVE  NamesInv'
  <1>1. complaints' = complaints \cup {Target} /\ disk' = disk
    BY Zenon DEF SkipCircular, SkipUnreadable
  <1>2. ChainInv' /\ disk' \in Disks
    BY <1>1, ChainBySkip DEF NamesInv
  <1>3. complaints' # {}
    BY <1>1
  <1> QED BY <1>2, <1>3, Zenon DEF NamesInv

\* A file is opened.
LEMMA NamesByDescend ==
  ASSUME FilesInForm, NamesInv, Descend
  PROVE  NamesInv'
  <1> DEFINE g  == Frame(Target, disk[Plain(Target)], Line.as)
             fs == [frames EXCEPT ![Len(frames)] = NextLine]
  <1>1. /\ frames # <<>> /\ Top.rest # <<>> /\ Line.import /\ Plain(Target) \in DOMAIN disk
        /\ frames' = Append(fs, g)
        /\ disk' = disk /\ complaints' = complaints
    BY Zenon DEF Descend, AtImport
  <1>2. ChainInv' /\ disk' \in Disks
    BY <1>1, ChainByDescend DEF NamesInv
  <1>3. /\ FilesFormed(disk) /\ IsSequence(frames) /\ Len(frames) \in Nat /\ Len(frames) # 0
        /\ IsFrame(Top)
    BY <1>1, TopKnown, Zenon
  <1>4. /\ NextLine.path = Top.path /\ NextLine.rest = Tail(Top.rest)
        /\ NextLine.result = Top.result /\ NextLine.body = Top.body
        /\ NextLine.aliases = Top.aliases /\ NextLine.as = Top.as
    BY <1>3, NextLineSet, Zenon
  <1>5. AfterLine(Top, NextLine)
    BY <1>1, <1>4, Zenon DEF AfterLine, Line
  <1>6. /\ g.path = Target /\ g.rest = disk[Plain(Target)] /\ g.as = Line.as
        /\ g.body = <<>> /\ g.result = <<>> /\ g.aliases = <<>>
    BY DEF Frame
  <1>7. /\ IsSequence(fs) /\ Len(fs) = Len(frames) /\ fs[Len(frames)] = NextLine
        /\ \A i \in 1..Len(frames) - 1 : fs[i] = frames[i]
    <2>1. fs = WithLast(frames, NextLine)
      BY Zenon DEF WithLast
    <2> HIDE DEF fs
    <2>9. IsSequence(frames) /\ frames # <<>>
      BY <1>1, <1>3
    <2> QED BY <2>9, <2>1, LastSet, SMTT(30)
  <1> HIDE DEF g, fs
  <1>8. /\ Len(frames') = Len(frames) + 1 /\ frames'[Len(frames) + 1] = g
        /\ \A i \in 1..Len(frames) : frames'[i] = fs[i]
    <2> DEFINE hs == Append(fs, g)
    <2>1. /\ Len(hs) = Len(fs) + 1 /\ hs[Len(fs) + 1] = g
          /\ \A i \in 1..Len(fs) : hs[i] = fs[i]
      BY <1>7, OneMoreAt
    <2>2. frames' = hs
      BY <1>1, Zenon
    <2> HIDE DEF hs
    <2> QED BY <1>7, <2>1, <2>2, Zenon
  <1>9. frames' # <<>>
    <2>1. Len(<<>>) = 0
      OBVIOUS
    <2>2. Len(frames') # 0
      BY <1>3, <1>8
    <2> QED BY <2>1, <2>2, Zenon
  <1>10. ASSUME complaints = {}
         PROVE  AllSound(disk, frames')
    <2>1. /\ AllSound(disk, frames) /\ Reads(disk, Top) /\ Resolves(disk, Top, Begun(disk, Top))
      BY <1>1, <1>10, TopKnown, Zenon
    <2> DEFINE n == Begun(disk, Top)
               l == disk[Plain(Top.path)][n + 1]
    <2>2. /\ n \in Nat /\ Top.rest[1] = l /\ LineFormed(l)
          /\ Reads(disk, NextLine) /\ Begun(disk, NextLine) = n + 1
          /\ Resolves(disk, Top, n) => Resolves(disk, NextLine, n)
      BY <1>1, <1>3, <1>5, <2>1, LineIsRead, Zenon
    <2>3. l = Line
      BY <2>2, Zenon DEF Line
    <2> HIDE DEF n, l
    <2>4. Resolves(disk, NextLine, n)
      BY <2>1, <2>2, Zenon DEF n
    <2>5. n + 1 >= 1 /\ (n + 1) - 1 = n
      BY <2>2
    <2>6. Opens(disk, NextLine, g)
      <3>1. disk[Plain(NextLine.path)][Begun(disk, NextLine)] = Line
        BY <1>4, <2>2, <2>3, Zenon DEF l
      <3>2. g.path = FullPath(NextLine.path, Line.file)
        BY <1>4, <1>6, Zenon DEF Target
      <3>3. Resolves(disk, NextLine, Begun(disk, NextLine) - 1) /\ Begun(disk, NextLine) >= 1
        BY <2>2, <2>4, <2>5, Zenon
      <3> QED BY <1>1, <1>6, <3>1, <3>2, <3>3, Zenon DEF Opens
    <2>7. MainPath(g.path)
      <3>1. MainPath(Top.path) /\ MainPath(Line.file)
        BY <1>1, <2>1, <2>2, <2>3, Zenon DEF Reads, LineFormed
      <3> DEFINE p == Top.path
                 w == Line.file
      <3>2. MainPath(p) /\ MainPath(w)
        BY <3>1
      <3> HIDE DEF p, w
      <3>3. MainPath(FullPath(p, w))
        BY <3>2, ImportOfPlain
      <3> QED BY <1>6, <3>3, Zenon DEF p, w, Target
    <2>8. Reads(disk, g) /\ Resolves(disk, g, Begun(disk, g))
      <3>1. Plain(g.path) \in DOMAIN disk /\ g.rest = disk[Plain(g.path)]
        BY <1>1, <1>6, Zenon
      <3> QED BY <1>3, <1>6, <2>7, <3>1, NothingRead, Zenon
    <2> DEFINE m == Len(frames)
    <2>9. m \in Nat /\ m # 0 /\ Len(frames) = m /\ Len(fs) = m /\ Len(frames') = m + 1
      BY <1>3, <1>7, <1>8
    <2>10. /\ \A i \in 1..m - 1 : fs[i] = frames[i]
           /\ \A i \in 1..m : frames'[i] = fs[i]
           /\ fs[m] = NextLine /\ frames'[m + 1] = g /\ frames[m] = Top
      BY <1>7, <1>8, Zenon DEF Top
    <2> HIDE DEF m
    <2>11. /\ fs[m].path = frames[m].path /\ fs[m].as = frames[m].as /\ Reads(disk, fs[m])
           /\ Opens(disk, fs[m], frames'[m + 1]) /\ Reads(disk, frames'[m + 1])
           /\ Resolves(disk, frames'[m + 1], Begun(disk, frames'[m + 1]))
      BY <1>4, <2>2, <2>6, <2>8, <2>10, Zenon
    <2> DEFINE hs == frames'
    <2>12. OpensNext(disk, fs, hs, m)
      BY <2>9, <2>10, <2>11, Zenon DEF OpensNext
    <2>13. GoesOn(disk, frames, fs, m)
      BY <2>9, <2>10, <2>11, Zenon DEF GoesOn
    <2> HIDE DEF hs
    <2>14. AllSound(disk, hs)
      BY <2>1, <2>12, <2>13, SoundWithOneMore, Zenon
    <2> QED BY <2>14 DEF hs
  <1> QED BY <1>1, <1>2, <1>9, <1>10, Zenon DEF NamesInv

\* A file ends.
LEMMA NamesByFinish ==
  ASSUME FilesInForm, NamesInv, Finish
  PROVE  NamesInv'
  <1> DEFINE up   == frames[Len(frames) - 1]
             fits == Top.as = NoAlias \/ Len(up.aliases) < MaxAliases
             more == IF Top.as = NoAlias THEN Returned(Top) ELSE Namespaced(Returned(Top), Top.as)
             res  == up.result \o more
             als  == IF Top.as # NoAlias /\ fits THEN Append(up.aliases, Top.as) ELSE up.aliases
             g    == [up EXCEPT !.result = res, !.aliases = als]
             hs   == SubSeq(frames, 1, Len(frames) - 2)
             gs   == Append(hs, g)
             n    == Len(frames)
  <1>1. /\ frames # <<>> /\ Top.rest = <<>> /\ Len(frames) > 1 /\ frames' = gs
        /\ disk' = disk /\ complaints' = complaints
    BY Zenon DEF Finish, Finished
  <1>2. ChainInv' /\ disk' \in Disks
    BY <1>1, ChainByFinish DEF NamesInv
  <1>3. /\ FilesFormed(disk) /\ IsSequence(frames) /\ n \in Nat
        /\ \A i \in 1..n : IsFrame(frames[i])
    BY <1>1, TopKnown, Zenon
  <1>4. n - 1 \in 1..n /\ n - 2 \in 0..n /\ n \in 1..n /\ n - 1 \in 1..n - 1 /\ (n - 1) + 1 = n
    BY <1>1, <1>3
  <1>5. IsFrame(up)
    BY <1>3, <1>4, Zenon
  <1>6. /\ g.path = up.path /\ g.rest = up.rest /\ g.result = res
        /\ g.body = up.body /\ g.aliases = als /\ g.as = up.as
    <2>1. g = WithImport(up, res, als)
      BY Zenon DEF WithImport
    <2> HIDE DEF up, res, als, g
    <2> QED BY <1>5, <2>1, ImportSet, SMTT(30)
  <1>7. more = TextOf(Top)
    BY Zenon DEF TextOf
  <1>8. /\ IsSequence(hs) /\ Len(hs) = n - 2
        /\ \A i \in 1..n - 2 : hs[i] = frames[i]
    BY <1>3, <1>4, OneLess
  <1> HIDE DEF g, hs
  <1>9. /\ Len(gs) = Len(hs) + 1 /\ gs[Len(hs) + 1] = g
        /\ \A i \in 1..Len(hs) : gs[i] = hs[i]
    BY <1>8, OneMoreAt
  <1> HIDE DEF gs, n, more, fits
  <1>10. /\ Len(gs) = n - 1 /\ gs[n - 1] = g
         /\ \A i \in 1..n - 2 : gs[i] = frames[i]
    <2>1. Len(hs) + 1 = n - 1
      BY <1>3, <1>8
    <2> QED BY <1>8, <1>9, <2>1, Zenon
  <1>11. gs # <<>>
    <2>1. Len(<<>>) = 0
      OBVIOUS
    <2>2. Len(gs) # 0
      BY <1>3, <1>4, <1>10
    <2> QED BY <2>1, <2>2, Zenon
  <1>12. ASSUME complaints = {}
         PROVE  AllSound(disk, gs)
    <2>1. /\ AllSound(disk, frames) /\ Reads(disk, Top) /\ Resolves(disk, Top, Begun(disk, Top))
      BY <1>1, <1>12, TopKnown, Zenon
    <2>2. Reads(disk, up) /\ Opens(disk, up, Top)
      <3>1. \A i \in 1..n : Reads(disk, frames[i])
        BY <2>1, Zenon DEF AllSound, n
      <3>2. \A i \in 1..n - 1 : Opens(disk, frames[i], frames[i + 1])
        BY <2>1, Zenon DEF AllSound, n
      <3>3. up = frames[n - 1] /\ Top = frames[n]
        BY Zenon DEF n, Top
      <3>4. Opens(disk, frames[n - 1], frames[(n - 1) + 1])
        BY <1>4, <3>2, Zenon
      <3> QED BY <1>4, <3>1, <3>3, <3>4, Zenon
    <2>3. IsSequence(als)
      <3>1. IsSequence(up.aliases)
        BY <2>2, Zenon DEF Reads
      <3>2. IsSequence(Append(up.aliases, Top.as))
        BY <3>1, OneMore
      <3> QED BY <3>1, <3>2, Zenon
    <2>4. AfterImport(up, Top, g)
      BY <1>6, <1>7, <2>3, Zenon DEF AfterImport
    <2>5. Reads(disk, g) /\ Resolves(disk, g, Begun(disk, g))
      <3> HIDE DEF up
      <3> QED BY <1>1, <1>3, <2>1, <2>2, <2>4, ImportIsTaken, Zenon
    <2>6. gs[n - 1].path = frames[n - 1].path /\ gs[n - 1].as = frames[n - 1].as
      BY <1>6, <1>10, Zenon DEF n
    <2>7. Len(frames) = n /\ n > 1
      BY <1>1 DEF n
    <2>8. Reads(disk, gs[n - 1]) /\ Resolves(disk, gs[n - 1], Begun(disk, gs[n - 1]))
      BY <1>10, <2>5, Zenon
    <2> HIDE DEF up
    <2>9. GoesBack(disk, frames, gs, n)
      BY <1>3, <1>10, <2>6, <2>7, <2>8, Zenon DEF GoesBack
    <2> QED BY <2>1, <2>9, SoundWithOneLess, Zenon
  <1>13. frames' = gs
    BY <1>1
  <1> QED BY <1>1, <1>2, <1>11, <1>12, <1>13, Zenon DEF NamesInv

\* The main file ends.
LEMMA NamesByFinishMain ==
  ASSUME FilesInForm, NamesInv, FinishMain
  PROVE  NamesInv'
  <1>1. /\ frames # <<>> /\ Top.rest = <<>> /\ text' = Returned(Top) /\ frames' = <<>>
        /\ disk' = disk /\ complaints' = complaints
    BY Zenon DEF FinishMain, Finished
  <1>2. ChainInv' /\ disk' \in Disks
    BY <1>1, ChainByFinishMain DEF NamesInv
  <1>3. AllSound(disk, <<>>)
    <2>1. 1..Len(<<>>) = {} /\ 1..Len(<<>>) - 1 = {}
      OBVIOUS
    <2> QED BY <2>1, Zenon DEF AllSound
  <1>4. ASSUME complaints = {}
        PROVE  IsText(Returned(Top)) /\ (Twice(Returned(Top)) \/ Reaches(disk, Returned(Top)))
    <2>1. /\ FilesFormed(disk) /\ Reads(disk, Top) /\ Resolves(disk, Top, Begun(disk, Top))
      BY <1>1, <1>4, TopKnown, Zenon
    <2> DEFINE f == Top
    <2>2. /\ Reads(disk, f) /\ Resolves(disk, f, Begun(disk, f)) /\ f.rest = <<>>
      BY <1>1, <2>1
    <2> HIDE DEF f
    <2>3. IsText(Returned(f)) /\ (Twice(Returned(f)) \/ Complete(disk, Returned(f), Plain(f.path)))
      BY <2>1, <2>2, FinishedText
    <2> QED BY <2>3, Zenon DEF f, Complete
  <1> QED BY <1>1, <1>2, <1>3, <1>4, Zenon DEF NamesInv

\* The main file alone.
LEMMA NamesAtStart ==
  ASSUME FilesInForm, ImportsInit
  PROVE  NamesInv
  <1>1. PICK main \in MainPaths :
           /\ Plain(main) \in DOMAIN disk
           /\ frames = <<Frame(main, disk[Plain(main)], NoAlias)>>
    BY DEF ImportsInit
  <1> DEFINE g == Frame(main, disk[Plain(main)], NoAlias)
  <1>2. ChainInv /\ disk \in Disks
    BY StartsAsChain DEF ImportsInit
  <1>3. /\ g.path = main /\ g.rest = disk[Plain(main)]
        /\ g.body = <<>> /\ g.result = <<>> /\ g.aliases = <<>>
    BY DEF Frame
  <1>4. frames = <<g>>
    BY <1>1, Zenon
  <1> HIDE DEF g
  <1>5. Len(frames) = 1 /\ frames[1] = g /\ frames # <<>>
    BY <1>4
  <1>6. FilesFormed(disk) /\ MainPath(main)
    BY <1>2, Zenon DEF FilesInForm
  <1>7. Reads(disk, g) /\ Resolves(disk, g, Begun(disk, g))
    <2>1. MainPath(g.path) /\ Plain(g.path) \in DOMAIN disk /\ g.rest = disk[Plain(g.path)]
      BY <1>1, <1>3, <1>6, Zenon
    <2> QED BY <1>3, <1>6, <2>1, NothingRead, Zenon
  <1>8. (\A i \in 1..Len(frames) : i = 1) /\ 1..Len(frames) - 1 = {}
    BY <1>5
  <1>9. AllSound(disk, frames)
    BY <1>5, <1>7, <1>8, Zenon DEF AllSound
  <1> QED BY <1>2, <1>5, <1>9, Zenon DEF NamesInv

\* Every step keeps the invariant.
LEMMA NamesStep ==
  ASSUME FilesInForm, NamesInv, [ImportsNext]_ivars
  PROVE  NamesInv'
  <1>1. CASE CopyLine
    BY <1>1, NamesByCopyLine
  <1>2. CASE SkipCircular \/ SkipUnreadable
    BY <1>2, NamesBySkip
  <1>3. CASE Descend
    BY <1>3, NamesByDescend
  <1>4. CASE Finish
    BY <1>4, NamesByFinish
  <1>5. CASE FinishMain
    BY <1>5, NamesByFinishMain
  <1>6. CASE UNCHANGED ivars
    <2>1. /\ frames' = frames /\ stack' = stack /\ overflow' = overflow /\ disk' = disk
          /\ text' = text /\ complaints' = complaints
      BY <1>6 DEF ivars
    <2>2. ChainInv'
      BY <2>1, ChainInForm, ChainInFormNext DEF InForm, NamesInv
    <2> QED BY <2>1, <2>2, Zenon DEF NamesInv
  <1> QED BY <1>1, <1>2, <1>3, <1>4, <1>5, <1>6 DEF ImportsNext

\* The text at the end.
LEMMA NamesReach ==
  ASSUME NamesInv
  PROVE  CallsReachTheirFunctions
  <1> SUFFICES ASSUME Resolved, complaints = {},
                      \A i, j \in Declared : text[i].v = text[j].v => i = j,
                      NEW i \in Called
               PROVE  LET meant == {s \in Scopes(disk)[text[i].from] : s.name = text[i].was}
                      IN meant # {} =>
                           \E j \in Declared, s \in meant :
                             /\ text[j].v = text[i].v /\ text[j].from = s.at
                             /\ text[j].was = SubSeq(s.name, Len(s.name), Len(s.name))
                             /\ s.at # text[i].from => j < i
    BY Zenon DEF CallsReachTheirFunctions
  <1>1. IsText(text) /\ (Twice(text) \/ Reaches(disk, text))
    BY Zenon DEF NamesInv, Resolved
  <1>2. DOMAIN text = 1..Len(text)
    BY <1>1, Length DEF IsText
  <1>3. Declared = At(text)
    BY <1>2, Zenon DEF Declared, At
  <1>4. ~Twice(text)
    BY <1>3, Zenon DEF Twice
  <1>5. i \in 1..Len(text) /\ IsId(text[i])
    BY <1>2, Zenon DEF Called, TokenAt, IsId
  <1>6. ReachedAt(disk, text, i)
    BY <1>1, <1>4, <1>5, Zenon DEF Reaches
  <1> QED BY <1>3, <1>6, Zenon DEF ReachedAt, Meant, Answers, Tip

\* CallsReachTheirFunctions: for every set of files in the form the compiler
\* reads, when every import was read and no name is declared twice at the end,
\* each call of a function its file can name has that function's name, whatever
\* the aliases, and stands after it when it comes from another file
\* (resolve_imports, namespace_imported_source, rewrite_ns_calls).
THEOREM NamesReachTheirFunctions ==
  ASSUME FilesInForm
  PROVE  ImportsSpec => []CallsReachTheirFunctions
  <1>1. ImportsInit => NamesInv
    BY NamesAtStart
  <1>2. NamesInv /\ [ImportsNext]_ivars => NamesInv'
    BY NamesStep
  <1>3. NamesInv => CallsReachTheirFunctions
    BY NamesReach
  <1> QED BY <1>1, <1>2, <1>3, PTL DEF ImportsSpec
=============================================================================
