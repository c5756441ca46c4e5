------------------------------ MODULE Imports ------------------------------
(***************************************************************************)
(* The text-level import resolution of imports.c.  A source file is a      *)
(* sequence of lines: an import line, or tokens.  A file's text is what    *)
(* its imports brought, in their order, followed by its own lines; under   *)
(* an alias every function found in the imported text is renamed, and the  *)
(* importer's alias.f becomes that name.  Cycles are detected with one     *)
(* stack of paths for the whole compilation, of MaxDepth entries.          *)
(*                                                                         *)
(* A name is a sequence of words: alias__f is <<"alias", "f">>.  A path is *)
(* a sequence of directories and a file, as it is spelled.                 *)
(***************************************************************************)
EXTENDS Integers, Sequences, SequencesExt, FiniteSets

CONSTANTS
  Disks,       \* the file systems: functions from plain paths to lines
  MainPaths,   \* how the main file may be spelled on the command line
  MaxDepth,    \* the capacity of the import stack
  MaxAliases,  \* the aliases a file can have
  MaxOpen      \* the calls the compiler's own stack has room for (a bound: the
               \* code has no limit)

ASSUME CapacityAssumption == MaxDepth \in Nat \ {0} /\ MaxAliases \in Nat

ASSUME RoomAssumption == MaxOpen \in Nat /\ MaxOpen > MaxDepth

VARIABLES
  disk,        \* the files there are
  frames,      \* the calls of resolve_imports, the innermost last
  stack,       \* import_stack
  text,        \* what the outermost call has returned
  complaints,  \* the paths named in messages on stderr
  overflow     \* history: an entry did not fit in the stack or the aliases

ivars == <<disk, frames, stack, text, complaints, overflow>>

-----------------------------------------------------------------------------
(* Paths and names *)

\* The directory of a path: what is before the last slash, or ".".
DirOf(path) == IF Len(path) = 1 THEN <<".">> ELSE Front(path)

FullPath(base, name) == DirOf(base) \o name

\* The file a spelled path leads to: "." leads nowhere else.
Plain(path) ==
  LET kept[i \in 0..Len(path)] ==
        IF i = 0 THEN <<>>
        ELSE IF path[i] = "." THEN kept[i - 1] ELSE Append(kept[i - 1], path[i])
  IN kept[Len(path)]

NoAlias == <<>>

\* The tokens of a line, each identifier with where it was written and how
\* (history: no action looks at it).
Stamp(toks, path) ==
  [i \in DOMAIN toks |->
     IF toks[i].t = "id" THEN [t |-> "id", v |-> toks[i].v, from |-> Plain(path), was |-> toks[i].v]
                         ELSE toks[i]]

TokenAt(toks, i, type) == i \in DOMAIN toks /\ toks[i].t = type

\* Where a function is declared: "fn", a name, "(".
Declares(toks, i) ==
  TokenAt(toks, i, "fn") /\ TokenAt(toks, i + 1, "id") /\ TokenAt(toks, i + 2, "(")

extract_fn_names(toks) ==
  LET found[i \in 0..Len(toks)] ==
        IF i = 0 THEN <<>>
        ELSE IF Declares(toks, i - 1) THEN Append(found[i - 1], toks[i].v) ELSE found[i - 1]
  IN found[Len(toks)]

\* Every whole word, in strings too.
replace_identifier(toks, old, new) ==
  LET renamed(tok) == IF tok.t \in {"id", "str"} /\ tok.v = old THEN [tok EXCEPT !.v = new] ELSE tok
  IN [i \in DOMAIN toks |-> renamed(toks[i])]

\* Mutant: only the declarations are renamed, not what calls them.
Namespaced_declarationsOnly(toks, ns) ==
  [i \in DOMAIN toks |->
     IF Declares(toks, i - 1) THEN [toks[i] EXCEPT !.v = ns \o @] ELSE toks[i]]

\* namespace_imported_source
Namespaced(toks, ns) ==
  LET names == extract_fn_names(toks)
      cur[k \in 0..Len(names)] ==
        IF k = 0 THEN toks ELSE replace_identifier(cur[k - 1], names[k], ns \o names[k])
  IN cur[Len(names)]

\* Whether alias.f stands at i.
Qualified(toks, i, ns) ==
  /\ TokenAt(toks, i, "id") /\ toks[i].v = ns
  /\ TokenAt(toks, i + 1, ".") /\ TokenAt(toks, i + 2, "id")

\* alias.f becomes one name, wherever it stands.
rewrite_ns_calls(toks, ns) ==
  LET rest[i \in 1..Len(toks) + 1] ==
        IF i > Len(toks) THEN <<>>
        ELSE IF Qualified(toks, i, ns)
        THEN <<[toks[i + 2] EXCEPT !.v = ns \o @, !.was = ns \o @]>> \o rest[i + 3]
        ELSE <<toks[i]>> \o rest[i + 1]
  IN rest[1]

-----------------------------------------------------------------------------
(* The resolution *)

Frame(path, lines, as) ==
  [path |-> path, rest |-> lines, result |-> <<>>, body |-> <<>>, aliases |-> <<>>, as |-> as]

Top      == frames[Len(frames)]
Line     == Top.rest[1]
AtImport == frames # <<>> /\ Top.rest # <<>> /\ Line.import
Target   == FullPath(Top.path, Line.file)

SetTop(f) == frames' = [frames EXCEPT ![Len(frames)] = f]
NextLine  == [Top EXCEPT !.rest = Tail(@)]

Push(path) == stack' = IF Len(stack) < MaxDepth THEN Append(stack, path) ELSE stack
Pop        == stack' = IF stack = <<>> THEN stack ELSE Front(stack)

\* The main file is pushed when the stack is empty.
ImportsInit ==
  /\ disk \in Disks
  /\ \E main \in MainPaths :
       /\ Plain(main) \in DOMAIN disk
       /\ frames = <<Frame(main, disk[Plain(main)], NoAlias)>>
       /\ stack = <<main>>
  /\ text = <<>> /\ complaints = {} /\ overflow = FALSE

CopyLine ==
  /\ frames # <<>> /\ Top.rest # <<>> /\ ~Line.import
  /\ SetTop([NextLine EXCEPT !.body = @ \o Stamp(Line.toks, Top.path)])
  /\ UNCHANGED <<disk, stack, text, complaints, overflow>>

\* Mutant: the message is given, and the same line looked at again.
SkipCircular_again ==
  /\ AtImport /\ Target \in ToSet(stack)
  /\ complaints' = complaints \cup {Target}
  /\ UNCHANGED <<disk, frames, stack, text, overflow>>

SkipCircular ==
  /\ AtImport /\ Target \in ToSet(stack)
  /\ SetTop(NextLine)
  /\ complaints' = complaints \cup {Target}
  /\ UNCHANGED <<disk, stack, text, overflow>>

\* A file that cannot be opened is a message, not an error of the compiler.
SkipUnreadable ==
  /\ AtImport /\ Target \notin ToSet(stack) /\ Plain(Target) \notin DOMAIN disk
  /\ SetTop(NextLine)
  /\ complaints' = complaints \cup {Target}
  /\ UNCHANGED <<disk, stack, text, overflow>>

\* Mutant: a circular import is not noticed.
Descend_always ==
  /\ AtImport /\ Plain(Target) \in DOMAIN disk
  /\ Len(frames) < MaxOpen
  /\ frames' = Append([frames EXCEPT ![Len(frames)] = NextLine],
                      Frame(Target, disk[Plain(Target)], Line.as))
  /\ Push(Target)
  /\ overflow' = (overflow \/ Len(stack) = MaxDepth)
  /\ UNCHANGED <<disk, text, complaints>>

Descend ==
  /\ AtImport /\ Target \notin ToSet(stack) /\ Plain(Target) \in DOMAIN disk
  /\ Len(frames) < MaxOpen
  /\ frames' = Append([frames EXCEPT ![Len(frames)] = NextLine],
                      Frame(Target, disk[Plain(Target)], Line.as))
  /\ Push(Target)
  /\ overflow' = (overflow \/ Len(stack) = MaxDepth)
  /\ UNCHANGED <<disk, text, complaints>>

\* One more file would have to be read than the compiler has stack for.
Exhausted ==
  /\ AtImport /\ Target \notin ToSet(stack) /\ Plain(Target) \in DOMAIN disk
  /\ Len(frames) = MaxOpen

\* What a call returns: the imported text, then its own.
Returned(f) ==
  LET body[k \in 0..Len(f.aliases)] ==
        IF k = 0 THEN f.body ELSE rewrite_ns_calls(body[k - 1], f.aliases[k])
  IN f.result \o body[Len(f.aliases)]

Finished == frames # <<>> /\ Top.rest = <<>>

\* Mutant: the file's path stays on the stack.
Finish_noPop ==
  /\ Finished /\ Len(frames) > 1
  /\ LET up   == frames[Len(frames) - 1]
         fits == Top.as = NoAlias \/ Len(up.aliases) < MaxAliases
         more == IF Top.as = NoAlias THEN Returned(Top) ELSE Namespaced(Returned(Top), Top.as)
     IN /\ frames' = Append(SubSeq(frames, 1, Len(frames) - 2),
             [up EXCEPT !.result = @ \o more,
                        !.aliases = IF Top.as # NoAlias /\ fits THEN Append(@, Top.as) ELSE @])
        /\ overflow' = (overflow \/ ~fits)
  /\ UNCHANGED <<disk, stack, text, complaints>>

Finish ==
  /\ Finished /\ Len(frames) > 1
  /\ LET up   == frames[Len(frames) - 1]
         fits == Top.as = NoAlias \/ Len(up.aliases) < MaxAliases
         more == IF Top.as = NoAlias THEN Returned(Top) ELSE Namespaced(Returned(Top), Top.as)
     IN /\ frames' = Append(SubSeq(frames, 1, Len(frames) - 2),
             [up EXCEPT !.result = @ \o more,
                        !.aliases = IF Top.as # NoAlias /\ fits THEN Append(@, Top.as) ELSE @])
        /\ overflow' = (overflow \/ ~fits)
  /\ Pop
  /\ UNCHANGED <<disk, text, complaints>>

\* The main file's path is never popped.
FinishMain ==
  /\ Finished /\ Len(frames) = 1
  /\ text' = Returned(Top)
  /\ frames' = <<>>
  /\ UNCHANGED <<disk, stack, complaints, overflow>>

ImportsNext == CopyLine \/ SkipCircular \/ SkipUnreadable \/ Descend \/ Finish \/ FinishMain

ImportsSpec == ImportsInit /\ [][ImportsNext]_ivars /\ WF_ivars(ImportsNext)

Resolved == frames = <<>>

\* No import line names a file through the directory ".".
NamedPlainly(files) ==
  \A path \in DOMAIN files : \A i \in DOMAIN files[path] :
    files[path][i].import => "." \notin ToSet(files[path][i].file)
-----------------------------------------------------------------------------
\* As long as nothing overflowed, the stack names the open files from the main
\* file to the innermost, and no path is open twice: what decides whether an
\* import is circular is exactly the chain of importers.
StackIsChain ==
  ~overflow =>
    /\ frames # <<>> => stack = [i \in DOMAIN frames |-> frames[i].path]
    /\ \A i, j \in DOMAIN stack : stack[i] = stack[j] => i = j

\* No file is read inside itself, when imports are named without "." and as
\* long as nothing overflowed.  The main file may be open twice: named without
\* a directory, its path is spelled otherwise than an import of it.
OpenOnce ==
  ~overflow /\ NamedPlainly(disk) =>
    \A i, j \in DOMAIN frames :
      i < j /\ Plain(frames[i].path) = Plain(frames[j].path) => i = 1 /\ Len(frames[1].path) = 1

\* The functions a file can name, with the file each is declared in: its own,
\* those of its imports, and theirs.
Own(files, path) ==
  UNION {LET names == extract_fn_names(files[path][i].toks)
         IN {[name |-> names[k], at |-> path] : k \in DOMAIN names} :
         i \in {j \in DOMAIN files[path] : ~files[path][j].import}}

\* Those of its imports, theirs, and so on, as many levels down.
ScopesTo(files) ==
  LET scope[d \in 0..Cardinality(DOMAIN files)] ==
        [path \in DOMAIN files |->
           Own(files, path) \cup
             IF d = 0 THEN {}
             ELSE UNION {{[s EXCEPT !.name = files[path][i].as \o @] :
                          s \in scope[d - 1][Plain(FullPath(path, files[path][i].file))]} :
                         i \in {j \in DOMAIN files[path] : files[path][j].import}}]
  IN scope

Scopes(files) == ScopesTo(files)[Cardinality(DOMAIN files)]

\* The positions of the declared names in the text, and of the called ones.
Declared == {i \in DOMAIN text : Declares(text, i - 1)}
Called   == {i \in DOMAIN text : /\ TokenAt(text, i, "id") /\ TokenAt(text, i + 1, "(")
                                 /\ i \notin Declared}

\* When every import was read and no function comes twice, each call of a
\* function its file can name reaches that function and no namesake, through
\* whatever aliases, and finds it above when it comes from another file.
CallsReachTheirFunctions ==
  /\ Resolved /\ complaints = {} /\ ~overflow
  /\ \A i, j \in Declared : text[i].v = text[j].v => i = j
  => \A i \in Called :
       LET meant == {s \in Scopes(disk)[text[i].from] : s.name = text[i].was}
       IN meant # {} =>
            \E j \in Declared, s \in meant :
              /\ text[j].v = text[i].v /\ text[j].from = s.at
              /\ text[j].was = SubSeq(s.name, Len(s.name), Len(s.name))
              /\ s.at # text[i].from => j < i

\* When imports are named without "." and there are fewer files than entries in
\* the import stack, the resolution comes to an end, whatever circles they make.
\* Without either condition it may not: "./a" in a file "a" is spelled anew each
\* time, and a circle of files that found the stack full is not seen.
ImportsEnd ==
  NamedPlainly(disk) /\ Cardinality(DOMAIN disk) < MaxDepth => <>Resolved
=============================================================================
