------------------------------ MODULE Command ------------------------------
(***************************************************************************)
(* How src/ncmd.c gets from the bytes of a command to the call of a        *)
(* function: sanitize, check_cmd, cmd_parts, find_function and check_args, *)
(* as operators on sequences of characters.  oom says whether the calls of *)
(* src/bstrlib.c may find no memory.                                       *)
(***************************************************************************)
EXTENDS Bstr

CONSTANTS
  CMD_MIN_SIZE,
  CMD_MAX_SIZE,
  RSP_SIZE

ASSUME SizesAssumption ==
  /\ {CMD_MIN_SIZE, CMD_MAX_SIZE, RSP_SIZE} \subseteq Nat
  /\ 0 < CMD_MIN_SIZE /\ CMD_MIN_SIZE <= CMD_MAX_SIZE /\ CMD_MAX_SIZE < IntMax

NUL == 0
NewLine == 10
Blank == 32

\* The names of the commands, "/create" to "/load", and how many parts a line
\* of each has.
functions == <<
  [name |-> <<47, 99, 114, 101, 97, 116, 101>>, argc |-> 2],
  [name |-> <<47, 115, 97, 109, 112, 108, 101>>, argc |-> 3],
  [name |-> <<47, 109, 101, 97, 110>>, argc |-> 2],
  [name |-> <<47, 100, 117, 109, 112>>, argc |-> 2],
  [name |-> <<47, 100, 101, 108, 101, 116, 101>>, argc |-> 2],
  [name |-> <<47, 108, 105, 115, 116>>, argc |-> 1],
  [name |-> <<47, 115, 116, 111, 114, 101>>, argc |-> 2],
  [name |-> <<47, 108, 111, 97, 100>>, argc |-> 3] >>

\* No name is shorter than CMD_MIN_SIZE, which is 5.
ASSUME ShortestAssumption == \A f \in DOMAIN functions : CMD_MIN_SIZE <= Len(functions[f].name)

NS_LIST == 6
NS_NOP == -1
NoCall == [func |-> NS_NOP, args |-> <<>>]

\* What precedes the first character of C in s: a C string in a buffer, a line.
UpTo(s, C) ==
  LET at == {j \in DOMAIN s : s[j] \in C} IN IF at = {} THEN s ELSE SubSeq(s, 1, Min(at) - 1)

sanitize_KeepsNewLine(cmd) == UpTo(cmd, {NUL})                       \* mutant

\* The string in the buffer, whose newline has become a NUL.
sanitize(cmd) == UpTo(cmd, {NUL, NewLine})
check_cmd(line) == Len(line) \in CMD_MIN_SIZE .. CMD_MAX_SIZE

\* The copies of the parts that have a length.
Copies(list, oom) ==
  LET whole == Select(list.entry, {b \in Range(list.entry) : blength(b) > 0})
  IN  OneOfEach([j \in DOMAIN whole |-> bstrcpy(whole[j], oom)])

\* Mutant: the list of copies stays as bstrListCreate makes it.
cmd_parts_NoAlloc(cmd, oom) ==
  UNION {{[entry |-> c, mlen |-> 1] : c \in Copies(list, oom)} :
           list \in UNION {bsplit(b.data, Blank, oom) : b \in bfromcstr(cmd, oom)}}

\* cmd_parts: the lists it may give, NullList for its error label.
cmd_parts(cmd, oom) ==
  LET splits == UNION {IF b = NullBstr THEN {NullList} ELSE bsplit(b.data, Blank, oom) :
                         b \in bfromcstr(cmd, oom)}
      room(l) == bstrListAlloc(bstrListCreate, Len(l.entry), oom)
  IN  (UNION {{IF r = NullList THEN r ELSE [r EXCEPT !.entry = c] :
                 r \in room(l), c \in Copies(l, oom)} : l \in splits})
      \cup (IF oom THEN {NullList} ELSE {})

\* The name alone is trimmed; a copy that is a null pointer is no name.
find_function(parts) ==
  LET f == {f \in DOMAIN functions :
              EqualIgnoringCase(btrimws(parts[1].data), functions[f].name)}
  IN  IF parts[1] = NullBstr \/ f = {} THEN NS_NOP ELSE CHOOSE j \in f : TRUE

check_args(parts, argc) == Len(parts) = argc /\ \A j \in DOMAIN parts : blength(parts[j]) > 0

\* The call that call_function makes, if it makes one, with what bdata gives of
\* the parts behind the name; a null pointer gives nothing.
CallOf(parts) ==
  IF parts = <<>> \/ find_function(parts) = NS_NOP THEN NoCall
  ELSE LET f == find_function(parts)
       IN  IF check_args(parts, functions[f].argc) THEN [func |-> f, args |-> Tail([j \in DOMAIN parts |-> parts[j].data])]
           ELSE NoCall

\* process: the calls that may come of the bytes in cmd.
process(cmd, oom) ==
  UNION {IF check_cmd(line) THEN {CallOf(list.entry) : list \in cmd_parts(line, oom)} ELSE {NoCall} :
           line \in {sanitize(cmd)}}

----------------------------------------------------------------------------
(* What a line means, by the README: a command and its arguments with blanks *)
(* between them.                                                             *)

\* The line without the blanks at its ends and without more than one in a row.
Squeezed(line) ==
  LET Q[n \in Nat] ==
        IF n = 0 THEN <<>>
        ELSE LET q == Q[n - 1]
             IN  IF line[n] = Blank THEN q
                 ELSE IF q # <<>> /\ line[n - 1] = Blank THEN q \o <<Blank, line[n]>>
                 ELSE Append(q, line[n])
  IN  Q[Len(line)]

\* The line is the call of function f with these arguments.
Spells(line, f, args) ==
  LET s == Squeezed(line)
      rest == FlattenSeq([j \in DOMAIN args |-> <<Blank>> \o args[j]])
      n == Len(s) - Len(rest)
  IN  /\ Len(args) + 1 = functions[f].argc
      /\ n > 0 /\ rest = SubSeq(s, n + 1, Len(s))
      /\ EqualIgnoringCase(btrimws(SubSeq(s, 1, n)), functions[f].name)
      /\ \A j \in DOMAIN args : args[j] # <<>> /\ Blank \notin Range(args[j])

\* The line is a command.
IsCommand(line) ==
  \E f \in DOMAIN functions :
    /\ EqualIgnoringCase(btrimws(UpTo(Squeezed(line), {Blank})), functions[f].name)
    /\ Cardinality({j \in DOMAIN Squeezed(line) : Squeezed(line)[j] = Blank}) + 1 = functions[f].argc
=============================================================================
