------------------------------- MODULE Shell -------------------------------
(***************************************************************************)
(* sh.c: a recursive descent parser that makes a tree of commands of a     *)
(* line, and runcmd, which turns the tree into system calls; and the shell  *)
(* of proj_shell.  A line is a sequence of tokens: what gettoken calls 'a'  *)
(* is any string that is no symbol.  The string ends that nulterminate      *)
(* writes are where a token ends.                                           *)
(***************************************************************************)
EXTENDS Programs

CONSTANT MAXARGS

Symbols == {"<", ">", ">>", "|", "&", ";", "(", ")"}

----------------------------------------------------------------------------
(* Parsing.  A parser returns the command and what is left of the line; a   *)
(* panic ends the process, which the shell has forked for this line.        *)

execcmd(argv) == [type |-> "EXEC", argv |-> argv]
redircmd(cmd, file, create, fd) ==
  [type |-> "REDIR", cmd |-> cmd, file |-> file, create |-> create, fd |-> fd]
pipecmd(left, right) == [type |-> "PIPE", left |-> left, right |-> right]
listcmd(left, right) == [type |-> "LIST", left |-> left, right |-> right]
backcmd(cmd) == [type |-> "BACK", cmd |-> cmd]

Parsed(cmd, rest) == [cmd |-> cmd, rest |-> rest, panic |-> FALSE]
Panic == [cmd |-> execcmd(<<>>), rest |-> <<>>, panic |-> TRUE]

peek(s, toks) == s # <<>> /\ Head(s) \in toks
Word(s) == s # <<>> /\ Head(s) \notin Symbols

\* ">>" opens the file as ">" does.
RECURSIVE parseredirs(_)
parseredirs(r) ==
  IF r.panic \/ ~ peek(r.rest, {"<", ">", ">>"}) THEN r
  ELSE IF ~ Word(Tail(r.rest)) THEN Panic
  ELSE LET out == Head(r.rest) # "<" IN
       parseredirs(Parsed(redircmd(r.cmd, r.rest[2], out, IF out THEN "out" ELSE "in"),
                          SubSeq(r.rest, 3, Len(r.rest))))

\* The arguments so far belong to the command in the middle of the redirections.
RECURSIVE Arg(_, _)
Arg(cmd, word) == IF cmd.type = "EXEC" THEN execcmd(Append(cmd.argv, word))
                  ELSE [cmd EXCEPT !.cmd = Arg(cmd.cmd, word)]

RECURSIVE Args(_, _)
Args(r, argc) ==
  IF r.panic \/ r.rest = <<>> \/ peek(r.rest, {"|", ")", "&", ";"}) THEN r
  ELSE IF ~ Word(r.rest) \/ argc + 1 >= MAXARGS THEN Panic
  ELSE Args(parseredirs(Parsed(Arg(r.cmd, Head(r.rest)), Tail(r.rest))), argc + 1)

\* The left part is parsed; if the next token is tok, so is the right one.
Joined(l, tok, Join(_, _), Right(_)) ==
  IF l.panic \/ ~ peek(l.rest, {tok}) THEN l
  ELSE LET r == Right(Tail(l.rest)) IN
       IF r.panic THEN Panic ELSE Parsed(Join(l.cmd, r.cmd), r.rest)

RECURSIVE Backs(_)
Backs(r) == IF r.panic \/ ~ peek(r.rest, {"&"}) THEN r
            ELSE Backs(Parsed(backcmd(r.cmd), Tail(r.rest)))

RECURSIVE parseline(_), parsepipe(_), parseblock(_), parseexec(_)
parseline(s) == Joined(Backs(parsepipe(s)), ";", listcmd, parseline)
parsepipe(s) == Joined(parseexec(s), "|", pipecmd, parsepipe)
parseblock(s) == LET r == parseline(Tail(s)) IN
  IF r.panic \/ ~ peek(r.rest, {")"}) THEN Panic
  ELSE parseredirs(Parsed(r.cmd, Tail(r.rest)))
parseexec(s) == IF peek(s, {"("}) THEN parseblock(s)
                ELSE Args(parseredirs(Parsed(execcmd(<<>>), s)), 0)

\* Nothing may be left over.
parsecmd(s) == LET r == parseline(s) IN IF r.rest # <<>> THEN Panic ELSE r

----------------------------------------------------------------------------
(* Running.                                                                *)

fork1(child) == Must(fork(child))

\* What exec makes of the process; a command that is not there is reported, and the
\* report left out, as are all messages of errors.
exec(argv) ==
  LET name == Head(argv)  args == Tail(argv) IN
  CASE name = "echo" -> echo(args)
    [] name = "cat" -> cat(args)
    [] name = "wc" -> wc(args)
    [] OTHER -> <<>>

\* Mutant: the write end stays open in the process that reads.
Ends_kept == <<close("p0")>>

\* Neither end is needed under its first name.
Ends == <<close("p0"), close("p1")>>

\* A command's side of a pipe takes the place of the descriptor fd.
Side(fd, p, body) == <<close(fd), dup(p)>> \o Ends \o body

RECURSIVE runcmd(_)
runcmd(cmd) ==
  CASE cmd.type = "EXEC" -> IF cmd.argv = <<>> THEN <<>> ELSE exec(cmd.argv)
    [] cmd.type = "REDIR" ->
         <<close(cmd.fd), Must(open(cmd.file, cmd.create))>> \o runcmd(cmd.cmd)
    [] cmd.type = "LIST" -> <<fork1(runcmd(cmd.left)), wait>> \o runcmd(cmd.right)
    [] cmd.type = "PIPE" ->
         <<Must(pipe), fork1(Side("out", "p1", runcmd(cmd.left))),
           fork1(Side("in", "p0", runcmd(cmd.right)))>> \o Ends \o <<wait, wait>>
    [] cmd.type = "BACK" -> <<fork1(runcmd(cmd.cmd))>>

Line(s) == LET r == parsecmd(s) IN
  IF r.panic THEN <<>> ELSE runcmd(r.cmd)

\* main: a process for each line.
sh(lines) == FlattenSeq([j \in DOMAIN lines |-> <<fork1(Line(lines[j])), wait>>])

----------------------------------------------------------------------------
(* The shell of proj_shell: the commands of a line, between ";", run at the *)
(* same time, and the next line when all of them have ended.  A token " "   *)
(* is a blank that belongs to no word.                                      *)

\* strtok(command, ";"): there are no empty pieces.
RECURSIVE Pieces(_)
Pieces(s) ==
  LET n == SelectInSeq(s, LAMBDA t : t = ";") IN
  IF s = <<>> THEN <<>> ELSE IF n = 0 THEN <<s>>
  ELSE (IF n = 1 THEN <<>> ELSE <<SubSeq(s, 1, n - 1)>>) \o Pieces(SubSeq(s, n + 1, Len(s)))

Words(piece) == SelectSeq(piece, LAMBDA t : t # " ")

\* execvp of the words; a piece of blanks has none.
Piece(piece) == LET argv == Words(piece) IN IF argv = <<>> THEN <<>> ELSE exec(argv)

Commands(s) == LET pieces == Pieces(s) IN
  [j \in DOMAIN pieces |-> Must(fork(Piece(pieces[j])))] \o <<waits>>

UntilQuit(lines) ==
  LET n == SelectInSeq(lines, LAMBDA s : s = <<"quit">>) IN
  IF n = 0 THEN lines ELSE SubSeq(lines, 1, n - 1)

interactive(lines) == LET L == UntilQuit(lines) IN
  FlattenSeq([j \in DOMAIN L |-> printf("prompt>") \o Commands(L[j])]) \o printf("prompt>")

\* At the end of a file with a newline feof is still false: what is left of the last
\* line, its first command, is run once more, without its last character.  (If there is
\* none, the code writes in front of its buffer; no file here ends so.)
Chopped(s) ==
  LET words == Words(s)  w == Last(words) IN
  Front(words) \o (IF Len(w) = 1 THEN <<>> ELSE <<SubSeq(w, 1, Len(w) - 1)>>)
Again(lines) ==
  IF UntilQuit(lines) # lines \/ Pieces(Last(lines)) = <<>> THEN lines
  ELSE Append(lines, Chopped(Pieces(Last(lines))[1]))

batch(lines) == LET L == UntilQuit(Again(lines)) IN
  FlattenSeq([j \in DOMAIN L |-> printf("line") \o Commands(L[j])])

----------------------------------------------------------------------------
(* What a line means: what it writes to its standard output, given what it  *)
(* reads and the files there are, as a set, because commands that run at    *)
(* the same time may take turns.                                            *)

\* Sequences that are made of x and y, each in its order.
RECURSIVE Merges(_, _)
Merges(x, y) ==
  IF x = <<>> THEN {y} ELSE IF y = <<>> THEN {x}
  ELSE {<<Head(x)>> \o m : m \in Merges(Tail(x), y)}
       \cup {<<Head(y)>> \o m : m \in Merges(x, Tail(y))}

Said(out, files) == [out |-> out, files |-> files]

\* A write from the start of a file, over what it holds.
Over(old, new) == new \o SubSeq(old, Len(new) + 1, Len(old))

\* What cat and wc read, one piece per file; they end at one that is not there.
Input(args, in, files) ==
  IF args = <<>> THEN <<in>>
  ELSE LET missing == SelectInSeq(args, LAMBDA a : a \notin DOMAIN files)
           n == IF missing = 0 THEN Len(args) ELSE missing - 1 IN
       [j \in 1 .. n |-> files[args[j]]]

RECURSIVE Means(_, _, _)
Means(cmd, in, files) ==
  CASE cmd.type = "EXEC" ->
         LET argv == cmd.argv  args == IF argv = <<>> THEN <<>> ELSE Tail(argv) IN
         { CASE argv = <<>> -> Said(<<>>, files)
             [] argv[1] = "echo" -> Said(args, files)
             [] argv[1] = "cat" -> Said(FlattenSeq(Input(args, in, files)), files)
             [] argv[1] = "wc" -> LET inputs == Input(args, in, files) IN
                  Said([j \in DOMAIN inputs |-> ToString(Len(inputs[j]))], files)
             [] OTHER -> Said(<<>>, files) }
    [] cmd.type = "REDIR" /\ cmd.fd = "in" ->
         IF cmd.file \in DOMAIN files THEN Means(cmd.cmd, files[cmd.file], files)
         ELSE {Said(<<>>, files)}
    [] cmd.type = "REDIR" /\ cmd.fd = "out" ->
         LET old == IF cmd.file \in DOMAIN files THEN files[cmd.file] ELSE <<>> IN
         {Said(<<>>, (cmd.file :> Over(old, m.out)) @@ m.files) :
            m \in Means(cmd.cmd, in, (cmd.file :> old) @@ files)}
    [] cmd.type = "LIST" ->
         UNION { LET later == Means(cmd.right, <<>>, m.files) IN
                 IF cmd.left.type = "BACK"
                 THEN UNION {{Said(o, r.files) : o \in Merges(m.out, r.out)} : r \in later}
                 ELSE {Said(m.out \o r.out, r.files) : r \in later}
                 : m \in Means(cmd.left, in, files) }
    [] cmd.type = "PIPE" ->
         UNION {Means(cmd.right, m.out, m.files) : m \in Means(cmd.left, in, files)}
    [] cmd.type = "BACK" -> Means(cmd.cmd, in, files)
=============================================================================
