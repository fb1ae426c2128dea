------------------------------ MODULE MCFiles ------------------------------
(* Workloads and bounds for the run of Files.                              *)
EXTENDS Files, TLC

CONSTANT MAXARGS

Sh == INSTANCE Shell

Lines == [
  pipeline |-> << <<"echo", "a", "b", "c", "|", "cat">> >>,
  redirect |-> << <<"echo", "a", "b", ">", "f">>, <<"echo", "c", ">>", "f", ";", "wc", "<", "f">>,
                  <<"cat", "f", "f", "|", "(", "cat", ")">>, <<"cat", "<", "none">>, <<"wc", "f", "none", "f">> >>,
  lists |-> << <<"(", "echo", "a", ";", "echo", "b", ")", "|", "wc">>,
               <<"echo", "a", "&", ";", "echo", "b">> >>,
  deaf |-> << <<"echo", "a", "b", "c", "d", "|", "echo", "x">> >>,
  wrong |-> << <<"echo", "a", "&", "echo", "b">>, <<"(", "echo">>, <<">", "|">>, <<"nothing">>,
               <<>>, <<"|", "cat">>, <<"echo", "1", "2", "3", "4", "5", "6">> >>]

Batches == [
  batch |-> << <<"echo", "a", ";", ";", " ", ";", "echo", "b", "c">>, <<"echo", "d">> >>,
  quit |-> << <<"echo", "a", ";", "echo", "b">>, <<"quit">>, <<"echo", "d">> >>]

Small == [known |-> FALSE, NPROC |-> 3, NOFILE |-> 3, NFILE |-> 4, NPIPE |-> 1]
Large == [known |-> TRUE, NPROC |-> 7, NOFILE |-> 5, NFILE |-> 5, NPIPE |-> 2]

MCMain ==
  [w \in DOMAIN Lines |-> Sh!init(Sh!sh(Lines[w]))]
  @@ [w \in DOMAIN Batches |-> Sh!init(Sh!batch(Batches[w]))]
  @@ [free |-> Sh!init(<<Prog!AnyCall>>), pipe1 |-> Sh!init(Sh!pipe1), preempt |-> Sh!init(Sh!preempt),
      interactive |-> Sh!init(Sh!interactive(Batches.quit))]

MCSizes == [w \in DOMAIN MCMain |-> (IF w = "free" THEN Small ELSE Large) @@ [name |-> w]]

RECURSIVE CallsOf(_)
CallsOf(prog) == ToSet(prog) \cup UNION {CallsOf(c.child) : c \in ToSet(prog)}
MCCalls == {Prog!AnyCall} \cup UNION {CallsOf(MCMain[w]) : w \in DOMAIN MCMain}

\* The lines of a session as one list.
RECURSIVE Session(_, _)
Session(lines, files) ==
  IF lines = <<>> THEN {Sh!Said(<<>>, files)}
  ELSE LET r == Sh!parsecmd(Head(lines)) IN
       UNION { {Sh!Said(m.out \o n.out, n.files) : n \in Session(Tail(lines), m.files)}
               : m \in IF r.panic THEN {Sh!Said(<<>>, files)} ELSE Sh!Means(r.cmd, <<>>, files) }

\* What the commands of a line that run at the same time write.
RECURSIVE Together(_)
Together(outs) == IF outs = <<>> THEN {<<>>}
  ELSE UNION {Sh!Merges(Head(outs), o) : o \in Together(Tail(outs))}

Out(piece) == IF Sh!Words(piece) = <<>> THEN <<>>
  ELSE (CHOOSE m \in Sh!Means(Sh!execcmd(Sh!Words(piece)), <<>>, << >>) : TRUE).out

RECURSIVE Printed(_, _, _)
Printed(lines, mark, end) ==
  IF lines = <<>> THEN {end}
  ELSE LET pieces == Sh!Pieces(Head(lines)) IN
       UNION { {<<mark>> \o o \o more : o \in Together([j \in DOMAIN pieces |-> Out(pieces[j])])}
               : more \in Printed(Tail(lines), mark, end) }

MCHolds(w, files) ==
  LET out == files["console"] IN
  CASE w \in DOMAIN Lines ->
         Sh!Said(out, [f \in DOMAIN files \ {"console"} |-> files[f]]) \in Session(Lines[w], << >>)
    [] w = "batch" -> out \in Printed(Append(Batches[w], <<"echo">>), "line", <<>>)
    [] w = "quit" -> out \in Printed(SubSeq(Batches[w], 1, 1), "line", <<>>)
    [] w = "interactive" -> out \in Printed(SubSeq(Batches.quit, 1, 1), "prompt>", <<"prompt>">>)
    [] OTHER -> out = <<w \o " ok">>

MCPayloads == {<<1>>, <<1, 2, 3>>}
MCReads == {1, 2}
=============================================================================
