----------------------------- MODULE MCFileData -----------------------------
(* The disk mkfs makes, and bounds for the runs of FileData.               *)
EXTENDS FileData, TLC

CONSTANTS LOGSIZE, NINODES, IPB,
          Inputs   \* the contents of the files mkfs is given

Image == INSTANCE Mkfs
ASSUME Image!MkfsAssumption

MCDisk == Image!Image
MCMeta == 1 .. Image!nmeta - 1

\* The root has an entry for each file, and is padded; other files are the inputs, or new.
MCHost == [f \in Files |->
  LET named == Len(Inputs) IN
  CASE f = ROOTINO -> <<1, 1>> \o [j \in 1 .. named |-> j + 1]
                      \o [j \in 1 .. BSIZE - ((named + 2) % BSIZE) |-> 0]
    [] f - 1 \in 1 .. named -> Inputs[f - 1]
    [] OTHER -> <<>>]

MCInputs == << <<9, 9, 9>> >>
Nothing == [sizes |-> {}, writes |-> 0, removes |-> 0]
Root(n) == [Nothing EXCEPT !.writes = n]
Process(sizes, n, m) == [sizes |-> sizes, writes |-> n, removes |-> m]

MCFiles == 1 .. 3
\* One process removes what another works beside; the root gains and loses entries;
\* a file grows to the largest there can be.
MCWorkloads == {
  <<Root(0), Process({3}, 1, 1), Process({3, 12}, 2, 0)>>,
  <<Root(0), Process({}, 0, 1), Process({3, 12}, 2, 1)>>,
  <<Root(0), Process({3}, 1, 1), Process({12}, 1, 1)>>,
  <<Root(3), Process({}, 0, 1), Process({3}, 1, 1)>>,
  <<Root(0), Nothing, Process({16}, 2, 1)>>}

MCFilesHuge == 1 .. 2
MCInputsHuge == << <<9>> >>
MCHuge == {<<Root(0), Process({1, 190}, 2, 0)>>}
=============================================================================
