-------------------------- MODULE MemoryParameters --------------------------
(***************************************************************************)
(* The sizes of Memory, and the programs, executables and tests of a run.   *)
(***************************************************************************)
EXTENDS Integers, Sequences, FiniteSets, SequencesExt

CONSTANTS NPROC, PGSIZE,
          NPTENTRIES,   \* entries of a page table
          NUPDE, NKPDE, \* entries of a page directory: for the user, for the kernel
          MAXARG,
          Images,       \* path -> segments of the ELF file
          Programs,     \* name -> sequence of instructions
          Tests,        \* [prog |-> what initcode is, frames |-> pages of memory]
          MINUNITS      \* what morecore asks for at least: 4096

ASSUME MemoryAssumption ==
  /\ {NPROC, PGSIZE, NPTENTRIES, NUPDE, NKPDE, MAXARG, MINUNITS} \subseteq Nat \ {0}
  /\ \A t \in Tests : t.prog \in DOMAIN Programs /\ t.frames > NKPDE + 3

\* The addresses of the user are those below.
KERNBASE == NUPDE * NPTENTRIES * PGSIZE
=============================================================================
