-------------------------- MODULE MachineParameters --------------------------
(***************************************************************************)
(* The machine that the kernel of proj_filesystem starts on, and the system *)
(* calls that its processes will make: the parameters of Machine.           *)
(***************************************************************************)
EXTENDS Integers, Sequences, FiniteSets, SequencesExt

CONSTANTS Apics,      \* the processors there may be, by the ID of their local APIC
          BSP,        \* the one that starts
          NCPU, NSLOT,  \* of cpus and of ptable
          LowPages,   \* pages of memory that entrypgdir maps
          Scenarios   \* ebda, base, rom: "good", "bad" or "none", what mpsearch finds there
                      \* (no EBDA: "absent"); table: the entries mpinit finds; pages of
                      \* memory; work: slot of ptable -> the calls of its process;
                      \* interrupts: bound, how many there will be of the timer

Procs == 1 .. NSLOT

ASSUME MachineAssumption ==
  /\ IsFiniteSet(Apics) /\ Apics \subseteq Nat /\ BSP \in Apics
  /\ {NCPU, NSLOT} \subseteq Nat \ {0} /\ LowPages \in Nat
  /\ \A s \in Scenarios :
       /\ s.pages \in Nat /\ LowPages <= s.pages /\ s.interrupts \in Nat /\ DOMAIN s.work = Procs
       /\ \A p \in Procs : s.work[p] \in Seq([op : {"fork", "wait", "kill", "sleep", "read", "exit"}, n : Int])
       /\ s.table \in Seq([type : STRING, apicid : Apics])
       \* no processor is there twice
       /\ \A j, k \in 1 .. Len(s.table) :
            s.table[j].type = "MPPROC" /\ s.table[k].type = "MPPROC" /\ s.table[j].apicid = s.table[k].apicid => j = k
=============================================================================
