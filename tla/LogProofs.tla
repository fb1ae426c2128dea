----------------------------- MODULE LogProofs -----------------------------
(***************************************************************************)
(* Proofs about the redo log: LogInv's invariant is inductive, and the     *)
(* safety properties that the runs check follow from it for any number of  *)
(* operations, blocks and crashes, and any size of the log.                *)
(***************************************************************************)
EXTENDS LogInv, FiniteSetTheorems, TLAPS

\* Every step of the log keeps its variables in their types.
LEMMA TypeStep ==
  ASSUME TypeOK, CountInv, Len(lh) <= LOGSIZE, [Next]_vars
  PROVE  TypeOK'
<1> USE LogAssumption DEF TypeOK, Actors, Content, Goto
<1>1. ASSUME NEW o \in Ops, call_op(o) PROVE TypeOK'
  BY <1>1 DEF call_op, diskVars, memVars, lockVars
<1>2. ASSUME NEW o \in Ops, begin_op_sleep(o) PROVE TypeOK'
  BY <1>2 DEF begin_op_sleep, diskVars, memVars, lockVars
<1>3. ASSUME NEW o \in Ops, begin_op(o) PROVE TypeOK'
  BY <1>3 DEF begin_op, diskVars, memVars, lockVars
<1>4. ASSUME NEW o \in Ops, NEW b \in Blocks, log_write(o, b) PROVE TypeOK'
  BY <1>4 DEF log_write, diskVars, memVars, lockVars
<1>5. ASSUME NEW o \in Ops, log_append(o) PROVE TypeOK'
  <2>1. arg[o] \in Blocks
    BY <1>5 DEF log_append, CountInv
  <2>2. lh' \in Seq(Blocks)
    BY <1>5, <2>1 DEF log_append, Absorb
  <2>3. dirty' \subseteq Blocks /\ cache' \in [Blocks -> Content]
    BY <1>5, <2>1 DEF log_append
  <2>4. wrote' \in [Ops -> SUBSET Blocks]
    BY <1>5, <2>1 DEF log_append
  <2> QED
    BY <1>5, <2>2, <2>3, <2>4 DEF log_append, diskVars, lockVars
<1>6. ASSUME NEW o \in Ops, end_op(o) PROVE TypeOK'
  <2>1. o \in Counted /\ Counted \subseteq Ops
    BY <1>6 DEF end_op, Counted
  <2>2. outstanding # 0
    BY <2>1, FS_Subset, FS_EmptySet DEF CountInv
  <2>3. outstanding' \in Nat
    BY <1>6, <2>2 DEF end_op, Released
  <2>4. pc' \in [Actors -> {"idle", "begin", "asleep", "run", "append", "commit",
                        "write_log", "write_head", "install_trans", "clear",
                        "erase", "unlock", "done", "dead", "read_head", "up",
                        "panic"}]
    BY <1>6 DEF end_op, Woken
  <2> QED
    BY <1>6, <2>3, <2>4 DEF end_op, diskVars, memVars
<1>7. ASSUME NEW o \in Ops, end_op_unlock(o) PROVE TypeOK'
  BY <1>7 DEF end_op_unlock, Woken, diskVars, memVars
<1>8. ASSUME NEW s \in Syncers, sys_sync(s) PROVE TypeOK'
  BY <1>8 DEF sys_sync, diskVars, memVars, lockVars
<1>9. ASSUME NEW a \in Actors, commit(a) PROVE TypeOK'
  BY <1>9 DEF commit, Return, diskVars, memVars, lockVars
<1>10. ASSUME NEW a \in Actors, write_log(a) \/ write_log_done(a) PROVE TypeOK'
  <2>1. CASE write_log(a)
    <3>1. lh[tail[a] + 1] \in Blocks
      BY <2>1 DEF write_log, InLoop
    <3>2. cache[lh[tail[a] + 1]] \in Content
      BY <3>1
    <3>3. /\ logd' = [logd EXCEPT ![tail[a] + 1] = cache[lh[tail[a] + 1]]]
          /\ tail' = [tail EXCEPT ![a] = tail[a] + 1]
      BY <2>1 DEF write_log, Slot
    <3>4. logd' \in [Slots -> Content]
      BY <3>2, <3>3
    <3>5. tail' \in [Actors -> Nat]
      BY <3>3
    <3> QED
      BY <2>1, <3>4, <3>5 DEF write_log, memVars, lockVars
  <2>2. CASE write_log_done(a)
    BY <2>2 DEF write_log_done, diskVars, memVars, lockVars
  <2> QED
    BY <1>10, <2>1, <2>2
<1>11. ASSUME NEW a \in Actors, write_head(a) PROVE TypeOK'
  BY <1>11 DEF write_head, memVars, lockVars
<1>12. ASSUME NEW a \in Actors, install_trans(a) \/ install_trans_done(a)
       PROVE TypeOK'
  <2>1. CASE install_trans(a)
    <3>1. lh[tail[a] + 1] \in Blocks /\ logd[tail[a] + 1] \in Content
      BY <2>1 DEF install_trans, InLoop, Slots
    <3> QED
      BY <2>1, <3>1 DEF install_trans, Slot, lockVars
  <2>2. CASE install_trans_done(a)
    BY <2>2 DEF install_trans_done, diskVars, memVars, lockVars
  <2> QED
    BY <1>12, <2>1, <2>2
<1>13. ASSUME NEW a \in Actors, clear(a) PROVE TypeOK'
  BY <1>13 DEF clear, diskVars, lockVars
<1>14. ASSUME NEW a \in Actors, erase(a) PROVE TypeOK'
  BY <1>14 DEF erase, Return, memVars, lockVars
<1>15. CASE read_head
  BY <1>15 DEF read_head, diskVars, lockVars
<1>16. ASSUME NEW b \in Blocks, bget_recycle(b) PROVE TypeOK'
  BY <1>16 DEF bget_recycle, diskVars, lockVars
<1>17. ASSUME Crash PROVE TypeOK'
  <2>1. pc' \in [Actors -> {"idle", "begin", "asleep", "run", "append", "commit",
                        "write_log", "write_head", "install_trans", "clear",
                        "erase", "unlock", "done", "dead", "read_head", "up",
                        "panic"}]
    BY <1>17 DEF Crash
  <2>2. /\ tail' \in [Actors -> Nat] /\ arg' \in [Ops -> Blocks \cup {NoBlock}]
        /\ crashes' \in 0..MaxCrashes
    BY <1>17 DEF Crash
  <2>3. lh' \in Seq(Blocks) /\ dirty' \subseteq Blocks
    BY <1>17 DEF Crash
  <2> QED
    BY <1>17, <2>1, <2>2, <2>3 DEF Crash, diskVars
<1>18. CASE UNCHANGED vars
  BY <1>18 DEF vars
<1> QED
  BY <1>1, <1>2, <1>3, <1>4, <1>5, <1>6, <1>7, <1>8, <1>9, <1>10, <1>11, <1>12,
     <1>13, <1>14, <1>15, <1>16, <1>17, <1>18
  DEF Next, OpStep, CommitStep, Terminated

\* log.outstanding counts the operations in progress and log.committing is set
\* exactly while one of them commits, whatever sync does.
LEMMA CountStep ==
  ASSUME TypeOK, CountInv, [Next]_vars
  PROVE  CountInv'
<1>a. IsFiniteSet(Counted) /\ Counted \subseteq Ops
  BY LogAssumption, FS_Subset DEF Counted
<1>b. pc \in [Actors -> {"idle", "begin", "asleep", "run", "append", "commit",
                        "write_log", "write_head", "install_trans", "clear",
                        "erase", "unlock", "done", "dead", "read_head", "up",
                        "panic"}]
  BY DEF TypeOK
<1>c. arg \in [Ops -> Blocks \cup {NoBlock}]
  BY DEF TypeOK
<1>d. Ops \cap Syncers = {} /\ Boot \notin Ops /\ Boot \notin Syncers /\ NoBlock \notin Blocks
  BY LogAssumption
<1> USE <1>b, <1>c, <1>d DEF Actors, Goto, CommitPCs
<1>1. ASSUME NEW o \in Ops, call_op(o) \/ begin_op_sleep(o) PROVE CountInv'
  <2>1. Counted' = Counted
    BY <1>1 DEF call_op, begin_op_sleep, Counted
  <2> QED
    BY <1>1, <2>1 DEF call_op, begin_op_sleep, CountInv, lockVars
<1>2. ASSUME NEW o \in Ops, begin_op(o) PROVE CountInv'
  <2>1. Counted' = Counted \cup {o} /\ o \notin Counted
    BY <1>2 DEF begin_op, Counted
  <2>2. Cardinality(Counted') = Cardinality(Counted) + 1
    BY <2>1, <1>a, FS_AddElement
  <2>3. ~ committing
    BY <1>2 DEF begin_op, MustWait
  <2> QED
    BY <1>2, <2>2, <2>3 DEF begin_op, CountInv
<1>3. ASSUME NEW o \in Ops, NEW b \in Blocks, log_write(o, b) PROVE CountInv'
  <2>1. Counted' = Counted
    BY <1>3 DEF log_write, Counted
  <2> QED
    BY <1>3, <2>1 DEF log_write, CountInv, lockVars
<1>4. ASSUME NEW o \in Ops, log_append(o) PROVE CountInv'
  <2>1. Counted' = Counted
    BY <1>4 DEF log_append, Counted
  <2> QED
    BY <1>4, <2>1 DEF log_append, CountInv, lockVars
<1>5. ASSUME NEW o \in Ops, end_op(o) PROVE CountInv'
  <2>1. o \in Counted /\ ~ committing
    BY <1>5 DEF end_op, Counted, CountInv
  <2>2. Counted' = Counted \ {o}
    BY <1>5, <2>1 DEF end_op, Counted, Woken
  <2>3. Cardinality(Counted') = Cardinality(Counted) - 1 /\ Cardinality(Counted) \in Nat
    BY <2>1, <2>2, <1>a, FS_RemoveElement, FS_CardinalityType
  <2>4. outstanding' = Cardinality(Counted')
    BY <1>5, <2>3 DEF end_op, Released, CountInv
  <2>5. pc[Boot] = "up"
    BY <1>5 DEF end_op, CountInv
  <2>6. CASE LastOut
    <3>1. Counted' = {}
      BY <2>6, <1>5, <2>2, <2>4, <1>a, FS_Subset, FS_EmptySet DEF LastOut, Released, end_op
    <3>2. committing' /\ pc' = [pc EXCEPT ![o] = "commit"] /\ arg' = arg
      BY <1>5, <2>1, <2>6 DEF end_op
    <3> QED
      BY <1>5, <2>1, <2>4, <2>5, <3>1, <3>2 DEF CountInv, end_op
  <2>7. CASE ~ LastOut
    <3>1. ~ committing' /\ pc' = Woken([pc EXCEPT ![o] = "done"]) /\ arg' = arg
      BY <1>5, <2>1, <2>7 DEF end_op, TypeOK
    <3>2. \A p \in Ops : \/ pc'[p] = pc[p]
                         \/ pc[p] = "asleep" /\ pc'[p] = "begin"
                         \/ p = o /\ pc'[p] = "done"
      BY <3>1 DEF Woken
    <3>3. pc'[Boot] = pc[Boot]
      BY <3>1, <2>5 DEF Woken
    <3>4. \A p \in Ops : /\ pc'[p] \notin CommitPCs \cup {"read_head", "up"}
                         /\ arg'[p] # NoBlock <=> pc'[p] = "append"
      BY <1>5, <2>1, <3>1, <3>2 DEF CountInv, end_op
    <3> QED
      BY <2>4, <2>5, <3>1, <3>3, <3>4 DEF CountInv
  <2> QED
    BY <2>6, <2>7
<1>6. ASSUME NEW o \in Ops, end_op_unlock(o) PROVE CountInv'
  <2>1. \A p \in Ops : \/ pc'[p] = pc[p]
                       \/ pc[p] = "asleep" /\ pc'[p] = "begin"
                       \/ p = o /\ pc'[p] = "done"
    BY <1>6 DEF end_op_unlock, Woken
  <2>2. pc[Boot] = "up" /\ pc'[Boot] = "up"
    BY <1>6 DEF end_op_unlock, Woken, CountInv
  <2>3. Counted' = Counted /\ pc[o] = "unlock" /\ pc'[o] = "done"
    BY <1>6, <2>1 DEF end_op_unlock, Woken, Counted
  <2>4. UNCHANGED <<outstanding, arg>> /\ ~ committing'
    BY <1>6 DEF end_op_unlock
  <2>5. \A p \in Ops : /\ pc'[p] \notin CommitPCs \cup {"read_head", "up"}
                       /\ arg'[p] # NoBlock <=> pc'[p] = "append"
    BY <2>1, <2>3, <2>4 DEF CountInv
  <2> QED
    BY <2>2, <2>3, <2>4, <2>5 DEF CountInv
<1>7. ASSUME NEW s \in Syncers, sys_sync(s) PROVE CountInv'
  <2>1. Counted' = Counted
    BY <1>7 DEF sys_sync, Counted
  <2> QED
    BY <1>7, <2>1 DEF sys_sync, CountInv, lockVars
<1>8. ASSUME NEW a \in Actors, CommitStep(a) PROVE CountInv'
  <2>1. pc[a] \in CommitPCs \ {"unlock"}
    BY <1>8 DEF CommitStep, commit, write_log, write_log_done, write_head,
                install_trans, install_trans_done, clear, erase
  <2>2. PICK l \in CommitPCs \cup {"up", "done"} :
          /\ pc' = [pc EXCEPT ![a] = l]
          /\ l = "up" => a = Boot /\ pc[a] = "erase"
          /\ a = Boot => l \in {"install_trans", "clear", "erase", "up"}
          /\ l = "done" => a \in Syncers
    BY <1>8 DEF CommitStep, commit, write_log, write_log_done, write_head, Return,
                install_trans, install_trans_done, clear, erase, CountInv
  <2>3. UNCHANGED <<outstanding, committing, arg>>
    BY <1>8 DEF CommitStep, commit, write_log, write_log_done, write_head,
                install_trans, install_trans_done, clear, erase, lockVars
  <2>4. Counted' = Counted
    BY <2>1, <2>2 DEF Counted
  <2>5. CASE a \in Ops
    BY <2>1, <2>2, <2>3, <2>4, <2>5 DEF CountInv
  <2>6. CASE a \in Syncers
    BY <2>1, <2>2, <2>3, <2>4, <2>6 DEF CountInv
  <2>7. CASE a = Boot
    BY <2>1, <2>2, <2>3, <2>4, <2>7 DEF CountInv
  <2> QED
    BY <2>5, <2>6, <2>7
<1>9. CASE read_head
  <2>1. Counted' = Counted
    BY <1>9 DEF read_head, Counted
  <2> QED
    BY <1>9, <2>1 DEF read_head, CountInv, lockVars
<1>10. ASSUME NEW b \in Blocks, bget_recycle(b) PROVE CountInv'
  BY <1>10 DEF bget_recycle, CountInv, Counted, lockVars
<1>11. ASSUME Crash PROVE CountInv'
  <2>1. \A a \in Ops \cup Syncers : pc'[a] \in {"idle", "done", "dead"}
    BY <1>11 DEF Crash
  <2>2. Counted' = {} /\ pc'[Boot] = "read_head"
    BY <1>11, <2>1 DEF Crash, Counted
  <2>3. outstanding' = Cardinality(Counted')
    BY <1>11, <2>2, FS_EmptySet DEF Crash
  <2>4. ~ committing' /\ \A o \in Ops : arg'[o] = NoBlock
    BY <1>11 DEF Crash
  <2> QED
    BY <2>1, <2>2, <2>3, <2>4 DEF CountInv
<1>12. CASE UNCHANGED vars
  BY <1>12 DEF vars, CountInv, Counted
<1> QED
  BY <1>1, <1>2, <1>3, <1>4, <1>5, <1>6, <1>7, <1>8, <1>9, <1>10, <1>11, <1>12
  DEF Next, OpStep, Terminated

\* Tokens is finite, and tokens lost never hurt.
LEMMA TokensFinite ==
  ASSUME TypeOK
  PROVE  IsFiniteSet(Tokens) /\ Cardinality(Tokens) \in Nat
<1>1. IsFiniteSet(1..MAXOPBLOCKS)
  BY LogAssumption, FS_Interval
<1>2. IsFiniteSet(Ops \X (1..MAXOPBLOCKS))
  BY <1>1, LogAssumption, FS_Product
<1> QED
  BY <1>2, FS_Subset, FS_CardinalityType DEF Tokens

LEMMA TokensShrink ==
  ASSUME TypeOK, Tokens' \subseteq Tokens
  PROVE  Cardinality(Tokens') \in Nat /\ Cardinality(Tokens') <= Cardinality(Tokens)
BY TokensFinite, FS_Subset, FS_CardinalityType

\* begin_op's test reserves MAXOPBLOCKS blocks for the new operation and leaves
\* room for the operations in progress.
LEMMA BeginReserves ==
  ASSUME TypeOK, CountInv, SpaceInv, NEW o \in Ops, begin_op(o)
  PROVE  Len(lh) + Cardinality(Tokens') <= LOGSIZE /\ Cardinality(Tokens') \in Nat
<1> DEFINE P == (Counted \cup {o}) \X (1..MAXOPBLOCKS)
<1>1. Counted' = Counted \cup {o} /\ o \notin Counted /\ Counted \subseteq Ops
  BY DEF begin_op, Counted, TypeOK, Goto, Actors
<1>2. IsFiniteSet(Counted)
  BY <1>1, LogAssumption, FS_Subset
<1>3. /\ IsFiniteSet(Counted \cup {o})
      /\ Cardinality(Counted \cup {o}) = outstanding + 1
  BY <1>1, <1>2, FS_AddElement DEF CountInv
<1>4. IsFiniteSet(1..MAXOPBLOCKS) /\ Cardinality(1..MAXOPBLOCKS) = MAXOPBLOCKS
  BY LogAssumption, FS_Interval
<1>5. IsFiniteSet(P) /\ Cardinality(P) = (outstanding + 1) * MAXOPBLOCKS
  <2>1. /\ IsFiniteSet(P)
        /\ Cardinality(P) = Cardinality(Counted \cup {o}) * Cardinality(1..MAXOPBLOCKS)
    BY <1>3, <1>4, FS_Product, Zenon
  <2> QED
    BY <2>1, <1>3, <1>4
<1>6. Tokens' \subseteq P
  BY <1>1 DEF Tokens
<1>7. Cardinality(Tokens') \in Nat /\ Cardinality(Tokens') <= Cardinality(P)
  BY <1>5, <1>6, FS_Subset, FS_CardinalityType
<1>8. ~ (Len(lh) + (outstanding + 1) * MAXOPBLOCKS > LOGSIZE)
  BY DEF begin_op, MustWait, MightExhaustLog
<1>9. Len(lh) \in Nat /\ (outstanding + 1) * MAXOPBLOCKS \in Nat /\ LOGSIZE \in Nat
  BY LogAssumption DEF TypeOK
<1> QED
  BY <1>5, <1>7, <1>8, <1>9

\* A block that is new to the log spends one token of its operation.
LEMMA AppendSpends ==
  ASSUME TypeOK, CountInv, SpaceInv, Disciplined, NEW o \in Ops, log_append(o)
  PROVE  /\ Len(lh') + Cardinality(Tokens') <= LOGSIZE
         /\ Cardinality(Tokens') \in Nat
         /\ IsFiniteSet(wrote'[o])
<1> DEFINE b == arg[o]
           c == Cardinality(wrote[o])
<1>1. b \in Blocks /\ o \in Counted /\ IsFiniteSet(wrote[o])
  BY DEF log_append, CountInv, TypeOK, SpaceInv, Counted
<1>2. wrote' = [wrote EXCEPT ![o] = wrote[o] \cup {b}] /\ Counted' = Counted
  BY DEF log_append, Counted, Goto, TypeOK, Actors
<1>3. \A p \in Ops : p # o => wrote'[p] = wrote[p]
  BY <1>2 DEF TypeOK
<1>4. wrote'[o] = wrote[o] \cup {b}
  BY <1>2 DEF TypeOK
<1>5. /\ IsFiniteSet(wrote'[o]) /\ c \in Nat
      /\ Cardinality(wrote'[o]) = IF b \in wrote[o] THEN c ELSE c + 1
  <2>1. c \in Nat
    BY <1>1, FS_CardinalityType
  <2>2. IsFiniteSet(wrote[o] \cup {b})
    BY <1>1, FS_AddElement
  <2>3. CASE b \in wrote[o]
    <3>1. wrote[o] \cup {b} = wrote[o]
      BY <2>3
    <3> QED
      BY <2>1, <2>2, <2>3, <3>1, <1>4
  <2>4. CASE b \notin wrote[o]
    <3>1. Cardinality(wrote[o] \cup {b}) = c + 1
      BY <1>1, <2>4, FS_AddElement
    <3> QED
      BY <2>1, <2>2, <2>4, <3>1, <1>4
  <2> QED
    BY <2>3, <2>4
<1>6. Tokens' \subseteq Tokens
  <2>1. SUFFICES ASSUME NEW t \in Tokens' PROVE t \in Tokens
    OBVIOUS
  <2>2. CASE t[1] = o
    BY <1>2, <1>5, <2>2 DEF Tokens
  <2>3. CASE t[1] # o
    BY <1>2, <1>3, <2>3 DEF Tokens
  <2> QED
    BY <2>2, <2>3
<1>7. Len(lh) \in Nat /\ Cardinality(Tokens) \in Nat /\ LOGSIZE \in Nat
      /\ Len(lh) + Cardinality(Tokens) <= LOGSIZE
  BY TokensFinite, LogAssumption DEF TypeOK, SpaceInv
<1>8. CASE b \in RangeOf(lh)
  <2>1. lh' = lh
    BY <1>8 DEF log_append, Absorb
  <2> QED
    BY <1>5, <1>6, <1>7, <2>1, TokensShrink
<1>9. CASE b \notin RangeOf(lh)
  <2>1. Len(lh') = Len(lh) + 1
    BY <1>1, <1>9 DEF log_append, Absorb, TypeOK
  <2>2. b \notin wrote[o]
    BY <1>1, <1>9 DEF SpaceInv
  <2>3. c + 1 <= MAXOPBLOCKS
    <3>1. Cardinality(wrote[o] \cup {arg[o]}) <= OpBlocks
      BY DEF SpaceInv, log_append
    <3> QED
      BY <3>1, <1>4, <1>5, <2>2, LogAssumption DEF Disciplined
  <2>4. <<o, c + 1>> \in Tokens
    BY <1>1, <1>5, <2>3, LogAssumption DEF Tokens
  <2>5. <<o, c + 1>> \notin Tokens'
    BY <1>5, <2>2 DEF Tokens
  <2>6. Tokens' \subseteq Tokens \ {<<o, c + 1>>}
    BY <1>6, <2>5
  <2>7. /\ IsFiniteSet(Tokens \ {<<o, c + 1>>})
        /\ Cardinality(Tokens \ {<<o, c + 1>>}) = Cardinality(Tokens) - 1
    BY <2>4, TokensFinite, FS_RemoveElement
  <2>8. Cardinality(Tokens') \in Nat /\ Cardinality(Tokens') <= Cardinality(Tokens) - 1
    BY <2>6, <2>7, FS_Subset, FS_CardinalityType
  <2> QED
    BY <1>5, <1>7, <2>1, <2>8
<1> QED
  BY <1>8, <1>9

\* Appending adds one element to the range of a sequence.
LEMMA RangeAppend ==
  ASSUME NEW S, NEW s \in Seq(S), NEW x \in S
  PROVE  RangeOf(Append(s, x)) = RangeOf(s) \cup {x}
<1>1. Append(s, x) \in Seq(S) /\ Len(Append(s, x)) = Len(s) + 1
  OBVIOUS
<1>2. DOMAIN Append(s, x) = 1..Len(s)+1 /\ DOMAIN s = 1..Len(s)
  BY <1>1
<1>3. \A i \in 1..Len(s) : Append(s, x)[i] = s[i]
  OBVIOUS
<1>4. Append(s, x)[Len(s)+1] = x
  OBVIOUS
<1>5. 1..Len(s)+1 = 1..Len(s) \cup {Len(s)+1}
  OBVIOUS
<1> QED
  BY <1>2, <1>3, <1>4, <1>5 DEF RangeOf

\* A step that neither starts an operation nor touches the log or its history.
LEMMA SpaceKept ==
  ASSUME TypeOK, SpaceInv,
         lh' = lh, wrote' = wrote, Counted' \subseteq Counted,
         head' \in {head, lh},
         \A o \in Ops : /\ pc'[o] \in {"idle", "begin", "asleep"}
                             => pc[o] \in {"idle", "begin", "asleep"}
                        /\ pc'[o] = "append" => pc[o] = "append" /\ arg'[o] = arg[o]
  PROVE  SpaceInv'
<1>1. Tokens' \subseteq Tokens
  BY DEF Tokens
<1>2. Cardinality(Tokens') \in Nat /\ Cardinality(Tokens') <= Cardinality(Tokens)
      /\ Cardinality(Tokens) \in Nat
  BY <1>1, TokensShrink, TokensFinite
<1>3. Len(lh) \in Nat /\ LOGSIZE \in Nat
  BY LogAssumption DEF TypeOK
<1>4. Len(lh') + Cardinality(Tokens') <= LOGSIZE /\ Len(head') <= LOGSIZE
  BY <1>2, <1>3 DEF SpaceInv
<1> QED
  BY <1>4 DEF SpaceInv

\* The space reserved by begin_op suffices: the log never outgrows its header.
LEMMA SpaceStep ==
  ASSUME TypeOK, CountInv, SpaceInv, Disciplined, [Next]_vars
  PROVE  SpaceInv'
<1>a. pc \in [Actors -> {"idle", "begin", "asleep", "run", "append", "commit",
                        "write_log", "write_head", "install_trans", "clear",
                        "erase", "unlock", "done", "dead", "read_head", "up",
                        "panic"}]
  BY DEF TypeOK
<1>b. Len(lh) \in Nat /\ Len(head) \in Nat /\ LOGSIZE \in Nat /\ OpBlocks \in Nat
  BY LogAssumption DEF TypeOK
<1>c. Ops \cap Syncers = {} /\ Boot \notin Ops
  BY LogAssumption
<1> USE <1>a, <1>c DEF Actors, Goto
<1>1. ASSUME NEW o \in Ops, call_op(o) \/ begin_op_sleep(o) PROVE SpaceInv'
  BY <1>1, SpaceKept DEF call_op, begin_op_sleep, Counted, diskVars, memVars
<1>2. ASSUME NEW o \in Ops, begin_op(o) PROVE SpaceInv'
  <2>1. Len(lh) + Cardinality(Tokens') <= LOGSIZE
    BY <1>2, BeginReserves
  <2>2. pc' = [pc EXCEPT ![o] = "run"] /\ UNCHANGED <<lh, head, wrote, arg>>
        /\ pc[o] = "begin"
    BY <1>2 DEF begin_op, memVars, diskVars
  <2>3. \A p \in Ops : p \in Counted' => p \in Counted \/ p = o
    BY <2>2 DEF Counted
  <2> QED
    BY <2>1, <2>2, <2>3 DEF SpaceInv
<1>3. ASSUME NEW o \in Ops, NEW b \in Blocks, log_write(o, b) PROVE SpaceInv'
  <2>1. Tokens' \subseteq Tokens /\ Counted' = Counted
    BY <1>3 DEF log_write, Tokens, Counted
  <2>2. Len(lh') + Cardinality(Tokens') <= LOGSIZE
    BY <1>3, <1>b, <2>1, TokensShrink, TokensFinite DEF log_write, memVars, SpaceInv
  <2>3. \A p \in Ops : pc'[p] = "append" =>
          Cardinality(wrote[p] \cup {arg'[p]}) <= OpBlocks
    <3>1. CASE TooBig \/ outstanding < 1
      BY <1>3, <3>1 DEF log_write, SpaceInv
    <3>2. CASE ~ (TooBig \/ outstanding < 1)
      BY <1>3, <3>2 DEF log_write, SpaceInv, TypeOK
    <3> QED
      BY <3>1, <3>2
  <2> QED
    BY <1>3, <2>1, <2>2, <2>3 DEF log_write, SpaceInv, memVars, diskVars
<1>4. ASSUME NEW o \in Ops, log_append(o) PROVE SpaceInv'
  <2>1. Len(lh') + Cardinality(Tokens') <= LOGSIZE /\ IsFiniteSet(wrote'[o])
    BY <1>4, AppendSpends
  <2>2. arg[o] \in Blocks
    BY <1>4 DEF log_append, CountInv, TypeOK
  <2>3. RangeOf(lh') = RangeOf(lh) \cup {arg[o]}
    <3>1. lh \in Seq(Blocks) /\ lh' = Absorb(arg[o])
      BY <1>4 DEF log_append, TypeOK
    <3> QED
      BY <2>2, <3>1, RangeAppend DEF Absorb
  <2>4. wrote' = [wrote EXCEPT ![o] = wrote[o] \cup {arg[o]}] /\ wrote \in [Ops -> SUBSET Blocks]
        /\ arg' = [arg EXCEPT ![o] = NoBlock] /\ arg \in [Ops -> Blocks \cup {NoBlock}]
        /\ pc' = [pc EXCEPT ![o] = "run"] /\ pc[o] = "append" /\ head' = head
    BY <1>4 DEF log_append, TypeOK, diskVars
  <2>5. Counted' = Counted /\ o \in Counted
    BY <2>4 DEF Counted
  <2>6. ASSUME NEW p \in Ops
        PROVE  /\ IsFiniteSet(wrote'[p])
               /\ pc'[p] \in {"idle", "begin", "asleep"} => wrote'[p] = {}
               /\ p \in Counted' => wrote'[p] \subseteq RangeOf(lh')
               /\ pc'[p] = "append" => Cardinality(wrote'[p] \cup {arg'[p]}) <= OpBlocks
    <3>1. CASE p = o
      BY <2>1, <2>3, <2>4, <2>5, <3>1 DEF SpaceInv
    <3>2. CASE p # o
      BY <2>3, <2>4, <2>5, <3>2 DEF SpaceInv
    <3> QED
      BY <3>1, <3>2
  <2> QED
    BY <2>1, <2>4, <2>6 DEF SpaceInv
<1>5. ASSUME NEW o \in Ops, end_op(o) \/ end_op_unlock(o) PROVE SpaceInv'
  <2>1. \A p \in Ops : \/ pc'[p] = pc[p]
                       \/ pc[p] = "asleep" /\ pc'[p] = "begin"
                       \/ p = o /\ pc[p] \in {"run", "unlock"}
                          /\ pc'[p] \in {"panic", "commit", "done"}
    BY <1>5 DEF end_op, end_op_unlock, Woken
  <2>2. end_op(o) => ~ committing
    BY DEF end_op, CountInv, Counted
  <2>3. Counted' \subseteq Counted
    BY <1>5, <2>1, <2>2 DEF Counted, end_op, end_op_unlock, Woken
  <2> QED
    BY <1>5, <2>1, <2>3, SpaceKept DEF end_op, end_op_unlock, diskVars, memVars
<1>6. ASSUME NEW s \in Syncers, sys_sync(s) PROVE SpaceInv'
  BY <1>6 DEF Disciplined
<1>7. ASSUME NEW a \in Actors, commit(a) \/ write_log(a) \/ write_log_done(a)
                               \/ write_head(a) \/ install_trans(a)
                               \/ install_trans_done(a) \/ erase(a)
      PROVE  SpaceInv'
  <2>1. /\ UNCHANGED <<lh, wrote, arg>> /\ head' \in {head, lh}
        /\ \E l \in {"write_log", "write_head", "install_trans", "clear", "erase",
                     "unlock", "done", "up"} : pc' = [pc EXCEPT ![a] = l] \/ pc' = pc
        /\ pc[a] \notin {"run", "append", "panic", "idle", "begin", "asleep"}
    BY <1>7 DEF commit, write_log, write_log_done, write_head, install_trans, Return,
                install_trans_done, erase, memVars, diskVars
  <2> QED
    BY <2>1, SpaceKept DEF Counted
<1>8. ASSUME NEW a \in Actors, clear(a) PROVE SpaceInv'
  <2>1. Counted = {}
    <3>1. CASE a \in Ops
      BY <1>8, <3>1 DEF clear, CountInv, CommitPCs
    <3>2. CASE a = Boot
      BY <1>8, <3>2 DEF clear, CountInv, Counted
    <3> QED
      BY <3>1, <3>2 DEF Disciplined
  <2>2. Counted' = {} /\ Tokens' = {}
    BY <1>8, <2>1 DEF clear, Counted, Tokens
  <2>3. Len(lh') + Cardinality(Tokens') <= LOGSIZE
    BY <1>8, <1>b, <2>2, FS_EmptySet DEF clear
  <2> QED
    BY <1>8, <2>2, <2>3 DEF clear, SpaceInv, diskVars
<1>9. CASE read_head
  <2>1. Counted = {}
    BY <1>9 DEF read_head, CountInv, Counted
  <2>2. Counted' = {} /\ Tokens' = {}
    BY <1>9, <2>1 DEF read_head, Counted, Tokens
  <2>3. Len(lh') + Cardinality(Tokens') <= LOGSIZE /\ Len(head') <= LOGSIZE
    BY <1>9, <1>b, <2>2, FS_EmptySet DEF read_head, diskVars, SpaceInv
  <2> QED
    BY <1>9, <2>2, <2>3 DEF read_head, SpaceInv
<1>10. ASSUME NEW b \in Blocks, bget_recycle(b) PROVE SpaceInv'
  BY <1>10, SpaceKept DEF bget_recycle, Counted, diskVars
<1>11. ASSUME Crash PROVE SpaceInv'
  <2>1. \A a \in Ops : pc'[a] \in {"idle", "done", "dead"}
                       /\ (pc'[a] = "idle" => pc[a] = "idle")
    BY <1>11 DEF Crash
  <2>2. Counted' = {} /\ Tokens' = {}
    BY <2>1 DEF Counted, Tokens
  <2>3. Len(lh') + Cardinality(Tokens') <= LOGSIZE /\ Len(head') <= LOGSIZE
    BY <1>11, <1>b, <2>2, FS_EmptySet DEF Crash, diskVars, SpaceInv
  <2> QED
    BY <1>11, <2>1, <2>2, <2>3 DEF Crash, SpaceInv
<1>12. CASE UNCHANGED vars
  BY <1>12, SpaceKept DEF vars, Counted
<1> QED
  BY <1>1, <1>2, <1>3, <1>4, <1>5, <1>6, <1>7, <1>8, <1>9, <1>10, <1>11, <1>12
  DEF Next, OpStep, CommitStep, Terminated

\* Whoever commits or recovers is alone: nobody else does, and no operation is
\* in progress.
LEMMA Alone ==
  ASSUME TypeOK, CountInv, NEW a \in Ops \cup {Boot}, pc[a] \in CommitPCs
  PROVE  /\ Counted = {}
         /\ \A p \in Ops \cup {Boot} : p # a => pc[p] \notin CommitPCs
         /\ a \in Ops => pc[Boot] = "up" /\ committing
         /\ pc[Boot] # "read_head"
<1>1. CASE a \in Ops
  BY <1>1, LogAssumption DEF CountInv, CommitPCs
<1>2. CASE a = Boot
  BY <1>2, LogAssumption DEF CountInv, CommitPCs, Counted
<1> QED
  BY <1>1, <1>2

\* A step that leaves the data alone and moves nobody into a commit.
LEMMA ContentKept ==
  ASSUME CountInv, ContentInv, UNCHANGED <<disk, logd, head, cache, dirty, lh, tail>>,
         pc'[Boot] = pc[Boot],
         \A o \in Ops : pc'[o] = pc[o] \/ pc'[o] \notin CommitPCs \/ pc'[o] = "commit",
         Installing' <=> Installing,
         Counted' = {} /\ ~ committing' => Counted = {} /\ ~ committing
  PROVE  ContentInv'
<1>1. \A a \in Ops \cup {Boot} :
        /\ WriteLogInv(a)' /\ WriteHeadInv(a)'
        /\ InstallInv(a)' /\ ClearInv(a)' /\ EraseInv(a)'
        /\ pc'[a] = "unlock" => lh' = <<>>
  BY DEF ContentInv, WriteLogInv, WriteHeadInv, InstallInv, ClearInv, EraseInv, CommitPCs
<1> QED
  BY <1>1 DEF ContentInv

\* log_append keeps the log free of duplicates and pins the block.
LEMMA AppendContent ==
  ASSUME TypeOK, CountInv, ContentInv, NEW o \in Ops, log_append(o)
  PROVE  ContentInv'
<1>1. arg[o] \in Blocks /\ o \in Counted
  BY DEF log_append, CountInv, TypeOK, Counted
<1>2. /\ pc[Boot] = "up" /\ ~ committing
      /\ \A a \in Ops \cup {Boot} : pc[a] \notin CommitPCs
  BY <1>1, LogAssumption DEF CountInv, Counted, CommitPCs, log_append
<1>3. /\ pc' = [pc EXCEPT ![o] = "run"] /\ UNCHANGED <<head, disk, committing>>
      /\ lh' = Absorb(arg[o]) /\ dirty' = dirty \cup {arg[o]}
      /\ cache' = [cache EXCEPT ![arg[o]] = cache[arg[o]] \cup {o}]
  BY DEF log_append, Goto, diskVars, lockVars
<1>4. /\ pc'[Boot] = "up" /\ o \in Counted'
      /\ \A a \in Ops \cup {Boot} : pc'[a] \notin CommitPCs
  BY <1>2, <1>3, LogAssumption DEF TypeOK, Actors, CommitPCs, Counted
<1>5. ~ Installing /\ ~ Installing'
  BY <1>2, <1>4 DEF Installing, CommitPCs
<1>6. head = <<>> /\ dirty = RangeOf(lh)
  BY <1>2, <1>5 DEF ContentInv
<1>7. RangeOf(lh') = dirty'
  <2>1. CASE arg[o] \in RangeOf(lh)
    BY <1>3, <1>6, <2>1 DEF Absorb
  <2>2. CASE arg[o] \notin RangeOf(lh)
    BY <1>1, <1>3, <1>6, <2>2, RangeAppend DEF Absorb, TypeOK
  <2> QED
    BY <2>1, <2>2
<1>8. NoDup(lh')
  <2>1. CASE arg[o] \in RangeOf(lh)
    BY <1>3, <2>1 DEF Absorb, ContentInv
  <2>2. CASE arg[o] \notin RangeOf(lh)
    <3>1. lh' = Append(lh, arg[o]) /\ lh \in Seq(Blocks)
      BY <1>3, <2>2 DEF Absorb, TypeOK
    <3>2. Len(lh) \in Nat /\ DOMAIN lh = 1..Len(lh) /\ DOMAIN lh' = 1..Len(lh)+1
      BY <3>1
    <3>3. \A i \in 1..Len(lh) : lh'[i] = lh[i] /\ lh[i] # arg[o]
      BY <3>1, <3>2, <2>2 DEF RangeOf
    <3>4. lh'[Len(lh)+1] = arg[o]
      BY <3>1
    <3>5. \A i \in DOMAIN lh' : i \in 1..Len(lh) \/ i = Len(lh) + 1
      BY <3>2
    <3> QED
      BY <3>2, <3>3, <3>4, <3>5 DEF NoDup, ContentInv
  <2> QED
    BY <2>1, <2>2
<1>9. \A b \in Blocks \ dirty' : cache'[b] = disk'[b]
  BY <1>1, <1>3 DEF ContentInv, TypeOK
<1>10. \A a \in Ops \cup {Boot} :
        /\ WriteLogInv(a)' /\ WriteHeadInv(a)'
        /\ InstallInv(a)' /\ ClearInv(a)' /\ EraseInv(a)'
        /\ pc'[a] # "unlock"
  BY <1>4 DEF WriteLogInv, WriteHeadInv, InstallInv, ClearInv, EraseInv, CommitPCs
<1> QED
  BY <1>3, <1>4, <1>6, <1>7, <1>8, <1>9, <1>10 DEF ContentInv

\* One step of the loop of write_log.
LEMMA WriteLogContent ==
  ASSUME TypeOK, CountInv, SpaceInv, ContentInv, NEW a \in Ops, write_log(a)
  PROVE  ContentInv'
<1>1. /\ Counted = {} /\ pc[Boot] = "up" /\ committing
      /\ \A p \in Ops \cup {Boot} : p # a => pc[p] \notin CommitPCs
  BY Alone DEF write_log, CommitPCs
<1>2. /\ UNCHANGED <<disk, head, cache, dirty, lh, committing, pc>>
      /\ logd' = [logd EXCEPT ![tail[a]+1] = cache[lh[tail[a]+1]]]
      /\ tail' = [tail EXCEPT ![a] = tail[a]+1]
      /\ pc[a] = "write_log" /\ tail[a] < Len(lh)
  BY DEF write_log, Slot, InLoop, memVars, lockVars
<1>3. /\ tail[a] \in Nat /\ tail[a]+1 \in Slots /\ Len(lh) \in Nat
      /\ logd \in [Slots -> Content] /\ tail \in [Actors -> Nat]
  <2>1. Len(lh) <= LOGSIZE
    BY TokensFinite, LogAssumption DEF SpaceInv, TypeOK
  <2> QED
    BY <1>2, <2>1, LogAssumption DEF TypeOK, Slots, Actors
<1>4. WriteLogInv(a)'
  <2>1. \A i \in 1..tail[a] : logd[i] = cache[lh[i]]
    BY <1>2 DEF ContentInv, WriteLogInv
  <2>2. tail'[a] = tail[a] + 1 /\ logd'[tail[a]+1] = cache[lh[tail[a]+1]]
    BY <1>2, <1>3 DEF Actors
  <2>3. \A i \in 1..tail[a] : logd'[i] = logd[i]
    BY <1>2, <1>3
  <2>4. \A i \in 1..tail'[a] : i \in 1..tail[a] \/ i = tail[a] + 1
    BY <1>3, <2>2
  <2> QED
    BY <1>2, <1>3, <2>1, <2>2, <2>3, <2>4 DEF WriteLogInv
<1>5. \A p \in Ops \cup {Boot} :
        /\ WriteLogInv(p)' /\ WriteHeadInv(p)'
        /\ InstallInv(p)' /\ ClearInv(p)' /\ EraseInv(p)'
        /\ pc'[p] # "unlock"
  BY <1>1, <1>2, <1>4 DEF WriteLogInv, WriteHeadInv, InstallInv, ClearInv, EraseInv, CommitPCs
<1>6. Installing' <=> Installing
  BY <1>2 DEF Installing
<1> QED
  BY <1>1, <1>2, <1>5, <1>6 DEF ContentInv

\* One step of the loop of install_trans, in commit or in recovery.
LEMMA InstallContent ==
  ASSUME TypeOK, CountInv, SpaceInv, ContentInv, NEW a \in Ops \cup {Boot}, install_trans(a)
  PROVE  ContentInv'
<1> DEFINE t == tail[a] + 1
           b == lh[t]
<1>1. /\ \A p \in Ops \cup {Boot} : p # a => pc[p] \notin CommitPCs
      /\ a \in Ops => pc[Boot] = "up" /\ committing
  BY Alone DEF install_trans, CommitPCs
<1>2. /\ UNCHANGED <<logd, head, lh, committing, pc>>
      /\ cache' = [cache EXCEPT ![b] = logd[t]]
      /\ disk' = [disk EXCEPT ![b] = logd[t]]
      /\ dirty' = dirty \ {b}
      /\ tail' = [tail EXCEPT ![a] = t]
      /\ pc[a] = "install_trans" /\ tail[a] < Len(lh)
  BY DEF install_trans, Slot, InLoop, lockVars
<1>3. /\ tail[a] \in Nat /\ t \in 1..Len(lh) /\ b \in Blocks /\ Len(lh) \in Nat
      /\ tail'[a] = t /\ a \in Actors /\ DOMAIN lh = 1..Len(lh)
  BY <1>2 DEF TypeOK, Actors
<1>4. /\ head = lh /\ NoDup(lh)
      /\ \A i \in 1..tail[a] : disk[lh[i]] = logd[i]
      /\ a = Boot => dirty = {}
      /\ a # Boot => /\ dirty = {lh[i] : i \in t..Len(lh)}
                     /\ \A i \in 1..Len(lh) : cache[lh[i]] = logd[i]
  BY <1>2 DEF ContentInv, InstallInv
<1>5. /\ disk'[b] = logd[t] /\ cache'[b] = logd[t]
      /\ \A c \in Blocks : c # b => disk'[c] = disk[c] /\ cache'[c] = cache[c]
  BY <1>2, <1>3 DEF TypeOK
<1>6. \A i \in 1..Len(lh) : i # t => lh[i] # b /\ lh[i] \in Blocks
  BY <1>3, <1>4 DEF NoDup, TypeOK
<1>7. InstallInv(a)'
  <2>1. tail'[a] <= Len(lh')
    BY <1>2, <1>3
  <2>2. \A i \in 1..tail'[a] : disk'[lh'[i]] = logd'[i]
    <3>1. \A i \in 1..t : i = t \/ (i \in 1..tail[a] /\ i \in 1..Len(lh) /\ i # t)
      BY <1>3
    <3> QED
      BY <1>2, <1>3, <1>4, <1>5, <1>6, <3>1
  <2>3. CASE a = Boot
    BY <1>2, <1>4, <2>1, <2>2, <2>3 DEF InstallInv
  <2>4. CASE a # Boot
    <3>1. dirty' = {lh[i] : i \in t+1..Len(lh)}
      <4>1. \A i \in t..Len(lh) : i = t \/ i \in t+1..Len(lh)
        BY <1>3
      <4>2. \A i \in t+1..Len(lh) : i \in t..Len(lh) /\ i \in 1..Len(lh) /\ i # t
        BY <1>3
      <4> QED
        BY <1>2, <1>4, <1>6, <2>4, <4>1, <4>2
    <3>2. \A i \in 1..Len(lh) : cache'[lh[i]] = logd[i]
      BY <1>4, <1>5, <1>6, <2>4
    <3> QED
      BY <1>2, <1>3, <1>4, <2>1, <2>2, <2>4, <3>1, <3>2 DEF InstallInv
  <2> QED
    BY <2>3, <2>4
<1>8. \A p \in Ops \cup {Boot} :
        /\ WriteLogInv(p)' /\ WriteHeadInv(p)'
        /\ InstallInv(p)' /\ ClearInv(p)' /\ EraseInv(p)'
        /\ pc'[p] # "unlock"
  BY <1>1, <1>2, <1>7 DEF WriteLogInv, WriteHeadInv, InstallInv, ClearInv, EraseInv, CommitPCs
<1>9. Installing'
  BY <1>2 DEF Installing
<1>10. \A c \in Blocks \ dirty' : cache'[c] = disk'[c]
  BY <1>2, <1>5 DEF ContentInv
<1>11. pc'[Boot] # "read_head" /\ (pc'[Boot] = "up" => committing')
  BY <1>1, <1>2 DEF CommitPCs
<1> QED
  BY <1>2, <1>4, <1>8, <1>9, <1>10, <1>11 DEF ContentInv

\* The other steps of commit() and of recovery: one move of the actor each.
LEMMA CommitContent ==
  ASSUME TypeOK, CountInv, SpaceInv, ContentInv, NEW a \in Ops \cup {Boot},
         \/ commit(a) \/ write_log_done(a) \/ write_head(a)
         \/ install_trans_done(a) \/ clear(a) \/ erase(a)
  PROVE  ContentInv'
<1>a. /\ Counted = {}
      /\ \A p \in Ops \cup {Boot} : p # a => pc[p] \notin CommitPCs
      /\ a \in Ops => pc[Boot] = "up" /\ committing
      /\ pc[a] \in CommitPCs /\ pc[Boot] # "read_head"
  BY Alone DEF commit, write_log_done, write_head, install_trans_done, clear, erase, CommitPCs
<1>b. /\ UNCHANGED <<disk, logd, cache, dirty, committing>>
      /\ \E l \in {"write_log", "write_head", "install_trans", "clear", "erase",
                   "unlock", "up"} : pc' = [pc EXCEPT ![a] = l]
  BY LogAssumption DEF commit, write_log_done, write_head, install_trans_done, clear, erase,
     Goto, Return, diskVars, memVars, lockVars
<1>c. \A p \in Ops \cup {Boot} : p # a => pc'[p] = pc[p] /\ pc'[p] \notin CommitPCs
  BY <1>a, <1>b
<1>d. a \in Actors /\ Len(lh) \in Nat /\ tail \in [Actors -> Nat] /\ DOMAIN pc = Actors
      /\ lh \in Seq(Blocks) /\ DOMAIN lh = 1..Len(lh)
  BY <1>b DEF Actors, TypeOK
<1>e. \A p \in Ops \cup {Boot} : p # a =>
        /\ WriteLogInv(p)' /\ WriteHeadInv(p)'
        /\ InstallInv(p)' /\ ClearInv(p)' /\ EraseInv(p)'
        /\ pc'[p] # "unlock"
  BY <1>c DEF WriteLogInv, WriteHeadInv, InstallInv, ClearInv, EraseInv, CommitPCs
<1>f. \A c \in Blocks \ dirty' : cache'[c] = disk'[c]
  BY <1>b DEF ContentInv
<1>g. SUFFICES /\ NoDup(lh') /\ NoDup(head')
               /\ pc'[Boot] # "read_head"
               /\ pc'[Boot] = "up" /\ ~ Installing' => head' = <<>> /\ dirty' = RangeOf(lh')
               /\ pc'[Boot] = "up" /\ Counted' = {} /\ ~ committing' => lh' = <<>>
               /\ WriteLogInv(a)' /\ WriteHeadInv(a)'
               /\ InstallInv(a)' /\ ClearInv(a)' /\ EraseInv(a)'
               /\ pc'[a] = "unlock" => lh' = <<>>
  BY <1>e, <1>f DEF ContentInv
<1> USE <1>a, <1>b, <1>c, <1>d
<1>h. pc'[Boot] # "read_head"
  OBVIOUS
<1>1. CASE commit(a)
  <2>1. /\ a \in Ops /\ ~ Installing /\ UNCHANGED <<head, lh>> /\ tail'[a] = 0
        /\ pc'[a] = IF Len(lh) > 0 THEN "write_log" ELSE "unlock"
    BY <1>1, LogAssumption DEF commit, CountInv, Installing, CommitPCs, Goto, Return, diskVars, memVars
  <2>2. ~ Installing'
    BY <2>1 DEF Installing, CommitPCs
  <2>3. Len(lh) = 0 => lh = <<>>
    OBVIOUS
  <2> QED
    BY <1>h, <2>1, <2>2, <2>3 DEF ContentInv, WriteLogInv, WriteHeadInv, InstallInv, ClearInv, EraseInv
<1>2. CASE write_log_done(a)
  <2>1. /\ a \in Ops /\ ~ Installing /\ UNCHANGED <<head, lh>> /\ pc'[a] = "write_head"
        /\ tail[a] >= Len(lh) /\ pc[a] = "write_log"
    BY <1>2, LogAssumption DEF write_log_done, CountInv, Installing, CommitPCs, Goto, InLoop, diskVars, memVars
  <2>2. ~ Installing'
    BY <2>1 DEF Installing, CommitPCs
  <2>3. \A i \in 1..Len(lh) : logd[i] = cache[lh[i]]
    BY <2>1 DEF ContentInv, WriteLogInv
  <2> QED
    BY <1>h, <2>1, <2>2, <2>3 DEF ContentInv, WriteLogInv, WriteHeadInv, InstallInv, ClearInv, EraseInv
<1>3. CASE write_head(a)
  <2>1. /\ a \in Ops /\ ~ Installing /\ head' = lh /\ lh' = lh /\ pc'[a] = "install_trans"
        /\ pc[a] = "write_head" /\ tail'[a] = 0
    BY <1>3, LogAssumption DEF write_head, CountInv, Installing, CommitPCs, Goto, memVars
  <2>2. Installing'
    BY <2>1 DEF Installing
  <2>3. \A i \in 1..Len(lh) : logd[i] = cache[lh[i]]
    BY <2>1 DEF ContentInv, WriteHeadInv
  <2>4. dirty = {lh[i] : i \in 0+1..Len(lh)}
    BY <2>1 DEF ContentInv, RangeOf
  <2>5. InstallInv(a)'
    BY <2>1, <2>3, <2>4, LogAssumption DEF InstallInv
  <2> QED
    BY <1>h, <2>1, <2>2, <2>5 DEF ContentInv, WriteLogInv, WriteHeadInv, ClearInv, EraseInv
<1>4. CASE install_trans_done(a)
  <2>1. /\ UNCHANGED <<head, lh>> /\ pc'[a] = "clear"
        /\ pc[a] = "install_trans" /\ tail[a] >= Len(lh)
    BY <1>4 DEF install_trans_done, Goto, InLoop, diskVars, memVars
  <2>2. Installing'
    BY <2>1 DEF Installing
  <2>3. InstallInv(a)
    BY DEF ContentInv
  <2>4. head = lh /\ dirty = {} /\ \A i \in 1..Len(lh) : disk[lh[i]] = logd[i]
    <3>1. tail[a] = Len(lh)
      BY <2>1, <2>3 DEF InstallInv
    <3>2. tail[a]+1..Len(lh) = {}
      BY <3>1
    <3> QED
      BY <2>1, <2>3, <3>1, <3>2 DEF InstallInv
  <2> QED
    BY <1>h, <2>1, <2>2, <2>4 DEF ContentInv, WriteLogInv, WriteHeadInv, InstallInv, ClearInv, EraseInv
<1>5. CASE clear(a)
  <2>1. head' = head /\ lh' = <<>> /\ pc'[a] = "erase" /\ pc[a] = "clear"
    BY <1>5 DEF clear, Goto, diskVars
  <2>2. Installing' /\ NoDup(<<>>)
    BY <2>1 DEF Installing, NoDup
  <2>3. head = lh /\ dirty = {} /\ \A i \in 1..Len(lh) : disk[lh[i]] = logd[i]
    BY <2>1 DEF ContentInv, ClearInv
  <2> QED
    BY <1>h, <2>1, <2>2, <2>3 DEF ContentInv, WriteLogInv, WriteHeadInv, InstallInv, ClearInv, EraseInv
<1>6. CASE erase(a)
  <2>1. head' = lh /\ lh' = lh /\ pc'[a] \in {"unlock", "up"} /\ pc[a] = "erase"
    BY <1>6, LogAssumption DEF erase, Goto, Return, memVars
  <2>2. lh = <<>> /\ dirty = {} /\ NoDup(lh)
    BY <2>1 DEF ContentInv, EraseInv
  <2>3. RangeOf(lh) = {}
    BY <2>2 DEF RangeOf
  <2> QED
    BY <1>h, <2>1, <2>2, <2>3 DEF ContentInv, WriteLogInv, WriteHeadInv, InstallInv, ClearInv, EraseInv
<1> QED
  BY <1>1, <1>2, <1>3, <1>4, <1>5, <1>6

\* A clean buffer may be recycled: the disk holds the same content.
LEMMA RecycleHarmless ==
  ASSUME TypeOK, ContentInv, NEW b \in Blocks, bget_recycle(b)
  PROVE  cache' = cache
<1>1. cache[b] = disk[b]
  BY DEF bget_recycle, Pinned, ContentInv
<1> QED
  BY <1>1 DEF bget_recycle, TypeOK

\* The log, the cache and the home blocks agree after every step.
LEMMA ContentStep ==
  ASSUME TypeOK, CountInv, SpaceInv, ContentInv, Disciplined, [Next]_vars
  PROVE  ContentInv'
<1>a. CountInv'
  BY CountStep
<1>b. DOMAIN pc = Actors
  BY DEF TypeOK
<1>1. ASSUME NEW o \in Ops, OpStep(o), ~ log_append(o) PROVE ContentInv'
  <2>1. UNCHANGED <<disk, logd, head, cache, dirty, lh, tail>>
    BY <1>1 DEF OpStep, call_op, begin_op_sleep, begin_op, end_op, end_op_unlock,
                diskVars, memVars
  <2>2. /\ pc'[Boot] = pc[Boot]
        /\ \A p \in Ops : \/ pc'[p] = pc[p]
                          \/ pc'[p] \in {"begin", "asleep", "run", "commit", "done", "panic"}
                             /\ pc[p] \in {"idle", "begin", "asleep", "run", "unlock"}
    BY <1>1, <1>b, LogAssumption DEF OpStep, call_op, begin_op_sleep, begin_op, end_op,
       end_op_unlock, Goto, Woken, Actors, CountInv, CommitPCs
  <2>3. Installing' <=> Installing
    BY <2>2 DEF Installing
  <2>4. CASE end_op_unlock(o)
    <3>1. lh = <<>> /\ pc[Boot] = "up"
      BY <2>4 DEF ContentInv, end_op_unlock, CountInv
    <3>2. \A a \in Ops \cup {Boot} :
            /\ WriteLogInv(a)' /\ WriteHeadInv(a)'
            /\ InstallInv(a)' /\ ClearInv(a)' /\ EraseInv(a)'
      BY <2>1, <2>2 DEF ContentInv, WriteLogInv, WriteHeadInv, InstallInv, ClearInv, EraseInv
    <3> QED
      BY <2>1, <2>2, <2>3, <3>1, <3>2 DEF ContentInv
  <2>5. CASE ~ end_op_unlock(o)
    <3>1. Counted' = {} /\ ~ committing' => Counted = {} /\ ~ committing
      <4>1. CASE end_op(o)
        <5>1. ~ committing /\ (LastOut => committing')
          BY <4>1 DEF end_op, CountInv, Counted
        <5>2. Counted' = {} => outstanding' = 0
          BY <1>a, FS_EmptySet DEF CountInv
        <5> QED
          BY <4>1, <5>1, <5>2 DEF end_op, LastOut, Counted
      <4>2. CASE begin_op(o)
        BY <4>2, <1>b DEF begin_op, Counted, Goto, Actors
      <4>3. CASE call_op(o) \/ begin_op_sleep(o)
        BY <4>3, <1>b DEF call_op, begin_op_sleep, Counted, Goto, Actors, lockVars
      <4> QED
        BY <1>1, <2>5, <4>1, <4>2, <4>3 DEF OpStep
    <3> QED
      BY <2>1, <2>2, <2>3, <3>1, ContentKept DEF CommitPCs
  <2> QED
    BY <2>4, <2>5
<1>2. ASSUME NEW o \in Ops, log_append(o) PROVE ContentInv'
  BY <1>2, AppendContent
<1>3. ASSUME NEW o \in Ops, NEW b \in Blocks, log_write(o, b) PROVE ContentInv'
  <2>1. /\ UNCHANGED <<disk, logd, head, cache, dirty, lh, tail, committing>>
        /\ \E l \in {"append", "panic"} : pc' = [pc EXCEPT ![o] = l]
        /\ pc[o] = "run"
    BY <1>3 DEF log_write, diskVars, memVars, lockVars, Goto
  <2>2. Installing' <=> Installing
    BY <2>1, <1>b DEF Installing
  <2>3. Counted' = Counted
    BY <2>1, <1>b DEF Counted, Actors
  <2>4. pc'[Boot] = pc[Boot] /\ \A p \in Ops : pc'[p] = pc[p] \/ pc'[p] \notin CommitPCs
    BY <2>1, <1>b, LogAssumption DEF Actors, CommitPCs
  <2> QED
    BY <2>1, <2>2, <2>3, <2>4, ContentKept
<1>4. ASSUME NEW a \in Actors, CommitStep(a) PROVE ContentInv'
  <2>1. a \in Ops \cup {Boot}
    BY DEF Actors, Disciplined
  <2>2. CASE write_log(a)
    <3>1. a \in Ops
      BY <2>1, <2>2 DEF write_log, CountInv
    <3> QED
      BY <2>2, <3>1, WriteLogContent
  <2>3. CASE install_trans(a)
    BY <2>1, <2>3, InstallContent
  <2>4. CASE ~ write_log(a) /\ ~ install_trans(a)
    BY <1>4, <2>1, <2>4, CommitContent DEF CommitStep
  <2> QED
    BY <2>2, <2>3, <2>4
<1>5. CASE read_head
  <2>1. /\ pc' = [pc EXCEPT ![Boot] = "install_trans"] /\ lh' = head
        /\ tail' = [tail EXCEPT ![Boot] = 0] /\ pc[Boot] = "read_head"
        /\ UNCHANGED <<disk, logd, head, cache, dirty>>
    BY <1>5 DEF read_head, Goto, diskVars
  <2>2. /\ pc'[Boot] = "install_trans" /\ tail'[Boot] = 0
        /\ \A o \in Ops : pc'[o] \notin CommitPCs
    BY <2>1, <1>b, LogAssumption DEF TypeOK, Actors, CountInv, CommitPCs
  <2>3. dirty = {} /\ NoDup(head)
    BY <2>1 DEF ContentInv
  <2>4. InstallInv(Boot)' /\ Installing'
    BY <2>1, <2>2, <2>3 DEF InstallInv, Installing, TypeOK
  <2>5. \A a \in Ops \cup {Boot} :
          /\ WriteLogInv(a)' /\ WriteHeadInv(a)'
          /\ InstallInv(a)' /\ ClearInv(a)' /\ EraseInv(a)'
          /\ pc'[a] # "unlock"
    BY <2>2, <2>4 DEF WriteLogInv, WriteHeadInv, InstallInv, ClearInv, EraseInv, CommitPCs
  <2> QED
    BY <2>1, <2>2, <2>3, <2>4, <2>5 DEF ContentInv
<1>6. ASSUME NEW b \in Blocks, bget_recycle(b) PROVE ContentInv'
  <2>1. UNCHANGED <<disk, logd, head, cache, dirty, lh, tail, pc, committing>>
    BY <1>6, RecycleHarmless DEF bget_recycle, diskVars, lockVars
  <2>2. (Installing' <=> Installing) /\ Counted' = Counted
    BY <2>1 DEF Installing, Counted
  <2> QED
    BY <2>1, <2>2, ContentKept
<1>7. ASSUME Crash PROVE ContentInv'
  <2>1. /\ cache' = disk /\ disk' = disk /\ dirty' = {} /\ lh' = <<>> /\ head' = head
        /\ pc'[Boot] = "read_head" /\ \A o \in Ops : pc'[o] \in {"idle", "done", "dead"}
    BY <1>7, LogAssumption DEF Crash, diskVars, Actors
  <2>2. NoDup(lh') /\ NoDup(head')
    BY <2>1 DEF NoDup, ContentInv
  <2>3. \A a \in Ops \cup {Boot} :
          /\ WriteLogInv(a)' /\ WriteHeadInv(a)'
          /\ InstallInv(a)' /\ ClearInv(a)' /\ EraseInv(a)'
          /\ pc'[a] # "unlock"
    BY <2>1 DEF WriteLogInv, WriteHeadInv, InstallInv, ClearInv, EraseInv
  <2> QED
    BY <2>1, <2>2, <2>3 DEF ContentInv
<1>8. CASE UNCHANGED vars
  <2>1. (Installing' <=> Installing) /\ Counted' = Counted
    BY <1>8 DEF vars, Installing, Counted
  <2> QED
    BY <1>8, <2>1, ContentKept DEF vars
<1>9. ASSUME NEW s \in Syncers, sys_sync(s) PROVE ContentInv'
  BY <1>9 DEF Disciplined
<1> QED
  BY <1>1, <1>2, <1>3, <1>4, <1>5, <1>6, <1>7, <1>8, <1>9 DEF Next, Terminated

LEMMA InitInv ==
  ASSUME Init, Disciplined
  PROVE  IInv
<1>1. TypeOK
  <2>1. pc \in [Actors -> {"idle", "begin", "asleep", "run", "append", "commit",
                        "write_log", "write_head", "install_trans", "clear",
                        "erase", "unlock", "done", "dead", "read_head", "up",
                        "panic"}]
    BY DEF Init
  <2>2. /\ head \in Seq(Blocks) /\ lh \in Seq(Blocks) /\ crashes \in 0..MaxCrashes
        /\ outstanding \in Nat /\ dirty \subseteq Blocks
    BY LogAssumption DEF Init
  <2>4. committing \in BOOLEAN
    BY DEF Init
  <2>3. /\ disk \in [Blocks -> Content] /\ cache \in [Blocks -> Content]
        /\ logd \in [Slots -> Content] /\ tail \in [Actors -> Nat]
        /\ arg \in [Ops -> Blocks \cup {NoBlock}] /\ wrote \in [Ops -> SUBSET Blocks]
    BY DEF Init, Content
  <2> QED
    BY <2>1, <2>2, <2>3, <2>4 DEF TypeOK
<1>2. \A a \in Ops \cup Syncers : pc[a] = "idle"
  BY LogAssumption DEF Init, Actors
<1>3. Counted = {} /\ Tokens = {} /\ pc[Boot] = "read_head"
  BY <1>2 DEF Counted, Tokens, Init, Actors
<1>4. CountInv
  BY <1>2, <1>3, FS_EmptySet DEF Init, CountInv, CommitPCs
<1>5. SpaceInv
  BY <1>2, <1>3, FS_EmptySet, LogAssumption DEF Init, SpaceInv, Counted
<1>6. ContentInv
  <2>1. NoDup(lh) /\ NoDup(head)
    BY DEF Init, NoDup
  <2>2. \A a \in Ops \cup {Boot} : pc[a] \in {"idle", "read_head"}
    BY <1>2, <1>3
  <2>3. \A a \in Ops \cup {Boot} :
          /\ WriteLogInv(a) /\ WriteHeadInv(a)
          /\ InstallInv(a) /\ ClearInv(a) /\ EraseInv(a)
          /\ pc[a] # "unlock"
    BY <2>2 DEF WriteLogInv, WriteHeadInv, InstallInv, ClearInv, EraseInv
  <2> QED
    BY <1>3, <2>1, <2>3 DEF Init, ContentInv
<1> QED
  BY <1>1, <1>4, <1>5, <1>6 DEF IInv

LEMMA StepInv ==
  ASSUME IInv, Disciplined, [Next]_vars
  PROVE  IInv'
<1>1. Len(lh) <= LOGSIZE
  BY TokensFinite, LogAssumption DEF IInv, SpaceInv, TypeOK
<1> QED
  BY <1>1, TypeStep, CountStep, SpaceStep, ContentStep DEF IInv

\* The invariant holds in every reachable state of the file system as designed.
THEOREM LogInvariant ==
  ASSUME Disciplined
  PROVE  Spec => []IInv
<1>1. Init => IInv
  BY InitInv
<1>2. IInv /\ [Next]_vars => IInv'
  BY StepInv
<1> QED
  BY <1>1, <1>2, PTL DEF Spec

\* Type correctness of the log (its buffers, header and counters).
THEOREM LogTypes ==
  ASSUME Disciplined
  PROVE  Spec => []TypeOK
<1>1. IInv => TypeOK
  BY DEF IInv
<1> QED
  BY <1>1, LogInvariant, PTL

----------------------------------------------------------------------------
(* Refinement of AtomicStore.                                              *)

LEMMA RecoveredHome ==
  ASSUME NEW d, NEW l, NEW h \in Seq(Blocks), NEW b \in Blocks, b \notin RangeOf(h)
  PROVE  RecoveredFrom(d, l, h)[b] = d[b]
BY DEF RecoveredFrom, RangeOf

LEMMA RecoveredLogged ==
  ASSUME NEW d, NEW l, NEW h \in Seq(Blocks), NoDup(h), NEW i \in 1..Len(h)
  PROVE  RecoveredFrom(d, l, h)[h[i]] = l[i]
<1> DEFINE hits == {k \in DOMAIN h : h[k] = h[i]}
<1>1. hits = {i}
  BY DEF NoDup
<1>2. \A j \in hits : j <= i
  BY <1>1
<1>3. (CHOOSE k \in hits : \A j \in hits : j <= k) = i
  BY <1>1, <1>2
<1>4. h[i] \in Blocks /\ hits # {}
  BY <1>1
<1>5. RecoveredFrom(d, l, h)[h[i]] =
        IF hits = {} THEN d[h[i]] ELSE l[CHOOSE k \in hits : \A j \in hits : j <= k]
  BY <1>4 DEF RecoveredFrom
<1> QED
  BY <1>3, <1>4, <1>5

LEMMA RecoveredEmpty ==
  ASSUME NEW d \in [Blocks -> Content], NEW l
  PROVE  RecoveredFrom(d, l, <<>>) = d
<1>1. \A b \in Blocks : {i \in DOMAIN <<>> : <<>>[i] = b} = {}
  OBVIOUS
<1> QED
  BY <1>1 DEF RecoveredFrom

\* Two ways to see that recovery would bring back the same.
LEMMA RecoveredEqual ==
  ASSUME NEW d, NEW l, NEW h \in Seq(Blocks), NoDup(h),
         NEW e, e \in [Blocks -> Content],
         \A i \in 1..Len(h) : l[i] = e[h[i]],
         \A b \in Blocks : b \notin RangeOf(h) => d[b] = e[b]
  PROVE  RecoveredFrom(d, l, h) = e
<1>1. ASSUME NEW b \in Blocks PROVE RecoveredFrom(d, l, h)[b] = e[b]
  <2>1. CASE b \in RangeOf(h)
    <3>1. PICK i \in 1..Len(h) : h[i] = b
      BY <2>1 DEF RangeOf
    <3> QED
      BY <3>1, RecoveredLogged
  <2>2. CASE b \notin RangeOf(h)
    BY <2>2, RecoveredHome
  <2> QED
    BY <2>1, <2>2
<1>2. RecoveredFrom(d, l, h) = [b \in Blocks |-> RecoveredFrom(d, l, h)[b]]
  BY DEF RecoveredFrom
<1>3. e = [b \in Blocks |-> e[b]]
  OBVIOUS
<1> QED
  BY <1>1, <1>2, <1>3

\* The step that writes the header makes exactly the current view durable.
LEMMA HeaderCommits ==
  ASSUME IInv, NEW a \in Ops, write_head(a)
  PROVE  Store!Commit
<1>1. /\ Counted = {} /\ pc[Boot] = "up"
      /\ \A p \in Ops \cup {Boot} : p # a => pc[p] \notin CommitPCs
  BY Alone DEF IInv, write_head, CommitPCs
<1>2. /\ UNCHANGED <<disk, logd, cache>> /\ head' = lh
      /\ pc' = [pc EXCEPT ![a] = "install_trans"] /\ pc[a] = "write_head"
  BY DEF write_head, memVars, Goto
<1>3. Active = {} /\ Active' = {} /\ pc'[Boot] = "up"
  BY <1>1, <1>2, LogAssumption DEF Active, Counted, IInv, TypeOK, Actors
<1>4. ~ Installing
  BY <1>1, <1>2 DEF Installing, CommitPCs
<1>5. dirty = RangeOf(lh) /\ NoDup(lh) /\ lh \in Seq(Blocks)
      /\ cache \in [Blocks -> Content]
  BY <1>1, <1>4 DEF IInv, ContentInv, TypeOK
<1>6. \A i \in 1..Len(lh) : logd[i] = cache[lh[i]]
  BY <1>2 DEF IInv, ContentInv, WriteHeadInv
<1>7. \A b \in Blocks : b \notin RangeOf(lh) => disk[b] = cache[b]
  BY <1>5 DEF IInv, ContentInv
<1>8. RecoveredFrom(disk, logd, lh) = cache
  BY <1>5, <1>6, <1>7, RecoveredEqual
<1> QED
  BY <1>1, <1>2, <1>3, <1>8 DEF Store!Commit, Recovered, View

\* Installing rewrites home blocks with what recovery would write anyway.
LEMMA InstallHidden ==
  ASSUME IInv, NEW a \in Ops \cup {Boot}, install_trans(a)
  PROVE  UNCHANGED <<Recovered, View, Active>>
<1> DEFINE t == tail[a] + 1
           b == lh[t]
<1>1. a \in Ops => pc[Boot] = "up"
  BY Alone DEF IInv, install_trans, CommitPCs
<1>2. /\ UNCHANGED <<logd, head, lh, pc>>
      /\ cache' = [cache EXCEPT ![b] = logd[t]]
      /\ disk' = [disk EXCEPT ![b] = logd[t]]
      /\ pc[a] = "install_trans" /\ tail[a] < Len(lh)
  BY DEF install_trans, Slot, InLoop
<1>3. t \in 1..Len(lh) /\ b \in Blocks /\ head \in Seq(Blocks) /\ lh \in Seq(Blocks)
      /\ disk \in [Blocks -> Content] /\ cache \in [Blocks -> Content]
  BY <1>2 DEF IInv, TypeOK, Actors
<1>4. head = lh /\ NoDup(head) /\ (a # Boot => cache[b] = logd[t])
  BY <1>2, <1>3 DEF IInv, ContentInv, InstallInv
<1>5. \A c \in Blocks : c \notin RangeOf(head) => disk'[c] = disk[c]
  BY <1>2, <1>3, <1>4 DEF RangeOf
<1>6. \A c \in Blocks : Recovered'[c] = Recovered[c]
  <2>1. SUFFICES ASSUME NEW c \in Blocks
                 PROVE  RecoveredFrom(disk', logd, head)[c] = RecoveredFrom(disk, logd, head)[c]
    BY <1>2 DEF Recovered
  <2>2. CASE c \in RangeOf(head)
    <3>1. PICK i \in 1..Len(head) : head[i] = c
      BY <1>3, <2>2 DEF RangeOf
    <3> QED
      BY <1>3, <1>4, <3>1, RecoveredLogged
  <2>3. CASE c \notin RangeOf(head)
    BY <1>3, <1>5, <2>3, RecoveredHome
  <2> QED
    BY <2>2, <2>3
<1>7. Recovered' = Recovered
  BY <1>6 DEF Recovered, RecoveredFrom
<1>8. cache' = cache \/ pc[Boot] # "up"
  <2>1. CASE a = Boot
    BY <1>2, <2>1
  <2>2. CASE a # Boot
    BY <1>2, <1>3, <1>4, <2>2
  <2> QED
    BY <2>1, <2>2
<1> QED
  BY <1>2, <1>7, <1>8 DEF View, Active

\* Erasing the header changes nothing: every block it names is home.
LEMMA EraseHidden ==
  ASSUME IInv, NEW a \in Ops \cup {Boot}, erase(a)
  PROVE  UNCHANGED <<Recovered, View, Active>>
<1>1. /\ UNCHANGED <<disk, logd, cache, lh>> /\ head' = lh /\ pc[a] = "erase"
      /\ pc' = [pc EXCEPT ![a] = IF a = Boot THEN "up" ELSE "unlock"]
      /\ a \in Actors /\ DOMAIN pc = Actors
  BY DEF erase, memVars, Goto, Return, IInv, TypeOK, Actors
<1>2. lh = <<>> /\ dirty = {} /\ \A i \in 1..Len(head) : disk[head[i]] = logd[i]
  BY <1>1 DEF IInv, ContentInv, EraseInv
<1>3. disk \in [Blocks -> Content] /\ cache \in [Blocks -> Content] /\ head \in Seq(Blocks)
      /\ NoDup(head)
  BY DEF IInv, TypeOK, ContentInv
<1>4. Recovered = disk
  BY <1>2, <1>3, RecoveredEqual DEF Recovered
<1>5. Recovered' = disk
  BY <1>1, <1>2, <1>3, RecoveredEmpty DEF Recovered
<1>6. cache = disk
  BY <1>2, <1>3 DEF IInv, ContentInv
<1>7. Active' = Active
  BY <1>1, LogAssumption DEF Active, Actors
<1>8. a \in Ops => pc[Boot] = "up"
  BY <1>1, Alone DEF IInv, CommitPCs
<1>9. View' = View
  BY <1>1, <1>4, <1>5, <1>6, <1>8, LogAssumption DEF View, Actors
<1> QED
  BY <1>4, <1>5, <1>7, <1>9

\* The steps of an operation map to the abstract steps of the same name.
LEMMA OpRefines ==
  ASSUME IInv, NEW o \in Ops,
         OpStep(o) \/ \E b \in Blocks : log_write(o, b)
  PROVE  [Store!Next]_(Store!vars)
<1>a. DOMAIN pc = Actors /\ o \in Actors /\ o # Boot /\ Boot \in Actors
  BY LogAssumption DEF IInv, TypeOK, Actors
<1>1. CASE call_op(o) \/ begin_op_sleep(o) \/ end_op_unlock(o)
  <2>1. UNCHANGED <<disk, logd, head, cache>> /\ pc'[Boot] = pc[Boot]
    BY <1>1, <1>a DEF call_op, begin_op_sleep, end_op_unlock, Goto, Woken, diskVars,
       memVars, CountInv, IInv
  <2>2. Active' = Active
    BY <1>1, <1>a DEF call_op, begin_op_sleep, end_op_unlock, Goto, Woken, Active, Actors
  <2> QED
    BY <2>1, <2>2 DEF Store!vars, Recovered, View
<1>2. CASE begin_op(o)
  <2>1. UNCHANGED <<disk, logd, head, cache>> /\ pc'[Boot] = pc[Boot]
    BY <1>2, <1>a DEF begin_op, Goto, diskVars, memVars
  <2>2. Active' = Active \cup {o}
    BY <1>2, <1>a DEF begin_op, Goto, Active, Actors
  <2> QED
    BY <2>1, <2>2 DEF Store!Next, Store!Begin, Recovered, View
<1>3. CASE \E b \in Blocks : log_write(o, b)
  <2>1. UNCHANGED <<disk, logd, head, cache>> /\ pc'[Boot] = pc[Boot]
    BY <1>3, <1>a DEF log_write, Goto, diskVars, memVars
  <2>2. Active' = Active \/ Active' = Active \ {o}
    BY <1>3, <1>a DEF log_write, Goto, Active, Actors
  <2> QED
    BY <2>1, <2>2 DEF Store!vars, Store!Next, Store!End, Recovered, View
<1>4. CASE log_append(o)
  <2>1. UNCHANGED <<disk, logd, head>> /\ pc'[Boot] = pc[Boot]
    BY <1>4, <1>a DEF log_append, Goto, diskVars
  <2>2. Active' = Active /\ o \in Active
    BY <1>4, <1>a DEF log_append, Goto, Active, Actors
  <2>3. pc[Boot] = "up" /\ arg[o] \in Blocks
    BY <1>4 DEF log_append, IInv, CountInv, TypeOK
  <2>4. cache' = [cache EXCEPT ![arg[o]] = @ \cup {o}]
    BY <1>4 DEF log_append
  <2>5. Store!Update(o, arg[o])
    BY <2>1, <2>2, <2>3, <2>4 DEF Store!Update, Recovered, View
  <2> QED
    BY <2>3, <2>5 DEF Store!Next
<1>5. CASE end_op(o)
  <2>1. UNCHANGED <<disk, logd, head, cache>> /\ ~ committing
    BY <1>5 DEF end_op, diskVars, memVars, IInv, CountInv, Counted
  <2>2. Active' = Active \ {o} /\ pc'[Boot] = pc[Boot]
    BY <1>5, <1>a, <2>1 DEF end_op, Goto, Woken, Active, Actors, CountInv, IInv
  <2> QED
    BY <2>1, <2>2 DEF Store!Next, Store!End, Recovered, View
<1> QED
  BY <1>1, <1>2, <1>3, <1>4, <1>5 DEF OpStep

\* Of the steps of commit() and recovery only the first write_head is visible.
LEMMA CommitRefines ==
  ASSUME IInv, NEW a \in Ops \cup {Boot}, CommitStep(a)
  PROVE  [Store!Next]_(Store!vars)
<1>a. DOMAIN pc = Actors /\ a \in Actors /\ Boot \in Actors
  BY LogAssumption DEF IInv, TypeOK, Actors
<1>b. /\ pc[Boot] \notin {"commit", "write_log", "write_head"}
      /\ Boot \notin Ops
  BY LogAssumption DEF IInv, CountInv
<1>1. CASE commit(a) \/ write_log_done(a) \/ install_trans_done(a) \/ clear(a)
  <2>1. UNCHANGED <<disk, logd, head, cache>>
    BY <1>1 DEF commit, write_log_done, install_trans_done, clear, diskVars, memVars
  <2>2. Active' = Active /\ (pc'[Boot] = "up" <=> pc[Boot] = "up")
    BY <1>1, <1>a, <1>b DEF commit, write_log_done, install_trans_done, clear, Goto, Return,
       Active, Actors
  <2> QED
    BY <2>1, <2>2 DEF Store!vars, Recovered, View
<1>2. CASE write_log(a)
  <2>1. /\ UNCHANGED <<disk, head, cache, pc>> /\ pc[a] = "write_log" /\ a \in Ops
    BY <1>2, <1>b DEF write_log, memVars
  <2>2. pc[Boot] = "up" /\ ~ Installing
    BY <2>1, <1>b, Alone DEF Installing, CommitPCs, IInv
  <2>3. head = <<>> /\ disk \in [Blocks -> Content]
    BY <2>2 DEF IInv, ContentInv, TypeOK
  <2>4. Recovered = disk /\ Recovered' = disk
    BY <2>1, <2>3, RecoveredEmpty DEF Recovered
  <2> QED
    BY <2>1, <2>4 DEF Store!vars, View, Active
<1>3. CASE write_head(a)
  <2>1. a \in Ops
    BY <1>3, <1>b DEF write_head
  <2> QED
    BY <1>3, <2>1, HeaderCommits DEF Store!Next
<1>4. CASE install_trans(a)
  BY <1>4, InstallHidden DEF Store!vars
<1>5. CASE erase(a)
  BY <1>5, EraseHidden DEF Store!vars
<1> QED
  BY <1>1, <1>2, <1>3, <1>4, <1>5 DEF CommitStep

\* Every step of the log is a step of the atomic store, or hidden from it.
LEMMA StoreStep ==
  ASSUME IInv, Disciplined, [Next]_vars
  PROVE  [Store!Next]_(Store!vars)
<1>a. DOMAIN pc = Actors /\ Boot \in Actors /\ Boot \notin Ops
  BY LogAssumption DEF IInv, TypeOK, Actors
<1>1. ASSUME NEW o \in Ops, OpStep(o) PROVE [Store!Next]_(Store!vars)
  BY <1>1, OpRefines
<1>2. ASSUME NEW o \in Ops, NEW b \in Blocks, log_write(o, b)
      PROVE  [Store!Next]_(Store!vars)
  BY <1>2, OpRefines
<1>3. ASSUME NEW a \in Actors, CommitStep(a) PROVE [Store!Next]_(Store!vars)
  <2>1. a \in Ops \cup {Boot}
    BY DEF Actors, Disciplined
  <2> QED
    BY <1>3, <2>1, CommitRefines
<1>4. CASE read_head
  <2>1. /\ UNCHANGED <<disk, logd, head, cache>>
        /\ pc[Boot] = "read_head" /\ pc'[Boot] = "install_trans"
        /\ \A o \in Ops : pc'[o] = pc[o]
    BY <1>4, <1>a DEF read_head, diskVars, Goto, Actors
  <2> QED
    BY <2>1 DEF Store!vars, Recovered, View, Active
<1>5. ASSUME NEW b \in Blocks, bget_recycle(b) PROVE [Store!Next]_(Store!vars)
  <2>1. UNCHANGED <<disk, logd, head, cache, pc>>
    BY <1>5, RecycleHarmless DEF IInv, bget_recycle, diskVars
  <2> QED
    BY <2>1 DEF Store!vars, Recovered, View, Active
<1>6. ASSUME Crash PROVE [Store!Next]_(Store!vars)
  <2>1. /\ UNCHANGED <<disk, logd, head>> /\ pc'[Boot] = "read_head"
        /\ \A o \in Ops : pc'[o] \in {"idle", "done", "dead"}
    BY <1>6, LogAssumption DEF Crash, diskVars, Actors
  <2>2. Recovered' = Recovered /\ View' = Recovered' /\ Active' = {}
    BY <2>1 DEF Recovered, View, Active
  <2> QED
    BY <2>2 DEF Store!Next, Store!Crash
<1>7. CASE UNCHANGED vars
  BY <1>7 DEF vars, Store!vars, Recovered, View, Active
<1>8. ASSUME NEW s \in Syncers, sys_sync(s) PROVE [Store!Next]_(Store!vars)
  BY <1>8 DEF Disciplined
<1> QED
  BY <1>1, <1>2, <1>3, <1>4, <1>5, <1>6, <1>7, <1>8 DEF Next, Terminated

LEMMA StoreInit ==
  ASSUME Init, Disciplined
  PROVE  Store!Init
<1>1. Recovered = [b \in Blocks |-> {}]
  BY RecoveredEmpty DEF Init, Recovered, Content
<1>2. View = Recovered /\ Active = {}
  <2>1. pc[Boot] = "read_head" /\ \A o \in Ops : pc[o] = "idle"
    BY LogAssumption DEF Init, Actors
  <2> QED
    BY <2>1 DEF View, Active
<1> QED
  BY <1>1, <1>2 DEF Store!Init

\* The log implements the atomic store: for any number of operations, blocks and
\* power failures a crash brings back whole operations only, reads return the
\* latest update, and only a commit with no operation active changes what
\* survives.
THEOREM LogImplementsStore ==
  ASSUME Disciplined
  PROVE  Spec => ImplementsStore
<1>1. Init => Store!Init
  BY StoreInit
<1>2. IInv /\ [Next]_vars => [Store!Next]_(Store!vars)
  BY StoreStep
<1> QED
  BY <1>1, <1>2, LogInvariant, PTL DEF Spec, ImplementsStore, Store!Spec

----------------------------------------------------------------------------
(* The safety properties the runs check.                                   *)

\* "The logging system only commits when there are no FS system calls active."
THEOREM LogCommitsAlone ==
  ASSUME Disciplined
  PROVE  Spec => []CommitsAlone
<1>1. ASSUME IInv PROVE CommitsAlone
  <2>1. SUFFICES ASSUME NEW a \in Committers PROVE Active = {} /\ Committers = {a}
    BY DEF CommitsAlone
  <2>2. a \in Ops /\ pc[a] \in CommitPCs /\ Committers = {p \in Ops : pc[p] \in CommitPCs}
    BY DEF Committers, CommitPCs, Disciplined
  <2>3. Counted = {} /\ \A p \in Ops : p # a => pc[p] \notin CommitPCs
    BY <1>1, <2>2, Alone DEF IInv
  <2> QED
    BY <2>2, <2>3 DEF Active, Counted
<1> QED
  BY <1>1, LogInvariant, PTL

\* When the log is at rest, whatever has been written survives a crash.
THEOREM LogQuietMeansDurable ==
  ASSUME Disciplined
  PROVE  Spec => []QuietMeansDurable
<1>1. ASSUME IInv PROVE QuietMeansDurable
  <2>1. SUFFICES ASSUME pc[Boot] = "up", outstanding = 0, ~ committing
                 PROVE  Recovered = cache /\ lh = <<>>
    BY DEF QuietMeansDurable
  <2>2. IsFiniteSet(Counted)
    BY LogAssumption, FS_Subset DEF Counted
  <2>3. Counted = {} /\ ~ Installing
    BY <1>1, <2>1, <2>2, FS_EmptySet DEF IInv, CountInv, Installing, CommitPCs
  <2>4. lh = <<>> /\ head = <<>> /\ dirty = RangeOf(lh)
    BY <1>1, <2>1, <2>3 DEF IInv, ContentInv
  <2>5. dirty = {}
    BY <2>4 DEF RangeOf
  <2>6. cache = disk /\ disk \in [Blocks -> Content]
    BY <1>1, <2>5 DEF IInv, ContentInv, TypeOK
  <2> QED
    BY <2>4, <2>6, RecoveredEmpty DEF Recovered
<1> QED
  BY <1>1, LogInvariant, PTL

\* The claims are finitely many, and claims lost never hurt.
LEMMA ClaimsFinite ==
  ASSUME TypeOK
  PROVE  IsFiniteSet(Claims) /\ Cardinality(Claims) \in Nat
<1>1. IsFiniteSet(1..OpBlocks)
  BY LogAssumption, FS_Interval
<1>2. IsFiniteSet(Ops \X (1..OpBlocks))
  BY <1>1, LogAssumption, FS_Product
<1> QED
  BY <1>2, FS_Subset, FS_CardinalityType DEF Claims

LEMMA ClaimsBound ==
  ASSUME NEW S \in SUBSET Ops, Claims' \subseteq S \X (1..OpBlocks)
  PROVE  Cardinality(Claims') \in Nat /\ Cardinality(Claims') <= Cardinality(S) * OpBlocks
<1>1. IsFiniteSet(S)
  BY LogAssumption, FS_Subset
<1>2. IsFiniteSet(1..OpBlocks) /\ Cardinality(1..OpBlocks) = OpBlocks
  BY LogAssumption, FS_Interval
<1>3. /\ IsFiniteSet(S \X (1..OpBlocks))
      /\ Cardinality(S \X (1..OpBlocks)) = Cardinality(S) * Cardinality(1..OpBlocks)
  BY <1>1, <1>2, FS_Product, Zenon
<1> QED
  BY <1>2, <1>3, FS_Subset, FS_CardinalityType

\* A sum that does not grow stays tight.
LEMMA TightFalls ==
  ASSUME NEW m \in Nat, NEW n \in Nat, n <= m, Tight(m)
  PROVE  Tight(n)
BY LogAssumption DEF Tight

\* A step that starts no operation, and adds nothing to the log or to what was written.
LEMMA TightKept ==
  ASSUME TypeOK, TightInv, lh' \in {lh, <<>>}, wrote' = wrote, Counted' \subseteq Counted
  PROVE  TightInv'
<1> SUFFICES ASSUME Counted' # {} PROVE Tight(Len(lh') + Cardinality(Claims'))
  BY DEF TightInv, Tight
<1>1. Tight(Len(lh) + Cardinality(Claims))
  BY DEF TightInv
<1>2. Claims' \subseteq Claims
  BY DEF Claims
<1>3. Cardinality(Claims') \in Nat /\ Cardinality(Claims) \in Nat
      /\ Cardinality(Claims') <= Cardinality(Claims)
  BY <1>2, ClaimsFinite, FS_Subset, FS_CardinalityType
<1>4. Len(lh) \in Nat /\ Len(lh') \in Nat /\ Len(lh') <= Len(lh)
  BY DEF TypeOK
<1> QED
  BY <1>1, <1>3, <1>4, TightFalls

\* begin_op: two operations at once leave a block of their reservations each, and one
\* that begins alone finds the log empty.
LEMMA BeginTight ==
  ASSUME IInv, Roomy, NEW o \in Ops, begin_op(o)
  PROVE  TightInv'
<1>1. /\ Counted' = Counted \cup {o} /\ o \notin Counted /\ Counted \subseteq Ops
      /\ pc[o] = "begin" /\ lh' = lh
  BY DEF begin_op, Counted, IInv, TypeOK, Goto, Actors, memVars
<1>2. IsFiniteSet(Counted)
  BY <1>1, LogAssumption, FS_Subset
<1>3. Cardinality(Counted) = outstanding /\ Cardinality(Counted \cup {o}) = outstanding + 1
  BY <1>1, <1>2, FS_AddElement DEF IInv, CountInv
<1>4. Claims' \subseteq (Counted \cup {o}) \X (1..OpBlocks)
  BY <1>1 DEF Claims
<1>5. Cardinality(Claims') \in Nat /\ Cardinality(Claims') <= (outstanding + 1) * OpBlocks
  <2>1. Counted \cup {o} \in SUBSET Ops
    BY <1>1
  <2> QED
    BY <1>3, <1>4, <2>1, ClaimsBound
<1>6. Len(lh) \in Nat /\ outstanding \in Nat /\ OpBlocks \in Nat /\ MAXOPBLOCKS \in Nat /\ LOGSIZE \in Nat
  BY LogAssumption DEF IInv, TypeOK
<1>7. CASE outstanding = 0
  <2>1. Counted = {}
    BY <1>2, <1>3, <1>7, FS_EmptySet
  <2>2. pc[Boot] = "up" /\ ~ committing
    BY <1>1 DEF begin_op, MustWait, IInv, CountInv
  <2>3. lh = <<>>
    BY <2>1, <2>2 DEF IInv, ContentInv
  <2>4. Len(lh') + Cardinality(Claims') <= OpBlocks
    BY <1>1, <1>5, <1>6, <1>7, <2>3
  <2> QED
    BY <2>4 DEF TightInv, Tight
<1>8. CASE outstanding > 0
  <2>1. Len(lh) + (outstanding + 1) * MAXOPBLOCKS <= LOGSIZE
    <3>1. ~ (Len(lh) + (outstanding + 1) * MAXOPBLOCKS > LOGSIZE)
      BY DEF begin_op, MustWait, MightExhaustLog
    <3>2. (outstanding + 1) * MAXOPBLOCKS \in Nat
      BY <1>6
    <3> QED
      BY <1>6, <3>1, <3>2
  <2>2. (outstanding + 1) * OpBlocks <= (outstanding + 1) * MAXOPBLOCKS - 2
    <3>1. PICK k \in Nat : k = outstanding + 1 /\ k >= 2
      BY <1>6, <1>8
    <3>2. PICK d \in Nat : MAXOPBLOCKS = OpBlocks + d /\ d >= 1
      <4>1. MAXOPBLOCKS - OpBlocks \in Nat /\ MAXOPBLOCKS - OpBlocks >= 1
        BY <1>6 DEF Roomy
      <4> QED
        BY <1>6, <4>1
    <3>3. k * (OpBlocks + d) = k * OpBlocks + k * d
      BY <1>6
    <3>4. k * d >= k
      BY <3>2
    <3>5. k * OpBlocks \in Nat /\ k * d \in Nat
      BY <1>6
    <3> QED
      BY <3>1, <3>2, <3>3, <3>4, <3>5
  <2>3. (outstanding + 1) * OpBlocks \in Nat /\ (outstanding + 1) * MAXOPBLOCKS \in Nat
    BY <1>6
  <2>4. Len(lh') + Cardinality(Claims') <= LOGSIZE - 2
    BY <1>1, <1>5, <1>6, <2>1, <2>2, <2>3
  <2> QED
    BY <2>4 DEF TightInv, Tight
<1> QED
  BY <1>6, <1>7, <1>8

\* A block that is new to the log takes up one claim of its operation.
LEMMA AppendTight ==
  ASSUME IInv, TightInv, NEW o \in Ops, log_append(o)
  PROVE  TightInv'
<1> DEFINE b == arg[o]
           c == Cardinality(wrote[o])
<1>1. b \in Blocks /\ o \in Counted /\ IsFiniteSet(wrote[o])
  BY DEF log_append, IInv, CountInv, TypeOK, SpaceInv, Counted
<1>2. wrote' = [wrote EXCEPT ![o] = wrote[o] \cup {b}] /\ Counted' = Counted
  BY DEF log_append, Counted, Goto, IInv, TypeOK, Actors
<1>3. wrote'[o] = wrote[o] \cup {b} /\ \A p \in Ops : p # o => wrote'[p] = wrote[p]
  BY <1>2 DEF IInv, TypeOK
<1>4. c \in Nat /\ Cardinality(wrote'[o]) = IF b \in wrote[o] THEN c ELSE c + 1
  <2>1. c \in Nat
    BY <1>1, FS_CardinalityType
  <2>2. CASE b \in wrote[o]
    <3>1. wrote[o] \cup {b} = wrote[o]
      BY <2>2
    <3> QED
      BY <2>1, <2>2, <3>1, <1>3
  <2>3. CASE b \notin wrote[o]
    <3>1. Cardinality(wrote[o] \cup {b}) = c + 1
      BY <1>1, <2>3, FS_AddElement
    <3> QED
      BY <2>1, <2>3, <3>1, <1>3
  <2> QED
    BY <2>2, <2>3
<1>5. Claims' \subseteq Claims
  <2>1. SUFFICES ASSUME NEW t \in Claims' PROVE t \in Claims
    OBVIOUS
  <2>2. CASE t[1] = o
    <3>1. t \in Ops \X (1..OpBlocks) /\ t[2] > Cardinality(wrote'[o]) /\ t[1] \in Counted
      BY <1>2, <2>2 DEF Claims
    <3>2. t[2] > c
      BY <1>4, <3>1, LogAssumption
    <3> QED
      BY <2>2, <3>1, <3>2 DEF Claims
  <2>3. CASE t[1] # o
    BY <1>2, <1>3, <2>3 DEF Claims
  <2> QED
    BY <2>2, <2>3
<1>6. /\ Len(lh) \in Nat /\ IsFiniteSet(Claims) /\ Cardinality(Claims) \in Nat
      /\ Tight(Len(lh) + Cardinality(Claims))
  BY <1>1, ClaimsFinite DEF IInv, TypeOK, TightInv
<1>7. CASE b \in RangeOf(lh)
  <2>1. lh' = lh
    BY <1>7 DEF log_append, Absorb
  <2>2. Cardinality(Claims') \in Nat /\ Cardinality(Claims') <= Cardinality(Claims)
    BY <1>5, <1>6, FS_Subset, FS_CardinalityType
  <2>3. Tight(Len(lh') + Cardinality(Claims'))
    BY <1>6, <2>1, <2>2, TightFalls
  <2> QED
    BY <2>3 DEF TightInv, Tight
<1>8. CASE b \notin RangeOf(lh)
  <2>1. Len(lh') = Len(lh) + 1
    BY <1>1, <1>8 DEF log_append, Absorb, IInv, TypeOK
  <2>2. b \notin wrote[o]
    BY <1>1, <1>8 DEF IInv, SpaceInv
  <2>3. c + 1 <= OpBlocks
    <3>1. Cardinality(wrote[o] \cup {arg[o]}) <= OpBlocks
      BY DEF IInv, SpaceInv, log_append
    <3> QED
      BY <3>1, <1>3, <1>4, <2>2
  <2>4. <<o, c + 1>> \in Claims
    BY <1>1, <1>4, <2>3, LogAssumption DEF Claims
  <2>5. <<o, c + 1>> \notin Claims'
    BY <1>4, <2>2 DEF Claims
  <2>6. Claims' \subseteq Claims \ {<<o, c + 1>>}
    BY <1>5, <2>5
  <2>7. /\ IsFiniteSet(Claims \ {<<o, c + 1>>})
        /\ Cardinality(Claims \ {<<o, c + 1>>}) = Cardinality(Claims) - 1
    BY <1>6, <2>4, FS_RemoveElement
  <2>8. Cardinality(Claims') \in Nat /\ Cardinality(Claims') <= Cardinality(Claims) - 1
    BY <2>6, <2>7, FS_Subset, FS_CardinalityType
  <2>9. Tight(Len(lh') + Cardinality(Claims'))
    BY <1>6, <2>1, <2>8, TightFalls
  <2> QED
    BY <2>9 DEF TightInv, Tight
<1> QED
  BY <1>7, <1>8

\* Two blocks of the log stay free while operations run.
LEMMA TightStep ==
  ASSUME IInv, TightInv, Disciplined, Roomy, [Next]_vars
  PROVE  TightInv'
<1>a. pc \in [Actors -> {"idle", "begin", "asleep", "run", "append", "commit",
                        "write_log", "write_head", "install_trans", "clear",
                        "erase", "unlock", "done", "dead", "read_head", "up",
                        "panic"}]
  BY DEF IInv, TypeOK
<1>b. TypeOK
  BY DEF IInv
<1>c. Ops \cap Syncers = {} /\ Boot \notin Ops
  BY LogAssumption
<1> USE <1>a, <1>c DEF Actors, Goto
<1>1. ASSUME NEW o \in Ops, call_op(o) \/ begin_op_sleep(o) PROVE TightInv'
  BY <1>b, <1>1, TightKept DEF call_op, begin_op_sleep, Counted, memVars
<1>2. ASSUME NEW o \in Ops, begin_op(o) PROVE TightInv'
  BY <1>2, BeginTight
<1>3. ASSUME NEW o \in Ops, NEW b \in Blocks, log_write(o, b) PROVE TightInv'
  BY <1>b, <1>3, TightKept DEF log_write, Counted, memVars
<1>4. ASSUME NEW o \in Ops, log_append(o) PROVE TightInv'
  BY <1>4, AppendTight
<1>5. ASSUME NEW o \in Ops, end_op(o) \/ end_op_unlock(o) PROVE TightInv'
  <2>1. \A p \in Ops : \/ pc'[p] = pc[p]
                       \/ pc[p] = "asleep" /\ pc'[p] = "begin"
                       \/ p = o /\ pc[p] \in {"run", "unlock"}
                          /\ pc'[p] \in {"panic", "commit", "done"}
    BY <1>5 DEF end_op, end_op_unlock, Woken
  <2>2. end_op(o) => ~ committing
    BY DEF end_op, IInv, CountInv, Counted
  <2>3. Counted' \subseteq Counted
    BY <1>5, <2>1, <2>2 DEF Counted, end_op, end_op_unlock, Woken
  <2> QED
    BY <1>b, <1>5, <2>3, TightKept DEF end_op, end_op_unlock, memVars
<1>6. ASSUME NEW s \in Syncers, sys_sync(s) PROVE TightInv'
  BY <1>6 DEF Disciplined
<1>7. ASSUME NEW a \in Actors, CommitStep(a) PROVE TightInv'
  <2>1. /\ wrote' = wrote /\ lh' \in {lh, <<>>}
        /\ \E l \in {"write_log", "write_head", "install_trans", "clear", "erase",
                     "unlock", "done", "up"} : pc' = [pc EXCEPT ![a] = l] \/ pc' = pc
    BY <1>7 DEF CommitStep, commit, write_log, write_log_done, write_head, install_trans,
                install_trans_done, clear, erase, Return, memVars
  <2> QED
    BY <1>b, <2>1, TightKept DEF Counted
<1>8. CASE read_head
  <2>1. Counted' = {}
    BY <1>8 DEF read_head, IInv, CountInv, Counted
  <2> QED
    BY <2>1 DEF TightInv, Tight
<1>9. ASSUME NEW b \in Blocks, bget_recycle(b) PROVE TightInv'
  BY <1>b, <1>9, TightKept DEF bget_recycle, Counted
<1>10. CASE Crash
  <2>1. \A o \in Ops : pc'[o] \in {"idle", "done", "dead"}
    BY <1>10 DEF Crash
  <2> QED
    BY <2>1 DEF TightInv, Tight, Counted
<1>11. CASE UNCHANGED vars
  BY <1>b, <1>11, TightKept DEF vars, Counted
<1> QED
  BY <1>1, <1>2, <1>3, <1>4, <1>5, <1>6, <1>7, <1>8, <1>9, <1>10, <1>11
  DEF Next, OpStep, Terminated

\* log_write's test does not fire for an operation in progress.
LEMMA RoomLeft ==
  ASSUME IInv, TightInv, Roomy, NEW o \in Counted
  PROVE  Len(lh) < LOGSIZE /\ Len(lh) < NLOG - 1
<1>1. Tight(Len(lh) + Cardinality(Claims))
  BY DEF TightInv
<1>2. Len(lh) \in Nat /\ Cardinality(Claims) \in Nat
  BY ClaimsFinite DEF IInv, TypeOK
<1>3. OpBlocks \in Nat /\ LOGSIZE \in Nat /\ NLOG \in Nat
  BY LogAssumption
<1> QED
  BY <1>1, <1>2, <1>3 DEF Tight, Roomy

\* log_write never panics, not even with the log that mkfs makes, where its test fires one
\* block before the log is full: one block of slack in what each operation logs is enough.
THEOREM LogNeverTooBig ==
  ASSUME Disciplined, Roomy
  PROVE  Spec => []NeverTooBig
<1>1. Init => NeverTooBig /\ TightInv
  BY LogAssumption DEF Init, NeverTooBig, TightInv, Tight, Counted, Actors
<1>2. ASSUME IInv, NeverTooBig, TightInv, [Next]_vars PROVE NeverTooBig'
  <2>a. DOMAIN pc = Actors
    BY <1>2 DEF IInv, TypeOK
  <2>1. ASSUME NEW o \in Ops, NEW b \in Blocks, log_write(o, b) PROVE NeverTooBig'
    <3>1. pc[o] = "run" /\ Cardinality(wrote[o] \cup {b}) <= OpBlocks
      BY <2>1 DEF log_write
    <3>2. o \in Counted
      BY <3>1 DEF Counted
    <3>3. ~ TooBig
      <4>1. Len(lh) \in Nat /\ LOGSIZE \in Nat /\ NLOG \in Nat
        BY <1>2, LogAssumption DEF IInv, TypeOK
      <4> QED
        BY <1>2, <3>2, <4>1, RoomLeft DEF TooBig
    <3>4. ~ (outstanding < 1)
      <4>1. IsFiniteSet(Counted) /\ Counted # {}
        BY <3>2, LogAssumption, FS_Subset DEF Counted
      <4> QED
        BY <1>2, <4>1, FS_EmptySet, FS_CardinalityType DEF IInv, CountInv
    <3>5. pc' = [pc EXCEPT ![o] = "append"]
      BY <2>1, <3>3, <3>4 DEF log_write, Goto
    <3> QED
      BY <1>2, <2>a, <3>5 DEF NeverTooBig
  <2>2. ASSUME NEW o \in Ops, OpStep(o) PROVE NeverTooBig'
    <3>1. end_op(o) => ~ committing
      BY <1>2 DEF end_op, IInv, CountInv, Counted
    <3> QED
      BY <1>2, <2>a, <2>2, <3>1 DEF OpStep, call_op, begin_op_sleep, begin_op, log_append,
         end_op, end_op_unlock, Goto, Woken, NeverTooBig, Actors
  <2>3. ASSUME NEW a \in Actors, CommitStep(a) PROVE NeverTooBig'
    <3>1. PICK l \in {"write_log", "write_head", "install_trans", "clear", "erase",
                      "unlock", "done", "up"} : pc' = pc \/ pc' = [pc EXCEPT ![a] = l]
      <4>1. CASE commit(a)
        BY <4>1 DEF commit, Return, Goto
      <4>2. CASE erase(a)
        BY <4>2 DEF erase, Return, Goto
      <4>3. CASE \/ write_log(a) \/ write_log_done(a) \/ write_head(a) \/ install_trans(a)
                 \/ install_trans_done(a) \/ clear(a)
        BY <4>3 DEF write_log, write_log_done, write_head, install_trans,
           install_trans_done, clear, Goto
      <4> QED
        BY <2>3, <4>1, <4>2, <4>3 DEF CommitStep
    <3> QED
      <4>1. ASSUME NEW o \in Ops PROVE pc'[o] \in {pc[o], l}
        BY <1>2, <3>1 DEF IInv, TypeOK, Actors
      <4> QED
        BY <1>2, <4>1 DEF NeverTooBig
  <2>4. CASE read_head \/ Crash \/ UNCHANGED vars \/ (\E b \in Blocks : bget_recycle(b))
             \/ (\E s \in Syncers : sys_sync(s))
    BY <1>2, <2>a, <2>4 DEF read_head, Crash, vars, bget_recycle, sys_sync, Goto, NeverTooBig,
       Actors
  <2> QED
    BY <1>2, <2>1, <2>2, <2>3, <2>4 DEF Next, Terminated
<1>3. ASSUME IInv, TightInv, [Next]_vars PROVE TightInv'
  BY <1>3, TightStep
<1> QED
  BY <1>1, <1>2, <1>3, LogInvariant, PTL DEF Spec

\* How a step may move an operation, as far as its history is concerned.
LEMMA HistoryMoves ==
  ASSUME IInv, Disciplined, [Next]_vars, NEW p \in Ops
  PROVE  /\ p \in Active' => p \in Active \/ pc[p] = "begin"
         /\ Fresh(p)' => Fresh(p)
         /\ wrote'[p] = wrote[p] \/ log_append(p)
<1>a. DOMAIN pc = Actors /\ p \in Actors /\ wrote \in [Ops -> SUBSET Blocks]
      /\ pc = [x \in Actors |-> pc[x]]
  BY DEF IInv, TypeOK, Actors
<1>1. ASSUME NEW o \in Ops, OpStep(o) PROVE
         /\ p \in Active' => p \in Active \/ pc[p] = "begin"
         /\ Fresh(p)' => Fresh(p)
         /\ wrote'[p] = wrote[p] \/ log_append(p)
  <2>1. CASE log_append(o)
    BY <1>a, <2>1 DEF log_append, Goto, Active, Fresh
  <2>2. CASE ~ log_append(o)
    <3>1. wrote' = wrote
      BY <1>1, <2>2 DEF OpStep, call_op, begin_op_sleep, begin_op, end_op, end_op_unlock
    <3>2. \/ pc'[p] = pc[p]
          \/ pc[p] \in {"idle", "begin", "asleep"}
             /\ \/ pc'[p] \in {"begin", "asleep"}
                \/ (pc[p] = "begin" /\ pc'[p] = "run")
          \/ pc'[p] \in {"commit", "done", "panic"}
      <4>1. CASE call_op(o)
        BY <1>a, <4>1 DEF call_op, Goto
      <4>2. CASE begin_op_sleep(o)
        BY <1>a, <4>2 DEF begin_op_sleep, Goto
      <4>3. CASE begin_op(o)
        BY <1>a, <4>3 DEF begin_op, Goto
      <4>4. CASE end_op(o)
        <5>1. CASE committing
          BY <1>a, <4>4, <5>1 DEF end_op
        <5>2. CASE ~ committing /\ LastOut
          BY <1>a, <4>4, <5>2 DEF end_op
        <5>3. CASE ~ committing /\ ~ LastOut
          <6>1. pc' = Woken([pc EXCEPT ![o] = "done"])
            BY <4>4, <5>3 DEF end_op
          <6> QED
            BY <1>a, <6>1 DEF Woken
        <5> QED
          BY <5>1, <5>2, <5>3
      <4>5. CASE end_op_unlock(o)
        <5>1. pc' = Woken([pc EXCEPT ![o] = "done"])
          BY <4>5 DEF end_op_unlock
        <5> QED
          BY <1>a, <5>1 DEF Woken
      <4> QED
        BY <1>1, <2>2, <4>1, <4>2, <4>3, <4>4, <4>5 DEF OpStep
    <3> QED
      BY <3>1, <3>2 DEF Active, Fresh
  <2> QED
    BY <2>1, <2>2
<1>2. ASSUME NEW o \in Ops, NEW b \in Blocks, log_write(o, b)
      PROVE  /\ p \in Active' => p \in Active
             /\ Fresh(p)' => Fresh(p)
             /\ wrote'[p] = wrote[p]
  BY <1>a, <1>2 DEF log_write, Goto, Active, Fresh
<1>3. ASSUME NEW a \in Actors, CommitStep(a)
      PROVE  /\ p \in Active' => p \in Active
             /\ Fresh(p)' => Fresh(p)
             /\ wrote'[p] = wrote[p]
  <2>1. wrote' = wrote
    BY <1>3 DEF CommitStep, commit, write_log, write_log_done, write_head,
       install_trans, install_trans_done, clear, erase
  <2>2. PICK l \in {"write_log", "write_head", "install_trans", "clear", "erase",
                    "unlock", "done", "up"} : pc' = pc \/ pc' = [pc EXCEPT ![a] = l]
    <3>1. CASE commit(a)
      BY <3>1 DEF commit, Return, Goto
    <3>2. CASE erase(a)
      BY <3>2 DEF erase, Return, Goto
    <3>3. CASE \/ write_log(a) \/ write_log_done(a) \/ write_head(a) \/ install_trans(a)
               \/ install_trans_done(a) \/ clear(a)
      BY <3>3 DEF write_log, write_log_done, write_head, install_trans,
         install_trans_done, clear, Goto
    <3> QED
      BY <1>3, <3>1, <3>2, <3>3 DEF CommitStep
  <2>3. pc'[p] \in {pc[p], l}
    BY <1>a, <2>2
  <2> QED
    BY <2>1, <2>3 DEF Active, Fresh
<1>4. ASSUME read_head \/ UNCHANGED vars \/ (\E b \in Blocks : bget_recycle(b))
             \/ (\E s \in Syncers : sys_sync(s))
      PROVE  /\ p \in Active' => p \in Active
             /\ Fresh(p)' => Fresh(p)
             /\ wrote'[p] = wrote[p]
  BY <1>a, <1>4 DEF read_head, vars, bget_recycle, sys_sync, Goto, Active, Fresh
<1>5. ASSUME Crash
      PROVE  /\ p \in Active' => p \in Active
             /\ Fresh(p)' => Fresh(p)
             /\ wrote'[p] = wrote[p]
  <2>1. wrote' = wrote /\ ((pc'[p] = pc[p] /\ pc[p] \in {"idle", "done"}) \/ pc'[p] = "dead")
    BY <1>a, <1>5, LogAssumption DEF Crash
  <2> QED
    BY <2>1 DEF Active, Fresh
<1> QED
  BY <1>1, <1>2, <1>3, <1>4, <1>5 DEF Next, Terminated

\* log_append is the abstract update.
LEMMA AppendUpdates ==
  ASSUME IInv, NEW o \in Ops, log_append(o)
  PROVE  /\ o \in Active /\ Active' = Active /\ Recovered' = Recovered
         /\ arg[o] \in Blocks
         /\ View' = [View EXCEPT ![arg[o]] = @ \cup {o}]
         /\ wrote' = [wrote EXCEPT ![o] = @ \cup {arg[o]}]
<1>a. DOMAIN pc = Actors /\ o \in Actors /\ o # Boot /\ Boot \in Actors
  BY LogAssumption DEF IInv, TypeOK, Actors
<1>1. UNCHANGED <<disk, logd, head>> /\ pc'[Boot] = pc[Boot]
  BY <1>a DEF log_append, Goto, diskVars
<1>2. Active' = Active /\ o \in Active
  BY <1>a DEF log_append, Goto, Active, Actors
<1>3. pc[Boot] = "up" /\ arg[o] \in Blocks
  BY DEF log_append, IInv, CountInv, TypeOK
<1> QED
  BY <1>1, <1>2, <1>3 DEF log_append, Recovered, View

LEMMA ViewType ==
  ASSUME IInv PROVE View \in [Blocks -> Content] /\ DOMAIN Recovered = Blocks
                    /\ wrote \in [Ops -> SUBSET Blocks]
<1>1. ASSUME NEW b \in Blocks PROVE Recovered[b] \in Content
  <2>1. CASE b \in RangeOf(head)
    <3>1. PICK i \in 1..Len(head) : head[i] = b
      BY <2>1 DEF RangeOf, IInv, TypeOK
    <3>2. Recovered[b] = logd[i]
      BY <3>1, RecoveredLogged DEF IInv, TypeOK, ContentInv, Recovered
    <3>3. i \in Slots
      BY <3>1, LogAssumption DEF IInv, SpaceInv, Slots, TypeOK
    <3> QED
      BY <3>2, <3>3 DEF IInv, TypeOK
  <2>2. CASE b \notin RangeOf(head)
    BY <2>2, RecoveredHome DEF IInv, TypeOK, Recovered
  <2> QED
    BY <2>1, <2>2
<1> QED
  BY <1>1 DEF View, Recovered, RecoveredFrom, IInv, TypeOK

\* HistoryInv across a step of log_append.
LEMMA HistoryAppend ==
  ASSUME IInv, HistoryInv, NEW o \in Ops, log_append(o),
         \A p \in Ops : Fresh(p)' => Fresh(p)
  PROVE  HistoryInv'
<1>1. /\ o \in Active /\ Active' = Active /\ Recovered' = Recovered
      /\ arg[o] \in Blocks
      /\ View' = [View EXCEPT ![arg[o]] = @ \cup {o}]
      /\ wrote' = [wrote EXCEPT ![o] = @ \cup {arg[o]}]
  BY AppendUpdates
<1>2. View \in [Blocks -> Content] /\ wrote \in [Ops -> SUBSET Blocks]
  BY ViewType
<1>3. \A b \in Blocks : View'[b] = IF b = arg[o] THEN View[b] \cup {o} ELSE View[b]
  BY <1>1, <1>2
<1>4. \A p \in Ops : wrote'[p] = IF p = o THEN wrote[p] \cup {arg[o]} ELSE wrote[p]
  BY <1>1, <1>2
<1>5. Active \subseteq Ops /\ \A b \in wrote[o] : o \in View[b] /\ b \in Blocks
  BY <1>1, <1>2 DEF Active, HistoryInv
<1>6. \A b \in Blocks : o \notin Recovered[b]
  BY <1>1 DEF HistoryInv, AllOrNothing
<1>7. \A b \in wrote'[o] : o \in View'[b]
  BY <1>1, <1>3, <1>4, <1>5
<1>8. AllOrNothing'
  BY <1>1, <1>4, <1>6 DEF HistoryInv, AllOrNothing
<1>9. ASSUME NEW p \in Ops, p # o
      PROVE  /\ wrote'[p] = wrote[p]
             /\ \A b \in Blocks : p \in View'[b] <=> p \in View[b]
  BY <1>3, <1>4, <1>9
<1>10. ASSUME NEW p \in Ops
       PROVE  /\ p \in Active' => \A b \in wrote'[p] : p \in View'[b]
              /\ (\E b \in Blocks : p \in View'[b]) => \A b \in wrote'[p] : p \in View'[b]
              /\ Fresh(p)' => \A b \in Blocks : p \notin View'[b] /\ p \notin Recovered'[b]
  <2>1. CASE p = o
    BY <1>1, <1>7, <2>1 DEF Active, Fresh, log_append, Goto, IInv, TypeOK, Actors
  <2>2. CASE p # o
    BY <1>1, <1>2, <1>9, <2>2 DEF HistoryInv
  <2> QED
    BY <2>1, <2>2
<1>11. \A b \in Blocks : Recovered'[b] \subseteq View'[b]
  BY <1>1, <1>3 DEF HistoryInv
<1> QED
  BY <1>1, <1>5, <1>8, <1>10, <1>11 DEF HistoryInv

\* HistoryInv across any other step, from the abstract step it maps to.
LEMMA HistoryStep ==
  ASSUME IInv, HistoryInv, Disciplined, [Next]_vars
  PROVE  HistoryInv' /\ \A b \in Blocks : Recovered[b] \subseteq Recovered'[b]
<1>1. \A p \in Ops : /\ p \in Active' => p \in Active \/ pc[p] = "begin"
                     /\ Fresh(p)' => Fresh(p)
                     /\ wrote'[p] = wrote[p] \/ log_append(p)
  BY HistoryMoves
<1>2. CASE \E o \in Ops : log_append(o)
  BY <1>1, <1>2, HistoryAppend, AppendUpdates
<1>3. CASE ~ \E o \in Ops : log_append(o)
  <2>1. \A p \in Ops : wrote'[p] = wrote[p]
    BY <1>1, <1>3
  <2>2. /\ View \in [Blocks -> Content] /\ wrote \in [Ops -> SUBSET Blocks]
        /\ Active \subseteq Ops /\ Active' \subseteq Ops
    BY ViewType DEF Active
  <2>3. \A p \in Ops : pc[p] = "begin" => wrote[p] = {} /\ Fresh(p)
    BY DEF IInv, SpaceInv, Fresh
  <2>4. \A p \in Active : ~ Fresh(p)
    BY DEF Active, Fresh
  <2>5. [Store!Next]_(Store!vars)
    BY StoreStep
  <2>6. CASE UNCHANGED <<Recovered, View>>
    <3>1. AllOrNothing'
      BY <1>1, <2>1, <2>3, <2>6 DEF HistoryInv, AllOrNothing
    <3>2. \A o \in Active' : \A b \in wrote'[o] : o \in View'[b]
      BY <1>1, <2>1, <2>2, <2>3, <2>6 DEF HistoryInv
    <3> QED
      BY <1>1, <2>1, <2>2, <2>6, <3>1, <3>2 DEF HistoryInv
  <2>7. CASE \E o \in Ops, b \in Blocks : Store!Update(o, b)
    <3>1. PICK o \in Ops, b \in Blocks : Store!Update(o, b)
      BY <2>7
    <3>2. /\ o \in Active /\ Active' = Active /\ Recovered' = Recovered
          /\ \A c \in Blocks : View'[c] = IF c = b THEN View[c] \cup {o} ELSE View[c]
      BY <2>2, <3>1 DEF Store!Update
    <3>3. \A c \in wrote[o] : o \in View[c] /\ c \in Blocks
      BY <2>2, <3>2 DEF HistoryInv
    <3>4. ASSUME NEW p \in Ops
          PROVE  /\ p \in Active' => \A c \in wrote'[p] : p \in View'[c]
                 /\ (\E c \in Blocks : p \in View'[c]) => \A c \in wrote'[p] : p \in View'[c]
                 /\ Fresh(p)' => \A c \in Blocks : p \notin View'[c] /\ p \notin Recovered'[c]
      <4>1. CASE p = o
        <5>1. ~ Fresh(p)'
          BY <1>1, <2>4, <3>2, <4>1
        <5>2. wrote'[p] = wrote[o]
          BY <2>1, <4>1
        <5>3. \A c \in wrote[o] : o \in View'[c]
          BY <3>2, <3>3
        <5> QED
          BY <4>1, <5>1, <5>2, <5>3
      <4>2. CASE p # o
        <5>1. wrote'[p] = wrote[p] /\ wrote[p] \subseteq Blocks
          BY <2>1, <2>2
        <5>2. \A c \in Blocks : p \in View'[c] <=> p \in View[c]
          BY <3>2, <4>2
        <5>3. p \in Active' => \A c \in wrote[p] : p \in View[c]
          BY <3>2 DEF HistoryInv
        <5>4. (\E c \in Blocks : p \in View[c]) => \A c \in wrote[p] : p \in View[c]
          BY DEF HistoryInv
        <5>5. Fresh(p)' => \A c \in Blocks : p \notin View[c] /\ p \notin Recovered'[c]
          BY <1>1, <3>2 DEF HistoryInv
        <5> QED
          BY <5>1, <5>2, <5>3, <5>4, <5>5
      <4> QED
        BY <4>1, <4>2
    <3>5. AllOrNothing'
      BY <2>1, <3>2 DEF HistoryInv, AllOrNothing
    <3>6. \A c \in Blocks : Recovered'[c] \subseteq View'[c] /\ Recovered[c] \subseteq Recovered'[c]
      BY <3>2 DEF HistoryInv
    <3> QED
      BY <2>2, <3>4, <3>5, <3>6 DEF HistoryInv
  <2>8. CASE Store!Commit
    <3>1. Recovered' = View /\ View' = View /\ Active' = {} /\ Active = {}
      BY <2>8 DEF Store!Commit
    <3>2. AllOrNothing'
      BY <2>1, <3>1 DEF HistoryInv, AllOrNothing
    <3>3. \A c \in Blocks : Recovered'[c] \subseteq View'[c] /\ Recovered[c] \subseteq Recovered'[c]
      BY <3>1 DEF HistoryInv
    <3> QED
      BY <1>1, <2>1, <3>1, <3>2, <3>3 DEF HistoryInv
  <2>9. CASE Store!Crash
    <3>1. Recovered' = Recovered /\ View' = Recovered /\ Active' = {}
      BY <2>9 DEF Store!Crash
    <3>2. AllOrNothing'
      BY <2>1, <3>1 DEF HistoryInv, AllOrNothing
    <3> QED
      BY <1>1, <2>1, <3>1, <3>2 DEF HistoryInv, AllOrNothing
  <2> QED
    BY <2>5, <2>6, <2>7, <2>8, <2>9
    DEF Store!Next, Store!vars, Store!Begin, Store!End
<1> QED
  BY <1>2, <1>3

LEMMA HistoryInit ==
  ASSUME Init, Disciplined PROVE HistoryInv
<1>1. Store!Init
  BY StoreInit
<1>2. \A o \in Ops : wrote[o] = {}
  BY DEF Init
<1> QED
  BY <1>1, <1>2 DEF Store!Init, HistoryInv, AllOrNothing

\* No crash ever brings back part of an operation.
THEOREM LogAllOrNothing ==
  ASSUME Disciplined
  PROVE  Spec => []AllOrNothing
<1>1. Init => HistoryInv
  BY HistoryInit
<1>2. IInv /\ HistoryInv /\ [Next]_vars => HistoryInv'
  BY HistoryStep
<1>3. HistoryInv => AllOrNothing
  BY DEF HistoryInv
<1> QED
  BY <1>1, <1>2, <1>3, LogInvariant, PTL DEF Spec

\* What has once survived survives every later crash.
THEOREM LogNeverForgets ==
  ASSUME Disciplined
  PROVE  Spec => NeverForgets
<1>1. Init => HistoryInv
  BY HistoryInit
<1>2. IInv /\ HistoryInv /\ [Next]_vars => HistoryInv'
  BY HistoryStep
<1>3. IInv /\ HistoryInv /\ [Next]_vars
        => [\A b \in Blocks : Recovered[b] \subseteq Recovered'[b]]_vars
  BY HistoryStep
<1> QED
  BY <1>1, <1>2, <1>3, LogInvariant, PTL DEF Spec, NeverForgets
\* B_DIRTY pins exactly the logged blocks that are not yet home.
LEMMA PinnedByInvariant ==
  ASSUME IInv, Disciplined
  PROVE  PinnedUntilInstalled
<1> DEFINE gone(j) == \E a \in Actors : \/ pc[a] = "install_trans" /\ j <= tail[a]
                                        \/ pc[a] = "clear"
           home == {lh[i] : i \in {j \in DOMAIN lh : gone(j)}}
<1> SUFFICES ASSUME pc[Boot] = "up" PROVE dirty = RangeOf(lh) \ home
  BY DEF PinnedUntilInstalled
<1>1. Actors = Ops \cup {Boot}
  BY DEF Actors, Disciplined
<1>2. DOMAIN lh = 1..Len(lh) /\ Len(lh) \in Nat /\ NoDup(lh)
  BY DEF IInv, TypeOK, ContentInv
<1>3. CASE \E a \in Ops : pc[a] = "install_trans"
  <2>1. PICK a \in Ops : pc[a] = "install_trans"
    BY <1>3
  <2>2. \A p \in Actors \ {a} : pc[p] \notin {"install_trans", "clear"}
    BY <1>1, <2>1 DEF IInv, CountInv, CommitPCs
  <2>3. /\ tail[a] \in Nat /\ tail[a] <= Len(lh) /\ a # Boot
        /\ dirty = {lh[i] : i \in tail[a]+1 .. Len(lh)}
    BY <1>1, <2>1, LogAssumption DEF IInv, TypeOK, ContentInv, InstallInv
  <2>4. \A j \in DOMAIN lh : gone(j) <=> j <= tail[a]
    BY <1>1, <2>1, <2>2
  <2>5. home = {lh[i] : i \in {j \in DOMAIN lh : j <= tail[a]}}
    BY <2>4
  <2> HIDE DEF home
  <2>6. \A b : b \in dirty <=> \E i \in DOMAIN lh : i > tail[a] /\ b = lh[i]
    BY <1>2, <2>3
  <2>7. \A b : b \in home <=> \E i \in DOMAIN lh : i <= tail[a] /\ b = lh[i]
    BY <2>5
  <2>8. \A i \in DOMAIN lh : i \in Int /\ tail[a] \in Int
    BY <1>2, <2>3
  <2> QED
    BY <1>2, <2>6, <2>7, <2>8 DEF RangeOf, NoDup
<1>4. CASE \E a \in Ops : pc[a] \in {"clear", "erase"}
  <2>1. PICK a \in Ops : pc[a] \in {"clear", "erase"}
    BY <1>4
  <2>2. dirty = {} /\ (pc[a] = "erase" => lh = <<>>)
    BY <2>1 DEF IInv, ContentInv, ClearInv, EraseInv
  <2>3. CASE pc[a] = "clear"
    <3>1. \A j \in DOMAIN lh : gone(j)
      BY <1>1, <2>3
    <3> QED
      BY <2>2, <3>1 DEF RangeOf
  <2>4. CASE pc[a] = "erase"
    BY <2>2, <2>4 DEF RangeOf
  <2> QED
    BY <2>1, <2>3, <2>4
<1>5. CASE \A a \in Ops : pc[a] \notin {"install_trans", "clear", "erase"}
  <2>1. ~ Installing
    BY <1>5 DEF Installing
  <2>2. dirty = RangeOf(lh)
    BY <2>1 DEF IInv, ContentInv
  <2>3. \A j \in DOMAIN lh : ~ gone(j)
    BY <1>1, <1>5
  <2> QED
    BY <2>2, <2>3
<1> QED
  BY <1>3, <1>4, <1>5

\* No buffer the log still needs is ever recycled, and none stays pinned.
THEOREM LogPinned ==
  ASSUME Disciplined
  PROVE  Spec => []PinnedUntilInstalled
<1>1. IInv => PinnedUntilInstalled
  BY PinnedByInvariant
<1> QED
  BY <1>1, LogInvariant, PTL
=============================================================================
