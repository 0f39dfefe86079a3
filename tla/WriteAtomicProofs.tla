-------------------------- MODULE WriteAtomicProofs --------------------------
(***************************************************************************)
(* For any number of runs and names: outputs are complete, also after a     *)
(* loss of power, digests are of complete artefacts, and no temporary file  *)
(* is left by a run that returns.                                           *)
(***************************************************************************)
EXTENDS WriteAtomic, FiniteSetTheorems, TLAPS

(* The run may still change its file.                                       *)
Busy == {"start", "create", "write", "hash", "chmod", "rename"}

Frozen(f) == f \in Runs => at[f] \notin Busy

Whole(f) == size[f] = Total(f) /\ synced[f] = size[f]

(* A name, in the directory and on the disk, only ever has a file that no   *)
(* run writes any more and of which nothing can be lost.                    *)
NamesWhole ==
    \A n \in Names :
        /\ dir[n] # None => Whole(dir[n]) /\ Frozen(dir[n]) /\ mode[dir[n]] = "0644"
        /\ disk.dir[n] # None =>
             /\ Whole(disk.dir[n]) /\ Frozen(disk.dir[n])
             /\ disk.mode[disk.dir[n]] = "0644"

(* A file is synced before its mode is set, and that before it is renamed.  *)
ReadyWhole ==
    \A p \in Runs :
        /\ at[p] \in {"chmod", "rename"} => Whole(p)
        /\ at[p] = "rename" => mode[p] = "0644"

(* What checksums lists, has open and has written.                          *)
InputWhole ==
    /\ \A p \in Summers : listed[p] \subseteq Artefacts
    /\ \A p \in Runs : at[p] = "hash" =>
         /\ p \in Summers /\ input[p] \in [name : Artefacts, inode : Inodes]
         /\ Whole(input[p].inode) /\ Frozen(input[p].inode)

LinesWhole ==
    \A p \in Summers : \A line \in lines[p] :
        /\ line.name \in Artefacts /\ line.size = Total(line.inode)
        /\ Frozen(line.inode)

Temporaries ==
    \A p \in Runs : at[p] \in {"start", "create", "ok", "failed"} /\ ~lost => dir[p] = None

IInv == TypeOK /\ NamesWhole /\ ReadyWhole /\ InputWhole /\ LinesWhole /\ Temporaries

(* The checksum inputs are finitely many.                                   *)
LEMMA InputsFinite ==
    ASSUME NEW p \in Runs
    PROVE  Cardinality(ChecksumInputs(p)) \in Nat
<1>1. ChecksumInputs(p) \subseteq Artefacts
  BY DEF ChecksumInputs
<1>2. IsFiniteSet(ChecksumInputs(p))
  BY <1>1, FS_Subset, WriteAtomicAssumption
<1> QED
  BY <1>2, FS_CardinalityType

(* The initial states satisfy the invariant.                                *)
LEMMA InitIInv == Init => IInv
<1> SUFFICES ASSUME Init PROVE IInv
  OBVIOUS
<1> USE WriteAtomicAssumption DEF Inodes, Names, Runs, Entries
<1>1. TypeOK
  <2>1. dir \in [Entries -> Inodes \cup {None}]
    BY DEF Init
  <2>2. mode \in [Inodes -> {"0600", "0644"}] /\ size \in [Inodes -> Nat]
    BY DEF Init
  <2>3. disk \in [dir : [Entries -> Inodes \cup {None}], mode : [Inodes -> {"0600", "0644"}]]
    BY <2>1, <2>2 DEF Init
  <2> QED
    BY <2>1, <2>2, <2>3 DEF Init, TypeOK, Places
<1>2. NamesWhole
  BY <1>1 DEF Init, NamesWhole, Whole, Frozen, Total
<1>3. ReadyWhole /\ InputWhole /\ LinesWhole /\ Temporaries
  BY DEF Init, ReadyWhole, InputWhole, LinesWhole, Temporaries
<1> QED
  BY <1>1, <1>2, <1>3 DEF IInv

(* The step Refuse keeps the invariant.                                     *)
LEMMA RefuseIInv ==
    ASSUME IInv, NEW p \in Runs, Refuse(p)
    PROVE  IInv'
<1> USE WriteAtomicAssumption
    DEF IInv, TypeOK, Places, Inodes, Names, Runs, Entries, Refuse, GoTo, runVars
<1>1. TypeOK'
  OBVIOUS
<1>2. NamesWhole'
  BY <1>1 DEF NamesWhole, ReadyWhole, Whole, Frozen, Total, Busy
<1>3. ReadyWhole'
  BY <1>1 DEF ReadyWhole, Whole, Total
<1>4. InputWhole'
  BY <1>1 DEF NamesWhole, InputWhole, Whole, Frozen, Total, Busy
<1>5. LinesWhole'
  BY <1>1 DEF InputWhole, LinesWhole, Whole, Frozen, Total, Busy
<1>6. Temporaries'
  BY <1>1 DEF Temporaries
<1> QED
  BY <1>1, <1>2, <1>3, <1>4, <1>5, <1>6

(* The step BeginArchive keeps the invariant.                               *)
LEMMA BeginArchiveIInv ==
    ASSUME IInv, NEW p \in Runs, BeginArchive(p)
    PROVE  IInv'
<1> USE WriteAtomicAssumption
    DEF IInv, TypeOK, Places, Inodes, Names, Runs, Entries, BeginArchive, GoTo, runVars
<1>1. TypeOK'
  OBVIOUS
<1>2. NamesWhole'
  BY <1>1 DEF NamesWhole, ReadyWhole, Whole, Frozen, Total, Busy
<1>3. ReadyWhole'
  BY <1>1 DEF ReadyWhole, Whole, Total
<1>4. InputWhole'
  <2>1. \A q \in Summers : listed'[q] \subseteq Artefacts
    BY DEF InputWhole
  <2>2. ASSUME NEW q \in Runs, at'[q] = "hash"
        PROVE  /\ q \in Summers /\ input'[q] \in [name : Artefacts, inode : Inodes]
               /\ Whole(input[q].inode)' /\ Frozen(input[q].inode)'
    <3>1. at[q] = "hash" /\ input'[q] = input[q]
      BY <2>2 DEF InputWhole
    <3>2. input[q].inode \in Inodes /\ Whole(input[q].inode) /\ Frozen(input[q].inode)
      BY <3>1 DEF InputWhole
    <3>3. input[q].inode # p
      BY <3>2 DEF Frozen, Busy
    <3> QED
      BY <3>1, <3>2, <3>3 DEF InputWhole, Whole, Frozen, Total, Busy
  <2> QED
    BY <2>1, <2>2 DEF InputWhole
<1>5. LinesWhole'
  BY <1>1 DEF InputWhole, LinesWhole, Whole, Frozen, Total, Busy
<1>6. Temporaries'
  BY <1>1 DEF Temporaries
<1> QED
  BY <1>1, <1>2, <1>3, <1>4, <1>5, <1>6

(* The step BeginChecksums keeps the invariant.                             *)
LEMMA BeginChecksumsIInv ==
    ASSUME IInv, NEW p \in Runs, BeginChecksums(p)
    PROVE  IInv'
<1> USE WriteAtomicAssumption
    DEF IInv, TypeOK, Places, Inodes, Names, Runs, Entries, BeginChecksums, GoTo, runVars
<1>1. TypeOK'
  BY InputsFinite DEF ChecksumInputs
<1>2. NamesWhole'
  BY <1>1, InputsFinite
     DEF NamesWhole, ReadyWhole, Whole, Frozen, Total, Busy, ChecksumInputs
<1>3. ReadyWhole'
  BY <1>1, InputsFinite DEF ReadyWhole, Whole, Total, ChecksumInputs
<1>4. InputWhole'
  BY <1>1, InputsFinite
     DEF NamesWhole, InputWhole, Whole, Frozen, Total, Busy, ChecksumInputs
<1>5. LinesWhole'
  BY <1>1, InputsFinite
     DEF InputWhole, LinesWhole, Whole, Frozen, Total, Busy, ChecksumInputs
<1>6. Temporaries'
  BY <1>1, InputsFinite DEF Temporaries, ChecksumInputs
<1> QED
  BY <1>1, <1>2, <1>3, <1>4, <1>5, <1>6

(* The step CreateTemp keeps the invariant.                                 *)
LEMMA CreateTempIInv ==
    ASSUME IInv, NEW p \in Runs, CreateTemp(p)
    PROVE  IInv'
<1> USE WriteAtomicAssumption
    DEF IInv, TypeOK, Places, Inodes, Names, Runs, Entries, CreateTemp, GoTo, runVars
<1>1. TypeOK'
  OBVIOUS
<1>2. NamesWhole'
  BY <1>1 DEF NamesWhole, ReadyWhole, Whole, Frozen, Total, Busy
<1>3. ReadyWhole'
  BY <1>1 DEF ReadyWhole, Whole, Total
<1>4. InputWhole'
  BY <1>1 DEF NamesWhole, InputWhole, Whole, Frozen, Total, Busy
<1>5. LinesWhole'
  BY <1>1 DEF InputWhole, LinesWhole, Whole, Frozen, Total, Busy
<1>6. Temporaries'
  BY <1>1 DEF Temporaries
<1> QED
  BY <1>1, <1>2, <1>3, <1>4, <1>5, <1>6

(* The step WriteChunk keeps the invariant.                                 *)
LEMMA WriteChunkIInv ==
    ASSUME IInv, NEW p \in Runs, WriteChunk(p)
    PROVE  IInv'
<1> USE WriteAtomicAssumption
    DEF IInv, TypeOK, Places, Inodes, Names, Runs, Entries, WriteChunk, GoTo, runVars
<1>1. TypeOK'
  OBVIOUS
<1>2. NamesWhole'
  BY <1>1 DEF NamesWhole, ReadyWhole, Whole, Frozen, Total, Busy
<1>3. ReadyWhole'
  BY <1>1 DEF ReadyWhole, Whole, Total
<1>4. InputWhole'
  BY <1>1 DEF NamesWhole, InputWhole, Whole, Frozen, Total, Busy
<1>5. LinesWhole'
  BY <1>1 DEF InputWhole, LinesWhole, Whole, Frozen, Total, Busy
<1>6. Temporaries'
  BY <1>1 DEF Temporaries
<1> QED
  BY <1>1, <1>2, <1>3, <1>4, <1>5, <1>6

(* The step OpenInput keeps the invariant.                                  *)
LEMMA OpenInputIInv ==
    ASSUME IInv, NEW p \in Runs, OpenInput(p)
    PROVE  IInv'
<1> USE WriteAtomicAssumption
    DEF IInv, TypeOK, Places, Inodes, Names, Runs, Entries, OpenInput, GoTo, runVars
<1>1. TypeOK'
  OBVIOUS
<1>2. NamesWhole'
  BY <1>1 DEF NamesWhole, ReadyWhole, Whole, Frozen, Total, Busy
<1>3. ReadyWhole'
  BY <1>1 DEF ReadyWhole, Whole, Total
<1>4. InputWhole'
  <2>1. PICK n \in listed[p] :
          /\ dir[n] # None
          /\ listed' = [listed EXCEPT ![p] = @ \ {n}]
          /\ input' = [input EXCEPT ![p] = [name |-> n, inode |-> dir[n]]]
    OBVIOUS
  <2>2. p \in Summers /\ n \in Artefacts
    BY <2>1 DEF InputWhole
  <2>3. dir[n] \in Inodes /\ Whole(dir[n]) /\ Frozen(dir[n])
    BY <2>1, <2>2 DEF NamesWhole
  <2>4. \A q \in Summers : listed'[q] \subseteq Artefacts
    BY <2>1 DEF InputWhole
  <2>5. \A f \in Inodes : (Whole(f) => Whole(f)') /\ (Frozen(f) => Frozen(f)')
    BY DEF Whole, Frozen, Total, Busy
  <2>6. input'[p] = [name |-> n, inode |-> dir[n]]
    BY <1>1, <2>1, <2>3
  <2>7. ASSUME NEW q \in Runs, at'[q] = "hash"
        PROVE  /\ q \in Summers /\ input'[q] \in [name : Artefacts, inode : Inodes]
               /\ Whole(input[q].inode)' /\ Frozen(input[q].inode)'
    <3>1. CASE q = p
      BY <3>1, <2>2, <2>3, <2>5, <2>6 DEF Whole, Frozen, Total
    <3>2. CASE q # p
      <4>1. at[q] = "hash" /\ input'[q] = input[q]
        BY <2>1, <2>7, <3>2
      <4>2. input[q].inode \in Inodes
        BY <4>1 DEF InputWhole
      <4> QED
        BY <4>1, <4>2, <2>5 DEF InputWhole, Whole, Frozen, Total
    <3> QED
      BY <3>1, <3>2
  <2> QED
    BY <2>4, <2>7 DEF InputWhole
<1>5. LinesWhole'
  BY <1>1 DEF InputWhole, LinesWhole, Whole, Frozen, Total, Busy
<1>6. Temporaries'
  BY <1>1 DEF Temporaries
<1> QED
  BY <1>1, <1>2, <1>3, <1>4, <1>5, <1>6

(* The step HashInput keeps the invariant.                                  *)
LEMMA HashInputIInv ==
    ASSUME IInv, NEW p \in Runs, HashInput(p)
    PROVE  IInv'
<1> USE WriteAtomicAssumption
    DEF IInv, TypeOK, Places, Inodes, Names, Runs, Entries, HashInput, GoTo, runVars
<1>1. TypeOK'
  <2> DEFINE line == [name |-> input[p].name, inode |-> input[p].inode,
                      size |-> size[input[p].inode]]
  <2>1. input[p] \in [name : Entries, inode : Inodes]
    BY DEF InputWhole
  <2>2. line \in [name : Entries, inode : Inodes, size : Nat]
    BY <2>1
  <2>3. lines' = [lines EXCEPT ![p] = @ \cup {line}]
    OBVIOUS
  <2>4. lines' \in [Runs -> SUBSET [name : Entries, inode : Inodes, size : Nat]]
    <3> HIDE DEF line
    <3> QED
      BY <2>2, <2>3
  <2> QED
    BY <2>4
<1>2. NamesWhole'
  BY <1>1 DEF NamesWhole, ReadyWhole, Whole, Frozen, Total, Busy
<1>3. ReadyWhole'
  BY <1>1 DEF ReadyWhole, Whole, Total
<1>4. InputWhole'
  BY <1>1 DEF NamesWhole, InputWhole, Whole, Frozen, Total, Busy
<1>5. LinesWhole'
  BY <1>1 DEF InputWhole, LinesWhole, Whole, Frozen, Total, Busy
<1>6. Temporaries'
  BY <1>1 DEF Temporaries
<1> QED
  BY <1>1, <1>2, <1>3, <1>4, <1>5, <1>6

(* The step Sync keeps the invariant.                                       *)
LEMMA SyncIInv ==
    ASSUME IInv, NEW p \in Runs, Sync(p)
    PROVE  IInv'
<1> USE WriteAtomicAssumption
    DEF IInv, TypeOK, Places, Inodes, Names, Runs, Entries, Sync, GoTo, runVars
<1>1. TypeOK'
  OBVIOUS
<1>2. NamesWhole'
  BY <1>1 DEF NamesWhole, ReadyWhole, Whole, Frozen, Total, Busy
<1>3. ReadyWhole'
  BY <1>1 DEF ReadyWhole, Whole, Total
<1>4. InputWhole'
  BY <1>1 DEF NamesWhole, InputWhole, Whole, Frozen, Total, Busy
<1>5. LinesWhole'
  BY <1>1 DEF InputWhole, LinesWhole, Whole, Frozen, Total, Busy
<1>6. Temporaries'
  BY <1>1 DEF Temporaries
<1> QED
  BY <1>1, <1>2, <1>3, <1>4, <1>5, <1>6

(* The step Chmod keeps the invariant.                                      *)
LEMMA ChmodIInv ==
    ASSUME IInv, NEW p \in Runs, Chmod(p)
    PROVE  IInv'
<1> USE WriteAtomicAssumption
    DEF IInv, TypeOK, Places, Inodes, Names, Runs, Entries, Chmod, GoTo, runVars
<1>1. TypeOK'
  OBVIOUS
<1>2. NamesWhole'
  BY <1>1 DEF NamesWhole, ReadyWhole, Whole, Frozen, Total, Busy
<1>3. ReadyWhole'
  BY <1>1 DEF ReadyWhole, Whole, Total
<1>4. InputWhole'
  BY <1>1 DEF NamesWhole, InputWhole, Whole, Frozen, Total, Busy
<1>5. LinesWhole'
  BY <1>1 DEF InputWhole, LinesWhole, Whole, Frozen, Total, Busy
<1>6. Temporaries'
  BY <1>1 DEF Temporaries
<1> QED
  BY <1>1, <1>2, <1>3, <1>4, <1>5, <1>6

(* The step Rename keeps the invariant.                                     *)
LEMMA RenameIInv ==
    ASSUME IInv, NEW p \in Runs, Rename(p)
    PROVE  IInv'
<1> USE WriteAtomicAssumption
    DEF IInv, TypeOK, Places, Inodes, Names, Runs, Entries, Rename, GoTo, runVars
<1>1. TypeOK'
  OBVIOUS
<1>2. NamesWhole'
  BY <1>1 DEF NamesWhole, ReadyWhole, Whole, Frozen, Total, Busy
<1>3. ReadyWhole'
  BY <1>1 DEF ReadyWhole, Whole, Total
<1>4. InputWhole'
  BY <1>1 DEF NamesWhole, InputWhole, Whole, Frozen, Total, Busy
<1>5. LinesWhole'
  BY <1>1 DEF InputWhole, LinesWhole, Whole, Frozen, Total, Busy
<1>6. Temporaries'
  BY <1>1 DEF Temporaries
<1> QED
  BY <1>1, <1>2, <1>3, <1>4, <1>5, <1>6

(* The step Fail keeps the invariant.                                       *)
LEMMA FailIInv ==
    ASSUME IInv, NEW p \in Runs, Fail(p)
    PROVE  IInv'
<1> USE WriteAtomicAssumption
    DEF IInv, TypeOK, Places, Inodes, Names, Runs, Entries, Fail, GoTo, runVars
<1>1. TypeOK'
  OBVIOUS
<1>2. NamesWhole'
  BY <1>1 DEF NamesWhole, ReadyWhole, Whole, Frozen, Total, Busy
<1>3. ReadyWhole'
  BY <1>1 DEF ReadyWhole, Whole, Total
<1>4. InputWhole'
  BY <1>1 DEF NamesWhole, InputWhole, Whole, Frozen, Total, Busy
<1>5. LinesWhole'
  BY <1>1 DEF InputWhole, LinesWhole, Whole, Frozen, Total, Busy
<1>6. Temporaries'
  BY <1>1 DEF Temporaries
<1> QED
  BY <1>1, <1>2, <1>3, <1>4, <1>5, <1>6

(* The step Remove keeps the invariant.                                     *)
LEMMA RemoveIInv ==
    ASSUME IInv, NEW p \in Runs, Remove(p)
    PROVE  IInv'
<1> USE WriteAtomicAssumption
    DEF IInv, TypeOK, Places, Inodes, Names, Runs, Entries, Remove, GoTo, runVars
<1>1. TypeOK'
  OBVIOUS
<1>2. NamesWhole'
  BY <1>1 DEF NamesWhole, ReadyWhole, Whole, Frozen, Total, Busy
<1>3. ReadyWhole'
  BY <1>1 DEF ReadyWhole, Whole, Total
<1>4. InputWhole'
  BY <1>1 DEF NamesWhole, InputWhole, Whole, Frozen, Total, Busy
<1>5. LinesWhole'
  BY <1>1 DEF InputWhole, LinesWhole, Whole, Frozen, Total, Busy
<1>6. Temporaries'
  BY <1>1 DEF Temporaries
<1> QED
  BY <1>1, <1>2, <1>3, <1>4, <1>5, <1>6

(* The step Killed keeps the invariant.                                     *)
LEMMA KilledIInv ==
    ASSUME IInv, NEW p \in Runs, Killed(p)
    PROVE  IInv'
<1> USE WriteAtomicAssumption
    DEF IInv, TypeOK, Places, Inodes, Names, Runs, Entries, Killed, GoTo, runVars
<1>1. TypeOK'
  BY DEF Ended
<1>2. NamesWhole'
  BY <1>1 DEF NamesWhole, ReadyWhole, Whole, Frozen, Total, Busy, Ended
<1>3. ReadyWhole'
  BY <1>1 DEF ReadyWhole, Whole, Total, Ended
<1>4. InputWhole'
  BY <1>1 DEF NamesWhole, InputWhole, Whole, Frozen, Total, Busy, Ended
<1>5. LinesWhole'
  BY <1>1 DEF InputWhole, LinesWhole, Whole, Frozen, Total, Busy, Ended
<1>6. Temporaries'
  BY <1>1 DEF Temporaries, Ended
<1> QED
  BY <1>1, <1>2, <1>3, <1>4, <1>5, <1>6

(* A commit keeps the invariant.                                            *)
LEMMA CommitIInv ==
    ASSUME IInv, Commit
    PROVE  IInv'
<1> USE WriteAtomicAssumption
    DEF IInv, TypeOK, Places, Inodes, Names, Runs, Entries, Commit, GoTo, runVars
<1>1. TypeOK'
  OBVIOUS
<1>2. NamesWhole'
  BY <1>1 DEF NamesWhole, ReadyWhole, Whole, Frozen, Total, Busy
<1>3. ReadyWhole'
  BY <1>1 DEF ReadyWhole, Whole, Total
<1>4. InputWhole'
  BY <1>1 DEF NamesWhole, InputWhole, Whole, Frozen, Total, Busy
<1>5. LinesWhole'
  BY <1>1 DEF InputWhole, LinesWhole, Whole, Frozen, Total, Busy
<1>6. Temporaries'
  BY <1>1 DEF Temporaries
<1> QED
  BY <1>1, <1>2, <1>3, <1>4, <1>5, <1>6

(* A loss of power keeps the invariant.                                     *)
LEMMA PowerLossIInv ==
    ASSUME IInv, PowerLoss
    PROVE  IInv'
<1> USE WriteAtomicAssumption
    DEF IInv, TypeOK, Places, Inodes, Names, Runs, Entries, PowerLoss, GoTo, runVars
<1>1. TypeOK'
  BY DEF Ended
<1>2. NamesWhole'
  BY <1>1 DEF NamesWhole, ReadyWhole, Whole, Frozen, Total, Busy, Ended
<1>3. ReadyWhole'
  BY <1>1 DEF ReadyWhole, Whole, Total, Ended
<1>4. InputWhole'
  BY <1>1 DEF NamesWhole, InputWhole, Whole, Frozen, Total, Busy, Ended
<1>5. LinesWhole'
  BY <1>1 DEF InputWhole, LinesWhole, Whole, Frozen, Total, Busy, Ended
<1>6. Temporaries'
  BY <1>1 DEF Temporaries, Ended
<1> QED
  BY <1>1, <1>2, <1>3, <1>4, <1>5, <1>6

(* IInv is inductive.                                                       *)
LEMMA InductiveIInv == IInv /\ [Next]_vars => IInv'
<1> SUFFICES ASSUME IInv, [Next]_vars PROVE IInv'
  OBVIOUS
<1>1. CASE UNCHANGED vars
  BY <1>1 DEF IInv, TypeOK, NamesWhole, ReadyWhole, InputWhole, LinesWhole, Temporaries,
              Whole, Frozen, Total, vars, runVars
<1>2. CASE \E p \in Runs : RunStep(p)
  <2> PICK p \in Runs : RunStep(p)
    BY <1>2
  <2> QED
    BY RefuseIInv, BeginArchiveIInv, BeginChecksumsIInv, CreateTempIInv,
       WriteChunkIInv, OpenInputIInv,
       HashInputIInv, SyncIInv, ChmodIInv, RenameIInv, FailIInv, RemoveIInv, KilledIInv
       DEF RunStep
<1>3. CASE Commit
  BY <1>3, CommitIInv
<1>4. CASE PowerLoss
  BY <1>4, PowerLossIInv
<1>5. CASE Finished
  BY <1>1, <1>5 DEF Finished
<1> QED
  BY <1>1, <1>2, <1>3, <1>4, <1>5 DEF Next

LEMMA Invariance == Spec => []IInv
  BY InitIInv, InductiveIInv, PTL DEF Spec

(* Type correctness of the release tool's model.                            *)
THEOREM TypeCorrect == Spec => []TypeOK
<1>1. IInv => TypeOK
  BY DEF IInv
<1> QED
  BY <1>1, Invariance, PTL

(* writeAtomic: a name of the release directory never has an incomplete     *)
(* file, whatever fails, is killed or loses the power.                      *)
THEOREM OutputAlwaysComplete == Spec => []OutputComplete
<1>1. IInv => OutputComplete
  BY DEF IInv, NamesWhole, Whole, OutputComplete
<1> QED
  BY <1>1, Invariance, PTL

(* runChecksums: every digest is that of a complete artefact.               *)
THEOREM DigestsAlwaysWhole == Spec => []DigestsWhole
<1>1. IInv => DigestsWhole
  BY DEF IInv, LinesWhole, DigestsWhole
<1> QED
  BY <1>1, Invariance, PTL

(* writeAtomic: the deferred function leaves no temporary file.             *)
THEOREM NeverLeftover == Spec => []NoLeftover
<1>1. IInv => NoLeftover
  BY DEF IInv, Temporaries, NoLeftover
<1> QED
  BY <1>1, Invariance, PTL
=============================================================================
