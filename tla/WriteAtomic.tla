----------------------------- MODULE WriteAtomic -----------------------------
(***************************************************************************)
(* releasetool: runs that each build one file of a release directory and    *)
(* replace it by writeAtomic.  `archive` and `canonicalize-spdx` write an   *)
(* artefact in chunks; `checksums` lists the artefacts of the directory and *)
(* writes a line for each.  A run may fail at every call, be killed, and    *)
(* lose the power; several runs may be under way.                           *)
(*                                                                          *)
(* A file is an inode: the one a run creates is named by the run, and the   *)
(* one a name had at the start by that name.  The file system (external)    *)
(* keeps data that was synced and a prefix of the rest, and commits changes *)
(* of names and modes in order, at any time.                                *)
(***************************************************************************)
EXTENDS Naturals, FiniteSets

CONSTANTS
    Artefacts,      \* names that isChecksumInput accepts
    Sums,           \* the name SHA256SUMS
    Archivers,      \* runs of archive and canonicalize-spdx
    Summers,        \* runs of checksums
    Output,         \* the name each run is told to write
    Length          \* bound: chunks of an artefact

Runs == Archivers \cup Summers
Names == Artefacts \cup {Sums}
Inodes == Runs \cup Names
None == [none |-> TRUE]

(* A run's temporary name is the run.                                       *)
Entries == Names \cup Runs

ASSUME WriteAtomicAssumption ==
    /\ Length \in Nat \ {0}
    /\ Sums \notin Artefacts /\ Archivers \cap Summers = {} /\ Runs \cap Names = {}
    /\ IsFiniteSet(Artefacts) /\ None \notin Inodes
    /\ Output \in [Runs -> Names]

VARIABLES
    at,         \* where each run is
    listed,     \* names a run of checksums has still to hash
    total,      \* chunks or lines that make the run's file complete
    lines,      \* the lines a run of checksums has written
    input,      \* the name and inode it has open
    dir,        \* the inode of each entry of the directory
    size,       \* chunks of each inode
    synced,     \* chunks that survive a loss of power
    mode,       \* permission bits
    disk,       \* what is committed of dir and mode
    lost        \* the power was lost

runVars == <<at, listed, total, lines, input>>
vars == <<runVars, dir, size, synced, mode, disk, lost>>

Places == {"start", "create", "write", "hash", "chmod", "rename",
           "remove", "ok", "failed", "unremoved", "dead"}

TypeOK ==
    /\ at \in [Runs -> Places]
    /\ listed \in [Runs -> SUBSET Entries]
    /\ total \in [Runs -> Nat]
    /\ lines \in [Runs -> SUBSET [name : Entries, inode : Inodes, size : Nat]]
    /\ input \in [Runs -> [name : Entries, inode : Inodes] \cup {None}]
    /\ dir \in [Entries -> Inodes \cup {None}]
    /\ size \in [Inodes -> Nat]
    /\ synced \in [Inodes -> Nat]
    /\ mode \in [Inodes -> {"0600", "0644"}]
    /\ disk \in [dir : [Entries -> Inodes \cup {None}], mode : [Inodes -> {"0600", "0644"}]]
    /\ lost \in BOOLEAN

(* Some of the names exist, with complete files.                            *)
Init ==
    /\ at = [p \in Runs |-> "start"]
    /\ listed = [p \in Runs |-> {}]
    /\ total = [p \in Runs |-> 0]
    /\ lines = [p \in Runs |-> {}]
    /\ input = [p \in Runs |-> None]
    /\ \E present \in SUBSET Names :
         dir = [n \in Entries |-> IF n \in present THEN n ELSE None]
    /\ size = [f \in Inodes |-> IF f \in Names THEN Length ELSE 0]
    /\ synced = size
    /\ mode = [f \in Inodes |-> IF f \in Names THEN "0644" ELSE "0600"]
    /\ disk = [dir |-> dir, mode |-> mode]
    /\ lost = FALSE

GoTo(p, place) == at' = [at EXCEPT ![p] = place]

-----------------------------------------------------------------------------
(* The arguments, or the input or directory that they name, are unusable:   *)
(* the run fails before anything is written.                                *)
Refuse(p) ==
    /\ at[p] = "start"
    /\ GoTo(p, "failed")
    /\ UNCHANGED <<listed, total, lines, input, dir, size, synced, mode, disk, lost>>

(* runArchive and runCanonicalizeSPDX have their input open.                *)
BeginArchive(p) ==
    /\ p \in Archivers /\ at[p] = "start"
    /\ GoTo(p, "create")
    /\ total' = [total EXCEPT ![p] = Length]
    /\ UNCHANGED <<listed, lines, input, dir, size, synced, mode, disk, lost>>

(* Seeded fault: every other file of the directory is listed.               *)
ChecksumInputsAll(p) ==
    {n \in Entries : dir[n] # None /\ n \notin {Sums, Output[p]}}

(* The loop over the directory: artefacts that exist, not the output.       *)
ChecksumInputs(p) ==
    {n \in Entries : dir[n] # None /\ n \in Artefacts /\ n # Output[p]}

BeginChecksums(p) ==
    /\ p \in Summers /\ at[p] = "start"
    /\ GoTo(p, "create")
    /\ listed' = [listed EXCEPT ![p] = ChecksumInputs(p)]
    /\ total' = [total EXCEPT ![p] = Cardinality(ChecksumInputs(p))]
    /\ UNCHANGED <<lines, input, dir, size, synced, mode, disk, lost>>

-----------------------------------------------------------------------------
(* writeAtomic: every call may fail, and the deferred function removes the  *)
(* temporary file then.                                                     *)

CreateTemp(p) ==
    /\ at[p] = "create"
    /\ \/ GoTo(p, "write") /\ dir' = [dir EXCEPT ![p] = p]
       \/ GoTo(p, "failed") /\ UNCHANGED dir
    /\ UNCHANGED <<listed, total, lines, input, size, synced, mode, disk, lost>>

(* The next chunk of an archive or an SBOM.                                 *)
WriteChunk(p) ==
    /\ p \in Archivers /\ at[p] = "write" /\ size[p] < total[p]
    /\ size' = [size EXCEPT ![p] = @ + 1]
    /\ UNCHANGED <<runVars, dir, synced, mode, disk, lost>>

(* checksums opens the next name; that the name is gone is a failure.       *)
OpenInput(p) ==
    /\ p \in Summers /\ at[p] = "write"
    /\ \E n \in listed[p] :
         /\ dir[n] # None
         /\ listed' = [listed EXCEPT ![p] = @ \ {n}]
         /\ input' = [input EXCEPT ![p] = [name |-> n, inode |-> dir[n]]]
    /\ GoTo(p, "hash")
    /\ UNCHANGED <<total, lines, dir, size, synced, mode, disk, lost>>

(* It hashes what the file holds and writes the line.                       *)
HashInput(p) ==
    /\ at[p] = "hash"
    /\ LET line == [name |-> input[p].name, inode |-> input[p].inode,
                    size |-> size[input[p].inode]]
       IN  lines' = [lines EXCEPT ![p] = @ \cup {line}]
    /\ size' = [size EXCEPT ![p] = @ + 1]
    /\ GoTo(p, "write")
    /\ UNCHANGED <<listed, total, input, dir, synced, mode, disk, lost>>

(* Seeded fault: the file is not synced.                                    *)
SyncSkipped(p) ==
    /\ at[p] = "write" /\ size[p] = total[p]
    /\ GoTo(p, "chmod")
    /\ UNCHANGED <<listed, total, lines, input, dir, size, synced, mode, disk, lost>>

(* write has returned.                                                      *)
Sync(p) ==
    /\ at[p] = "write" /\ size[p] = total[p]
    /\ synced' = [synced EXCEPT ![p] = size[p]]
    /\ GoTo(p, "chmod")
    /\ UNCHANGED <<listed, total, lines, input, dir, size, mode, disk, lost>>

(* Seeded fault: the output has the mode of the program in the archive.     *)
ChmodProgram(p) ==
    /\ at[p] = "chmod"
    /\ mode' = [mode EXCEPT ![p] = "0755"]
    /\ GoTo(p, "rename")
    /\ UNCHANGED <<listed, total, lines, input, dir, size, synced, disk, lost>>

(* The file is closed and may be read by others.                            *)
Chmod(p) ==
    /\ at[p] = "chmod"
    /\ mode' = [mode EXCEPT ![p] = "0644"]
    /\ GoTo(p, "rename")
    /\ UNCHANGED <<listed, total, lines, input, dir, size, synced, disk, lost>>

(* removeTemporary is false from here on.                                   *)
Rename(p) ==
    /\ at[p] = "rename"
    /\ dir' = [dir EXCEPT ![Output[p]] = p, ![p] = None]
    /\ GoTo(p, "ok")
    /\ UNCHANGED <<listed, total, lines, input, size, synced, mode, disk, lost>>

(* Seeded fault: removeTemporary is cleared before the rename.              *)
FailUnlessRename(p) ==
    /\ at[p] \in {"write", "hash", "chmod", "rename"}
    /\ GoTo(p, IF at[p] = "rename" THEN "failed" ELSE "remove")
    /\ UNCHANGED <<listed, total, lines, input, dir, size, synced, mode, disk, lost>>

(* The call at which the run is returns an error.                           *)
Fail(p) ==
    /\ at[p] \in {"write", "hash", "chmod", "rename"}
    /\ GoTo(p, "remove")
    /\ UNCHANGED <<listed, total, lines, input, dir, size, synced, mode, disk, lost>>

(* The deferred function; an error of os.Remove is ignored.                 *)
Remove(p) ==
    /\ at[p] = "remove"
    /\ \/ GoTo(p, "failed") /\ dir' = [dir EXCEPT ![p] = None]
       \/ GoTo(p, "unremoved") /\ UNCHANGED dir
    /\ UNCHANGED <<listed, total, lines, input, size, synced, mode, disk, lost>>

-----------------------------------------------------------------------------
(* What happens to the runs.                                                *)

Ended == {"ok", "failed", "unremoved", "dead"}

(* A signal: no deferred function runs.                                     *)
Killed(p) ==
    /\ at[p] \notin Ended \cup {"start"}
    /\ GoTo(p, "dead")
    /\ UNCHANGED <<listed, total, lines, input, dir, size, synced, mode, disk, lost>>

Commit ==
    /\ disk' = [dir |-> dir, mode |-> mode]
    /\ disk' # disk
    /\ UNCHANGED <<runVars, dir, size, synced, mode, lost>>

(* Names and modes are what was committed.  What was not synced of a file   *)
(* is kept if all of it had been written back; less of it is no more use.   *)
PowerLoss ==
    /\ ~lost
    /\ lost' = TRUE
    /\ at' = [p \in Runs |-> IF at[p] \in Ended \cup {"start"} THEN at[p] ELSE "dead"]
    /\ dir' = disk.dir /\ mode' = disk.mode
    /\ \E kept \in SUBSET {f \in Inodes : size[f] # synced[f]} :
         size' = [f \in Inodes |-> IF f \in kept THEN size[f] ELSE synced[f]]
    /\ synced' = size'
    /\ UNCHANGED <<listed, total, lines, input, disk>>

RunStep(p) ==
    \/ Refuse(p) \/ BeginArchive(p) \/ BeginChecksums(p) \/ CreateTemp(p)
    \/ WriteChunk(p) \/ OpenInput(p) \/ HashInput(p)
    \/ Sync(p) \/ Chmod(p) \/ Rename(p)
    \/ Fail(p) \/ Remove(p) \/ Killed(p)

Finished == (\A p \in Runs : at[p] \in Ended) /\ UNCHANGED vars

Next == (\E p \in Runs : RunStep(p)) \/ Commit \/ PowerLoss \/ Finished

Spec == Init /\ [][Next]_vars

-----------------------------------------------------------------------------
(* The chunks of a complete file.                                           *)
Total(f) == IF f \in Runs THEN total[f] ELSE Length

(* Whatever fails, is killed or loses the power, and whichever runs write   *)
(* the same name at once: a name of the release directory has no file, its  *)
(* old one, or a complete new one that others may read.                     *)
OutputComplete ==
    \A n \in Names : dir[n] # None =>
        size[dir[n]] = Total(dir[n]) /\ mode[dir[n]] = "0644"

(* Every line of a SHA256SUMS, also of one that is still being written, is  *)
(* the digest of a complete artefact: neither of a file that another run is *)
(* writing nor of a temporary file that a killed one has left.              *)
DigestsWhole ==
    \A p \in Summers : \A line \in lines[p] :
        line.name \in Artefacts /\ line.size = Total(line.inode)

(* A run that has returned leaves no temporary file, whichever call failed, *)
(* unless its removal failed too or the power was lost.                     *)
NoLeftover ==
    \A p \in Runs : at[p] \in {"ok", "failed"} /\ dir[p] # None => lost
=============================================================================
