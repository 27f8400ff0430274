------------------------------ MODULE Instance ------------------------------
(***************************************************************************)
(* Launches of the application up to the moment one of them is the primary *)
(* (lib.rs, core/owner_identity.rs, utils/server.rs).  On Windows a launch *)
(* first repairs a data directory that belongs to another account: it takes*)
(* it over, or sets it aside and moves its contents into a new one.  Then  *)
(* the lock decides who is primary; the others hand over and leave.        *)
(*                                                                         *)
(* A launch may be killed anywhere.  Windows refuses to rename a directory *)
(* with an open file in it, and never renames one over another.            *)
(***************************************************************************)
EXTENDS Integers, FiniteSets

CONSTANTS
    Launches,      \* processes of one user, each with a process id of its own
    Data,          \* entries of the data directory
    Systems,       \* of "unix", "windows"
    MaxLaunchFailures,   \* bound: operations that fail of themselves
    MaxKills       \* bound: launches that are killed

Root   == "root"
Places == Launches \cup {Root}    \* the directory and `<root>.stale-<pid>`
NoLaunch == "nobody"
Owners == {"none", "ours", "theirs"}

Aside   == {"recreate", "own", "move", "restore", "discard"}   \* rebuild_root, from its first rename
Repair  == {"look", "aside", "drop"} \cup Aside
Primary == {"bind", "setup", "token", "write", "running"}
LaunchPhases  == {"idle", "start", "wait", "secondary", "gone"} \cup Repair \cup Primary

VARIABLES
    system,
    phase,
    dir,          \* whose each directory is
    holds,        \* the user's entries in it
    defaults,     \* entries of the root that are defaults
    lockFile, record, token,   \* the reserved files of the root
    locked,       \* who holds the lock
    split,        \* history: a failure that was reported, or a kill, left the data in two places
    crowded,      \* history: a launch ran beside a rebuild
    launchFailures, kills

reserved == <<lockFile, record, token>>
launchHistory  == <<split, crowded>>
launchCounts   == <<launchFailures, kills>>
instanceVars == <<system, phase, dir, holds, defaults, reserved, locked, launchHistory, launchCounts>>

InstanceInit ==
    /\ system \in Systems
    /\ phase = [p \in Launches |-> "idle"]
    /\ \E owner \in {"ours", "theirs"} :
         /\ dir = [n \in Places |-> IF n = Root THEN owner ELSE "none"]
         /\ owner = "theirs" => system = "windows"
    /\ holds = [n \in Places |-> IF n = Root THEN Data ELSE {}] /\ defaults = {}
    /\ lockFile \in {"none", dir[Root]} /\ record = NoLaunch
    /\ token \in {NoLaunch} \cup IF lockFile = "theirs" THEN {"theirs"} ELSE {}
    /\ locked = NoLaunch
    /\ split = FALSE /\ crowded = FALSE
    /\ launchFailures = 0 /\ kills = 0

At(p, s) == phase[p] = s
Live(p)  == phase[p] \notin {"idle", "secondary", "gone"}

\* A step of p to s; it notes who else is about.
StepTo(p, s) ==
    /\ phase' = [phase EXCEPT ![p] = s]
    /\ crowded' = (crowded \/ (s \in Aside /\ \E q \in Launches \ {p} : Live(q))
                           \/ (s # "gone" /\ \E q \in Launches \ {p} : phase[q] \in Aside))
    /\ UNCHANGED <<system, kills>>
\* validate_private_file refuses a file of another account.
PrivateTo(owner) == owner # "theirs"

LaunchWorks == UNCHANGED launchFailures
LaunchFails == launchFailures < MaxLaunchFailures /\ launchFailures' = launchFailures + 1

\* mutant: the handle of the lock lets others delete the file
NeverInUse == FALSE

\* "Replacing a live lock would let a second instance lock a different file."
InUse == system = "windows" /\ \E p \in Launches : At(p, "wait") \/ phase[p] \in Primary

-----------------------------------------------------------------------------
(* repair_root_owner *)

Launch(p) ==
    /\ At(p, "idle")
    /\ StepTo(p, IF system = "windows" THEN "look" ELSE "start") /\ LaunchWorks
    /\ UNCHANGED <<dir, holds, defaults, reserved, locked, split>>

\* create_dir_all, owner_matches, take_directory_ownership.
Look(p) ==
    /\ At(p, "look")
    /\ \/ /\ dir' = [dir EXCEPT ![Root] = "ours"]
          /\ StepTo(p, "drop") /\ LaunchWorks
       \/ dir[Root] = "theirs" /\ UNCHANGED dir /\ StepTo(p, "aside") /\ LaunchWorks
       \/ UNCHANGED dir /\ StepTo(p, "start") /\ LaunchFails
    /\ UNCHANGED <<holds, defaults, reserved, locked, split>>

\* The whole directory changes its name.
Rename(from, to) ==
    /\ dir' = [dir EXCEPT ![to] = dir[from], ![from] = "none"]
    /\ holds' = [holds EXCEPT ![to] = holds[from], ![from] = {}]

\* A lock is held on a file: the next file of that name is free.
NoReserved == lockFile' = "none" /\ locked' = NoLaunch /\ record' = NoLaunch /\ token' = NoLaunch

SetAside(p) ==
    /\ At(p, "aside")
    /\ \/ /\ dir[Root] # "none" /\ ~InUse /\ LaunchWorks
          /\ Rename(Root, p) /\ StepTo(p, "recreate")
          /\ defaults' = {} /\ NoReserved
       \/ /\ IF dir[Root] = "none" \/ InUse THEN LaunchWorks ELSE LaunchFails
          /\ StepTo(p, "start") /\ UNCHANGED <<dir, holds, defaults, reserved, locked>>
    /\ UNCHANGED split

\* "Something else took the name; it is not ours to walk into, so restore blind."
Recreate(p) ==
    /\ At(p, "recreate")
    /\ \/ /\ dir[Root] = "none" /\ LaunchWorks
          /\ \E owner \in {"ours", "theirs"} : dir' = [dir EXCEPT ![Root] = owner]
          /\ StepTo(p, "own") /\ UNCHANGED <<holds, split>>
       \/ /\ IF dir[Root] = "none" THEN LaunchFails ELSE LaunchWorks
          /\ IF dir[Root] = "none" THEN Rename(p, Root) /\ UNCHANGED split
                                   ELSE split' = TRUE /\ UNCHANGED <<dir, holds>>
          /\ StepTo(p, "start")
       \/ \* nor does the name come back
          /\ dir[Root] = "none" /\ launchFailures + 1 < MaxLaunchFailures /\ launchFailures' = launchFailures + 2
          /\ split' = TRUE /\ StepTo(p, "start") /\ UNCHANGED <<dir, holds>>
    /\ UNCHANGED <<defaults, reserved, locked>>

\* repopulate_root: the new directory may belong to Administrators.
TakeOver(p) ==
    /\ At(p, "own")
    /\ \/ /\ dir[Root] # "none" /\ LaunchWorks
          /\ dir' = [dir EXCEPT ![Root] = "ours"] /\ StepTo(p, "move")
       \/ /\ IF dir[Root] = "none" THEN LaunchWorks ELSE LaunchFails
          /\ UNCHANGED dir /\ StepTo(p, "restore")
    /\ UNCHANGED <<holds, defaults, reserved, locked, split>>

\* A file replaces a default that is in its place, a directory does not.
MoveIn(p) ==
    /\ At(p, "move")
    /\ \/ \E x \in holds[p] :
            \/ /\ dir[Root] # "none" /\ LaunchWorks
               /\ holds' = [holds EXCEPT ![Root] = @ \cup {x}, ![p] = @ \ {x}]
               /\ defaults' = defaults \ {x} /\ StepTo(p, "move")
            \/ /\ IF x \in defaults \/ dir[Root] = "none" THEN LaunchWorks ELSE LaunchFails
               /\ StepTo(p, "restore") /\ UNCHANGED <<holds, defaults>>
       \/ holds[p] = {} /\ StepTo(p, "discard") /\ LaunchWorks /\ UNCHANGED <<holds, defaults>>
    /\ UNCHANGED <<dir, reserved, locked, split>>

\* mutant: a failed move leaves what it has moved
Abandon(p) == StepTo(p, "start") /\ UNCHANGED <<dir, holds, defaults, reserved, locked, split>>

\* What is in the new directory goes back, over what is in the old one.
Return(p) ==
    \/ \E x \in holds[Root] \cup defaults :
         /\ holds' = [holds EXCEPT ![p] = IF x \in defaults THEN @ \ {x} ELSE @ \cup {x}, ![Root] = @ \ {x}]
         /\ defaults' = defaults \ {x}
         /\ StepTo(p, "restore") /\ UNCHANGED <<dir, reserved, locked, split>>
    \/ /\ holds[Root] = {} /\ defaults = {}
       /\ dir' = [dir EXCEPT ![Root] = dir[p], ![p] = "none"]
       /\ holds' = [holds EXCEPT ![Root] = holds[p], ![p] = {}]
       /\ NoReserved
       /\ StepTo(p, "start") /\ UNCHANGED <<defaults, split>>

(* restore_root: drain the new directory, remove it, give the old one its name. *)
Restore(p) ==
    /\ At(p, "restore")
    /\ \/ dir[Root] # "none" /\ ~InUse /\ LaunchWorks /\ Return(p)
       \/ /\ IF dir[Root] = "none" \/ InUse THEN LaunchWorks ELSE LaunchFails
          /\ split' = TRUE /\ StepTo(p, "start")
          /\ UNCHANGED <<dir, holds, defaults, reserved, locked>>

\* remove_dir_all: "Only the reserved files remain behind."
Discard(p) ==
    /\ At(p, "discard")
    /\ \/ dir' = [dir EXCEPT ![p] = "none"] /\ holds' = [holds EXCEPT ![p] = {}] /\ LaunchWorks
       \/ UNCHANGED <<dir, holds>> /\ LaunchFails
    /\ StepTo(p, "drop")
    /\ UNCHANGED <<defaults, reserved, locked, split>>

(* drop_files_owned_by_others: they are recreated for this account. *)
Drop(p) ==
    /\ At(p, "drop")
    /\ \/ /\ lockFile' = IF lockFile = "theirs" THEN "none" ELSE lockFile
          /\ token' = IF token = "theirs" THEN NoLaunch ELSE token
          /\ LaunchWorks
       \/ UNCHANGED <<lockFile, token>> /\ LaunchFails
    /\ StepTo(p, "start")
    /\ UNCHANGED <<dir, holds, defaults, record, locked, split>>

-----------------------------------------------------------------------------
(* check_singleton *)

\* open_instance_lock, with the directory it is in, and the first try of the lock.
OpenLock(p) ==
    /\ At(p, "start") /\ LaunchWorks
    /\ dir' = [dir EXCEPT ![Root] = IF @ = "none" THEN "ours" ELSE @]
    /\ IF PrivateTo(lockFile)
       THEN /\ lockFile' = "ours"
            /\ IF locked = NoLaunch THEN locked' = p /\ StepTo(p, "bind")
                                    ELSE StepTo(p, "wait") /\ UNCHANGED locked
       ELSE StepTo(p, "gone") /\ UNCHANGED <<lockFile, locked>>
    /\ UNCHANGED <<holds, defaults, record, token, split>>

\* mutant: a launch that cannot lock goes on
LockAnyway(p) == TRUE

TryLock(p) == locked = NoLaunch

(* "A restarting primary releases the lock after spawning us, with its server
   down."  The record names the primary; it answers once it is ready. *)
Wait(p) ==
    /\ At(p, "wait") /\ LaunchWorks
    /\ \/ TryLock(p) /\ locked' = p /\ StepTo(p, "bind")
       \/ /\ ~TryLock(p) /\ UNCHANGED locked
          /\ record \in Launches /\ At(record, "running") /\ StepTo(p, "secondary")
       \/ UNCHANGED locked /\ StepTo(p, "gone")    \* the deadline
    /\ UNCHANGED <<dir, holds, defaults, reserved, split>>

Leaves(p) == locked' = IF locked = p THEN NoLaunch ELSE locked

\* A port, the record in one rename, the lock kept for good.
Bind(p) ==
    /\ At(p, "bind")
    /\ \/ record' = p /\ StepTo(p, "setup") /\ UNCHANGED locked /\ LaunchWorks
       \/ UNCHANGED record /\ StepTo(p, "gone") /\ Leaves(p) /\ LaunchFails
    /\ UNCHANGED <<dir, holds, defaults, lockFile, token, split>>

\* "a half-moved root would read as a fresh install and be filled with defaults"
Setup(p) ==
    /\ At(p, "setup") /\ LaunchWorks
    /\ defaults' = defaults \cup (Data \ holds[Root])
    /\ StepTo(p, "token")
    /\ UNCHANGED <<dir, holds, reserved, locked, split>>

(* load_or_create_token: created, then written; another reads what is there. *)
LoadToken(p) ==
    /\ LaunchWorks
    /\ \/ /\ At(p, "token") /\ system = "windows" /\ token = NoLaunch
          /\ token' = "empty" /\ StepTo(p, "write")
       \/ /\ At(p, "write")
          /\ token' = p /\ StepTo(p, "running")
       \/ /\ At(p, "token") /\ (system = "unix" \/ token # NoLaunch)
          /\ UNCHANGED token /\ StepTo(p, "running")
    /\ UNCHANGED <<dir, holds, defaults, lockFile, record, locked, split>>

Quit(p) ==
    /\ At(p, "running") /\ LaunchWorks
    /\ StepTo(p, "gone") /\ Leaves(p)
    /\ UNCHANGED <<dir, holds, defaults, reserved, split>>

LaunchKilled(p) ==
    /\ Live(p) /\ kills < MaxKills /\ kills' = kills + 1
    /\ phase' = [phase EXCEPT ![p] = "gone"] /\ Leaves(p)
    /\ split' = (split \/ phase[p] \in Aside \ {"discard"})
    /\ UNCHANGED <<system, dir, holds, defaults, reserved, crowded, launchFailures>>

InstanceNext ==
    \E p \in Launches :
        \/ Launch(p) \/ Look(p) \/ SetAside(p) \/ Recreate(p) \/ TakeOver(p) \/ MoveIn(p) \/ Restore(p)
        \/ Discard(p) \/ Drop(p) \/ OpenLock(p) \/ Wait(p) \/ Bind(p) \/ Setup(p) \/ LoadToken(p)
        \/ Quit(p) \/ LaunchKilled(p)

-----------------------------------------------------------------------------
(* Properties *)

InstanceTypeOK ==
    /\ phase \in [Launches -> LaunchPhases] /\ dir \in [Places -> Owners] /\ holds \in [Places -> SUBSET Data]
    /\ defaults \subseteq Data /\ lockFile \in Owners
    /\ record \in Launches \cup {NoLaunch} /\ token \in Launches \cup {NoLaunch, "empty", "theirs"}
    /\ locked \in Launches \cup {NoLaunch}

\* At most one launch is the primary, whatever a repair does to the lock's file.
OnePrimary == \A p, q \in Launches : phase[p] \in Primary /\ phase[q] \in Primary => p = q

\* Nothing of the user's is deleted or replaced, whatever fails or is killed.
NothingIsLost == ~crowded => \A x \in Data : \E n \in Places : x \in holds[n]

(* "Any failure puts the data back", "Failure must be reported": a primary finds
   all of it, unless the restore itself failed or was killed. *)
NothingIsSplit ==
    ~crowded /\ ~split /\ (\E p \in Launches : phase[p] \in Primary) => holds[Root] = Data /\ defaults = {}

\* "a root left behind by another account locks Service mode out for good"
RepairsTakeOver ==
    \A p \in Launches : ~crowded /\ At(p, "drop") => dir[Root] = "ours"

StartsAreSafe == InstanceTypeOK /\ OnePrimary /\ NothingIsLost /\ NothingIsSplit /\ RepairsTakeOver

=============================================================================
