------------------------------ MODULE AppUpdate ------------------------------
(***************************************************************************)
(* The application's own update (core/updater.rs): the dialog asks for a   *)
(* version, the bytes come from the cache an older application left or from*)
(* one of the mirrors, and the user may cancel until the installer starts. *)
(*                                                                         *)
(* Bytes are the version they are signed for, or Forged.                   *)
(***************************************************************************)
EXTENDS Integers, Sequences, FiniteSets

CONSTANTS
    Installs,     \* calls of install_update
    MaxVersion,   \* bound: the server offers 1 .. MaxVersion
    Sources,      \* bound: how many sources an update has
    MaxCancels    \* bound: cancels

NoInstall == 0
Forged == 0
Bytes  == {Forged} \cup 1 .. MaxVersion
NoCache   == [version |-> 0, bytes |-> Forged]    \* no cache directory

InstallPhases == {"idle", "check", "cache", "download", "prepared", "installing",
           "installed", "cancelled", "failed"}

VARIABLES
    offer,        \* the version the server offers
    cache,        \* update_cache: what pending_update.json says and the bytes
    install,      \* each call
    manual_cancel,\* whose token the slot holds
    missed,       \* history: calls that ran when a cancel found an empty slot
    cancels

appUpdateVars == <<offer, cache, install, manual_cancel, missed, cancels>>

Call == [phase     : InstallPhases,
         version   : 0 .. MaxVersion,   \* the version the dialog shows
         bytes     : Bytes,
         source    : 1 .. Sources + 1,
         round     : 1 .. 2,            \* 1: MIN_PROGRESS a window, 2: a byte
         cancelled : BOOLEAN]           \* the token

NoCall == [phase |-> "idle", version |-> 0, bytes |-> Forged, source |-> 1, round |-> 1, cancelled |-> FALSE]

AppUpdateInit ==
    /\ offer = 1
    /\ cache \in {NoCache} \cup [version : 1 .. MaxVersion, bytes : Bytes]
    /\ install = [i \in Installs |-> NoCall]
    /\ manual_cancel = NoInstall
    /\ missed = {} /\ cancels = 0

InPhase(i, phase) == install[i].phase = phase
Turn(i, call) == install' = [install EXCEPT ![i] = call]
Advance(i, phase) == Turn(i, [install[i] EXCEPT !.phase = phase])

\* The awaits of prepare_install, on which `select!` watches the token.
Preparing(i) == install[i].phase \in {"check", "cache", "download"}
\* From the token in the slot to the moment it is taken back.
Cancellable(i) == Preparing(i) \/ InPhase(i, "prepared")

-----------------------------------------------------------------------------
(* install_update *)

\* The token goes into the slot over whatever is there.
BeginInstall(i) ==
    /\ InPhase(i, "idle")
    /\ \E v \in 1 .. offer : Turn(i, [NoCall EXCEPT !.phase = "check", !.version = v])
    /\ manual_cancel' = i
    /\ UNCHANGED <<offer, cache, missed, cancels>>

\* mutant: whatever the server offers is taken
TakeNewest(i) == TRUE

StillOffered(i) == offer = install[i].version

\* AppUpdater::check; it may also fail.
CheckServer(i) ==
    /\ InPhase(i, "check")
    /\ \/ StillOffered(i) /\ Turn(i, [install[i] EXCEPT !.phase = "cache", !.bytes = offer]) /\ UNCHANGED manual_cancel
       \/ Advance(i, "failed") /\ manual_cancel' = NoInstall
    /\ UNCHANGED <<offer, cache, missed, cancels>>

\* mutant: what the cache says of itself is believed
TrustCache(i) == cache.version = install[i].bytes

\* verify_signature: the signature is the one the server offers for the version.
Verified(i) == cache.version = install[i].bytes /\ cache.bytes = install[i].bytes

(* verified_cache: what cannot be used is deleted. *)
ReadCache(i) ==
    /\ InPhase(i, "cache")
    /\ IF cache # NoCache /\ Verified(i)
       THEN /\ Turn(i, [install[i] EXCEPT !.phase = "prepared", !.bytes = cache.bytes])
            /\ UNCHANGED cache
       ELSE Advance(i, "download") /\ cache' = NoCache
    /\ UNCHANGED <<offer, manual_cancel, missed, cancels>>

(* download: the sources with a floor on the throughput, and once more stopping
   only on a stall; the plugin verifies what it downloads. *)
Download(i) ==
    /\ InPhase(i, "download")
    /\ \/ Advance(i, "prepared") /\ UNCHANGED manual_cancel
       \/ LET call == install[i] IN
          IF call.source < Sources
          THEN Turn(i, [call EXCEPT !.source = @ + 1]) /\ UNCHANGED manual_cancel
          ELSE IF call.round = 1
          THEN Turn(i, [call EXCEPT !.source = 1, !.round = 2]) /\ UNCHANGED manual_cancel
          ELSE Advance(i, "failed") /\ manual_cancel' = NoInstall
    /\ UNCHANGED <<offer, cache, missed, cancels>>

\* The other arm of `select!`.
Notice(i) ==
    /\ Preparing(i) /\ install[i].cancelled
    /\ Advance(i, "cancelled") /\ manual_cancel' = NoInstall
    /\ UNCHANGED <<offer, cache, missed, cancels>>

\* mutant: a cancel that comes with the last poll is overlooked
NoFilter(i) == TRUE

Kept(i) == ~install[i].cancelled

(* The slot is emptied, whoever's token it holds by now, before the last look at
   the own one. *)
TakeBack(i) ==
    /\ InPhase(i, "prepared")
    /\ manual_cancel' = NoInstall
    /\ Advance(i, IF Kept(i) THEN "installing" ELSE "cancelled")
    /\ UNCHANGED <<offer, cache, missed, cancels>>

\* AppUpdater::install, then delete_cache.
Finish(i) ==
    /\ InPhase(i, "installing")
    /\ \/ Advance(i, "installed") /\ cache' = NoCache
       \/ Advance(i, "failed") /\ UNCHANGED cache
    /\ UNCHANGED <<offer, manual_cancel, missed, cancels>>

InstallStep(i) ==
    BeginInstall(i) \/ CheckServer(i) \/ ReadCache(i) \/ Download(i) \/ Notice(i) \/ TakeBack(i) \/ Finish(i)

-----------------------------------------------------------------------------

\* cancel_download cancels under the lock of the slot.
CancelDownload ==
    /\ cancels < MaxCancels /\ cancels' = cancels + 1
    /\ IF manual_cancel = NoInstall
       THEN missed' = missed \cup {i \in Installs : Cancellable(i) /\ ~install[i].cancelled} /\ UNCHANGED install
       ELSE install' = [install EXCEPT ![manual_cancel].cancelled = TRUE] /\ UNCHANGED missed
    /\ manual_cancel' = NoInstall
    /\ UNCHANGED <<offer, cache>>

NewVersion ==
    /\ offer < MaxVersion /\ offer' = offer + 1
    /\ UNCHANGED <<cache, install, manual_cancel, missed, cancels>>

\* A patch that turns the automatic check off (feat/executor.rs).
DeleteCache ==
    /\ cache # NoCache /\ cache' = NoCache
    /\ UNCHANGED <<offer, install, manual_cancel, missed, cancels>>

AppUpdateNext == (\E i \in Installs : InstallStep(i)) \/ CancelDownload \/ NewVersion \/ DeleteCache

-----------------------------------------------------------------------------
(* Properties *)

AppUpdateTypeOK ==
    /\ offer \in 1 .. MaxVersion /\ cache \in [version : 0 .. MaxVersion, bytes : Bytes]
    /\ install \in [Installs -> Call] /\ manual_cancel \in Installs \cup {NoInstall}
    /\ missed \subseteq Installs /\ cancels \in 0 .. MaxCancels

(* "once the token is taken back its state is final; a cancel during the last
   synchronous poll of prepare_install still wins". *)
CancelsWin ==
    \A i \in Installs : install[i].cancelled => install[i].phase \notin {"installing", "installed"}

\* What the installer gets is signed, and is the version the dialog showed.
OnlyTheVersionAsked ==
    \A i \in Installs : install[i].phase \in {"installing", "installed"} =>
        install[i].bytes = install[i].version

(* A cancel finds the call it is meant for as long as no other call has come
   between: a second call puts its token over the first's, and the one that ends
   first empties the slot for both. *)
CancelsAreHeard ==
    \A i \in missed : \E j \in Installs \ {i} : install[j].phase # "idle"

UpdatesAreWanted == AppUpdateTypeOK /\ CancelsWin /\ OnlyTheVersionAsked /\ CancelsAreHeard

=============================================================================
