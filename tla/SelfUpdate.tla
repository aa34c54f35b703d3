------------------------------ MODULE SelfUpdate ------------------------------
(***************************************************************************)
(* How processes of one user replace the package they all run from         *)
(* (updater.ts; cli-bootstrap.ts calls it before a session starts).        *)
(*                                                                         *)
(* Every launch may look for a release and install it, under the lock of   *)
(* StateLock: it packs the version it runs as a rollback copy, downloads   *)
(* the release, installs it over the package, runs it to see that it       *)
(* works, and puts the copy back if it does not.  The state file is read   *)
(* and written without the lock.  A process keeps the version it was       *)
(* started with whatever happens to the package under it.                  *)
(*                                                                         *)
(* Versions are numbers.  Installations other than a global npm package,   *)
(* settings of the environment, a state file that cannot be read or        *)
(* written, and installs by the user are left out.                         *)
(***************************************************************************)
EXTENDS StateLock, FiniteSetsExt

CONSTANTS
    MaxVersion    \* bound: the last release

\* What the constants must satisfy.
ASSUME UpdateAssumption == MaxVersion \in Nat \ {0}

VARIABLES
    registry,   \* the version npm calls the latest
    package,    \* what is installed
    file,       \* the state file
    command,    \* what each process was started for
    current,    \* the version each process was started with
    stage,      \* where each process stands
    offer,      \* the release each process has found, 0 for none
    note,       \* the state file as each process has read it to change it
    backup,     \* is the rollback copy of each process whole?
    damaged,    \* history: an update died, or gave up, with the package open
    top         \* history: the newest version that was found to work

updating == <<package, command, current, stage, offer, note, backup, damaged, top>>
updates == <<locking, registry, file, updating>>

Version == 1..MaxVersion
Policies == {"auto-restart", "notify", "off"}
Results == {"never", "current", "available", "updated", "failed"}
Commands == {"session", "notify", "check", "apply", "policy"}
Stage == {"off", "starting", "viewing", "checked", "locking", "packing", "downloading",
          "installing", "verifying", "reverting", "restoring", "retrying", "updated",
          "failed", "releasing", "ended"}
StateFile == [policy : Policies, result : Results, latest : 0..MaxVersion, due : BOOLEAN]
Package == [version : Version, whole : BOOLEAN]

UpdateTypeOK ==
    /\ LockTypeOK
    /\ registry \in Version
    /\ package \in Package
    /\ file \in StateFile
    /\ \A p \in Process :
          /\ command[p] \in Commands /\ current[p] \in 0..MaxVersion
          /\ stage[p] \in Stage /\ offer[p] \in 0..MaxVersion
          /\ note[p] \in StateFile \cup {Nil} /\ backup[p] \in BOOLEAN
    /\ damaged \in BOOLEAN
    /\ top \in Version

UpdateInit ==
    /\ LockInit
    /\ registry \in Version
    /\ package = [version |-> 1, whole |-> TRUE]
    /\ file = [policy |-> "auto-restart", result |-> "never", latest |-> 0, due |-> TRUE]
    /\ command = [p \in Process |-> "session"]
    /\ current = [p \in Process |-> 0]
    /\ stage = [p \in Process |-> "off"]
    /\ offer = [p \in Process |-> 0]
    /\ note = [p \in Process |-> Nil]
    /\ backup = [p \in Process |-> FALSE]
    /\ damaged = FALSE
    /\ top = 1

To(p, next) == stage' = [stage EXCEPT ![p] = next]
Holding(p) == p \in Holders

-----------------------------------------------------------------------------
(* From the launch to the decision to update *)

Starts(p) ==
    /\ package.whole
    /\ Launch(p)
    /\ \E c \in Commands \ {"notify"} :
          /\ command' = [command EXCEPT ![p] = c]
          /\ To(p, IF c = "session" THEN "starting"
                   ELSE IF c = "policy" THEN "checked" ELSE "viewing")
    /\ current' = [current EXCEPT ![p] = package.version]
    /\ UNCHANGED <<registry, file, package, offer, note, backup, damaged, top>>

\* startup: a release that was found before is taken up until the next check is due.
Startup(p) ==
    /\ stage[p] = "starting"
    /\ LET known == /\ ~file.due /\ file.result = "available"
                    /\ file.latest > current[p]
       IN /\ command' = [command EXCEPT ![p] = IF file.policy = "notify" THEN "notify" ELSE @]
          /\ offer' = [offer EXCEPT ![p] = IF known THEN file.latest ELSE 0]
          /\ To(p, IF file.policy = "off" \/ (known /\ file.policy = "notify") THEN "ended"
                   ELSE IF known THEN "locking"
                   ELSE IF file.due THEN "viewing" ELSE "ended")
    /\ UNCHANGED <<locking, registry, file, package, current, note, backup, damaged, top>>

\* check: npm tells the latest version, or fails.
View(p) ==
    /\ stage[p] = "viewing"
    /\ \/ To(p, "checked") /\ offer' = [offer EXCEPT ![p] = registry]
       \/ To(p, "failed") /\ UNCHANGED offer
    /\ UNCHANGED <<locking, registry, file, package, command, current, note, backup, damaged,
                   top>>

(***************************************************************************)
(* The state file is read...                                               *)
(***************************************************************************)
Reads(p) ==
    /\ stage[p] \in {"checked", "failed", "updated"} /\ note[p] = Nil
    /\ note' = [note EXCEPT ![p] = file]
    /\ UNCHANGED <<locking, registry, file, package, command, current, stage, offer, backup,
                   damaged, top>>

Newer(p) == offer[p] > current[p]
Continues(p) ==
    IF Newer(p) /\ command[p] \in {"session", "apply"} THEN "locking" ELSE "ended"

\* ... and written with what was found, what went wrong, or what the user wants.
Writes(p) ==
    /\ note[p] # Nil
    /\ \/ /\ stage[p] = "checked" /\ command[p] # "policy"
          /\ file' = [note[p] EXCEPT !.result = IF Newer(p) THEN "available" ELSE "current",
                                     !.latest = offer[p], !.due = FALSE]
          /\ To(p, Continues(p))
       \/ /\ stage[p] = "checked" /\ command[p] = "policy"
          /\ \E x \in Policies : file' = [note[p] EXCEPT !.policy = x]
          /\ To(p, "ended")
       \/ /\ stage[p] = "failed"
          /\ file' = [note[p] EXCEPT !.result = "failed", !.due = FALSE]
          /\ To(p, IF at[p] = "held" THEN "releasing" ELSE "ended")
       \/ /\ stage[p] = "updated"
          /\ file' = [note[p] EXCEPT !.result = "updated", !.latest = offer[p]]
          /\ To(p, "releasing")
    /\ note' = [note EXCEPT ![p] = Nil]
    /\ UNCHANGED <<locking, registry, package, command, current, offer, backup, damaged, top>>

-----------------------------------------------------------------------------
(* apply, under the lock *)

\* One call of acquireStateLock or of the release; what it leads to.
Locks(p) ==
    /\ \/ stage[p] = "locking" /\ (Approach(p) \/ Acquires(p))
       \/ stage[p] = "releasing" /\ (Release(p) \/ Releases(p))
    /\ To(p, CASE at'[p] = "held" /\ stage[p] = "locking" -> "packing"
               [] at'[p] \in {"refused", "failed", "released"} -> "ended"
               [] OTHER -> stage[p])
    /\ UNCHANGED <<registry, file, package, command, current, offer, note, backup, damaged,
                   top>>

\* Bug: the rollback copy may be of any version.
Pack_AnyVersion(p) ==
    /\ stage[p] = "packing"
    /\ \/ To(p, "downloading") /\ backup' = [backup EXCEPT ![p] = package.whole]
       \/ To(p, "failed") /\ UNCHANGED backup
    /\ UNCHANGED <<locking, registry, file, package, command, current, offer, note, damaged,
                   top>>

\* The rollback copy must be of the version that runs.
Pack(p) ==
    /\ stage[p] = "packing"
    /\ \/ /\ package.version = current[p]
          /\ To(p, "downloading")
          /\ backup' = [backup EXCEPT ![p] = package.whole]
       \/ To(p, "failed") /\ UNCHANGED backup
    /\ UNCHANGED <<locking, registry, file, package, command, current, offer, note, damaged,
                   top>>

\* The release is packed and its integrity compared; then npm opens the package.
Download(p) ==
    /\ stage[p] = "downloading"
    /\ \/ To(p, "installing") /\ package' = [package EXCEPT !.whole = FALSE]
       \/ To(p, "failed") /\ UNCHANGED package
    /\ UNCHANGED <<locking, registry, file, command, current, offer, note, backup, damaged,
                   top>>

\* What an install that failed or was cut off leaves: the old package, the new
\* one, or parts of them.
Leaves(p) ==
    \/ backup[p] /\ package' = [version |-> current[p], whole |-> TRUE]
    \/ package' = [version |-> offer[p], whole |-> TRUE]
    \/ \E v \in {current[p], offer[p]} : package' = [version |-> v, whole |-> FALSE]

Install(p) ==
    /\ stage[p] = "installing"
    /\ \/ package' = [version |-> offer[p], whole |-> TRUE] /\ To(p, "verifying")
       \/ Leaves(p) /\ To(p, "reverting")
    /\ UNCHANGED <<locking, registry, file, command, current, offer, note, backup, damaged,
                   top>>

Works(v) == package = [version |-> v, whole |-> TRUE]
Found(v) == /\ damaged' = FALSE
            /\ top' = Max({top, v})

\* verifyInstalled runs the package; a machine under load may fail it anyway.
Verify(p) ==
    /\ stage[p] = "verifying"
    /\ \/ Works(offer[p]) /\ To(p, "updated") /\ Found(offer[p])
       \/ To(p, "reverting") /\ UNCHANGED <<damaged, top>>
    /\ UNCHANGED <<locking, registry, file, package, command, current, offer, note, backup>>

\* Bug: after a failed install the old version is taken to be still there.
Revert_Unverified(p) ==
    /\ stage[p] = "reverting"
    /\ To(p, "failed")
    /\ UNCHANGED <<locking, registry, file, package, command, current, offer, note, backup,
                   damaged, top>>

\* Perhaps the old version is still there.
Revert(p) ==
    /\ stage[p] = "reverting"
    /\ \/ Works(current[p]) /\ To(p, "failed") /\ Found(current[p])
       \/ To(p, "restoring") /\ UNCHANGED <<damaged, top>>
    /\ UNCHANGED <<locking, registry, file, package, command, current, offer, note, backup>>

\* restoreTarball installs the copy and runs it, twice at most.
Restore(p) ==
    /\ stage[p] \in {"restoring", "retrying"}
    /\ \/ /\ backup[p]
          /\ package' = [version |-> current[p], whole |-> TRUE]
          /\ To(p, "failed") /\ Found(current[p])
       \/ /\ Leaves(p)
          /\ UNCHANGED top
          /\ IF stage[p] = "restoring" THEN To(p, "retrying") /\ UNCHANGED damaged
             ELSE To(p, "failed") /\ damaged' = TRUE
    /\ UNCHANGED <<locking, registry, file, command, current, offer, note, backup>>

Exposed(p) == stage[p] \in {"installing", "verifying", "reverting", "restoring", "retrying"}

\* A process ends, or is killed; npm may go on without it for a while.
Ends(p) ==
    /\ Exit(p)
    /\ To(p, "off")
    /\ note' = [note EXCEPT ![p] = Nil]
    /\ offer' = [offer EXCEPT ![p] = 0]
    /\ backup' = [backup EXCEPT ![p] = FALSE]
    /\ current' = [current EXCEPT ![p] = 0]
    /\ command' = [command EXCEPT ![p] = "session"]
    /\ IF stage[p] \in {"installing", "restoring", "retrying"} THEN Leaves(p)
       ELSE UNCHANGED package
    /\ damaged' = (damaged \/ Exposed(p))
    /\ UNCHANGED <<registry, file, top>>

-----------------------------------------------------------------------------
(* Time, and the registry *)

\* The time of the next check has come, or the lock is old.
Passes ==
    /\ \/ file' = [file EXCEPT !.due = TRUE] /\ UNCHANGED locking
       \/ Age /\ UNCHANGED file
    /\ UNCHANGED <<registry, updating>>

\* Another version is called the latest; it need not be a newer one.
Publishes ==
    /\ registry' \in Version \ {registry}
    /\ UNCHANGED <<locking, file, updating>>

UpdateNext ==
    \/ Passes \/ Publishes
    \/ \E p \in Process :
          \/ Starts(p) \/ Startup(p) \/ View(p) \/ Reads(p) \/ Writes(p) \/ Locks(p)
          \/ Pack(p) \/ Download(p) \/ Install(p) \/ Verify(p) \/ Revert(p) \/ Restore(p)
          \/ Ends(p)
UpdateSpec == UpdateInit /\ [][UpdateNext]_updates

-----------------------------------------------------------------------------
(* Whenever no update is under way, and none has died or given up since with *)
(* the package open, the package is whole and of the newest version that was *)
(* ever found to work: no process that was started before an update puts an  *)
(* older release in its place, and a failed update leaves nothing behind.    *)
Settled ==
    Holders = {} /\ ~damaged /\ ~raced => package = [version |-> top, whole |-> TRUE]
=============================================================================
