--------------------------- MODULE CaRestoreDrill ---------------------------
(***************************************************************************)
(* The offline CA host: scripts/offline_ca_restore_drill.py.               *)
(*                                                                         *)
(* A preparation run on the server puts an encrypted escrow of the Caddy   *)
(* CA and a signed challenge on removable media.  On an isolated host one  *)
(* or more drills decrypt the escrow, exercise the CA in it, and publish a *)
(* signed attestation into an output directory, one directory per run.     *)
(*                                                                         *)
(* The directory is the part that is hard to get right: two drills may     *)
(* target it, any I/O call may fail, and the host may lose power.  Its     *)
(* entries are the operation lock and the two hard-linked outputs; an      *)
(* entry names the drill that made the file (its inode).  trail[r] is the  *)
(* sequence of directory states since the last fsync of the directory: its *)
(* last element is what processes see, and a power loss may leave any      *)
(* element (the file system journals directory operations in order).       *)
(***************************************************************************)
EXTENDS Naturals, Sequences, SequencesExt

CONSTANTS Runs,     \* preparation runs
          Drills,   \* drill processes, each used once
          NoRun,    \* no run
          NoDrill,  \* the owner of an absent directory entry
          MaxIO     \* I/O faults and power losses in a behaviour

ASSUME DrillAssumption == NoDrill \notin Drills /\ NoRun \notin Runs /\ MaxIO \in Nat

VARIABLES media,    \* [Runs -> what the run put on the media]
          trail,    \* [Runs -> directory states since the last fsync]
          drill,    \* [Drills -> where the process stands and its arguments]
          io        \* I/O faults so far

drillVars == <<media, trail, drill, io>>

\* What an escrow can turn out to be: every value but "good" is caught by a
\* different stage of the drill.
Archives == {"none", "foreign", "padded", "garbled", "broken", "good"}

EmptyDirectory == [lock |-> NoDrill, att |-> NoDrill, sig |-> NoDrill]

Directory(r) == Last(trail[r])

DrillTypeOK ==
    /\ media \in [Runs -> [challenge : BOOLEAN, expired : BOOLEAN,
                           archive : Archives]]
    /\ \A r \in Runs : \A i \in DOMAIN trail[r] :
           trail[r][i] \in [lock : Drills \cup {NoDrill},
                            att : Drills \cup {NoDrill},
                            sig : Drills \cup {NoDrill}]
    /\ \A d \in Drills :
           /\ drill[d].run \in Runs \cup {NoRun}
           /\ drill[d].cms \in Runs \cup {NoRun}
           /\ drill[d].pc \in {"idle", "exercise", "sign", "lock", "write", "linkSig",
                               "linkAtt", "tidy", "release", "unAtt", "unSig",
                               "unSync", "unLock", "done", "refused", "stuck"}
    /\ io \in 0 .. MaxIO

DrillInit ==
    /\ media = [r \in Runs |-> [challenge |-> FALSE, expired |-> FALSE,
                                archive |-> "none"]]
    /\ trail = [r \in Runs |-> <<EmptyDirectory>>]
    /\ drill = [d \in Drills |-> [pc |-> "idle", run |-> NoRun, cms |-> NoRun]]
    /\ io = 0

-----------------------------------------------------------------------------
(* Steps on the directory.                                                 *)

Goto(d, pc) == drill' = [drill EXCEPT ![d].pc = pc]

\* A directory operation by d: visible at once, durable at the next fsync.
Enter(d, field, owner) ==
    LET r == drill[d].run
    IN  trail' = [trail EXCEPT ![r] =
                    Append(@, [Last(@) EXCEPT ![field] = owner])]

\* _unlink_same_file: only the inode this process created.
UnlinkSameFile(d, field) ==
    IF Directory(drill[d].run)[field] = d THEN Enter(d, field, NoDrill)
    ELSE UNCHANGED trail

\* _fsync_directory
FsyncDirectory(r) == trail' = [trail EXCEPT ![r] = <<Last(@)>>]

-----------------------------------------------------------------------------
(* Validation.  A check that fails ends the process with nothing written.  *)

\* The media hold a signed challenge whose window is open.
ChallengeCurrent(r) == media[r].challenge /\ ~media[r].expired

\* run_drill up to the challenge: the runtime, the output contract (neither
\* output exists) and the challenge are checked.  The operator may put in
\* the challenge of one run and the archive of another.
DrillBegins(d, r, cms) ==
    /\ drill[d].pc = "idle"
    /\ media[cms].archive # "none"
    /\ Directory(r).att = NoDrill /\ Directory(r).sig = NoDrill
    /\ ChallengeCurrent(r)
    /\ drill' = [drill EXCEPT ![d] = [pc |-> "exercise", run |-> r, cms |-> cms]]
    /\ UNCHANGED <<media, trail, io>>

\* What the archive in the drive turns out to be.
Archive(d) == media[drill[d].cms].archive

\* The archive's size and digest are the challenge's.
CmsBound(d) == drill[d].cms = drill[d].run

\* _validate_recipient_contract: the certificate the escrow is sealed for
\* belongs to the private key on this host, and is still valid and strong.
RecipientContract(d) == Archive(d) # "foreign"

\* _validate_cms_contract: one RSA-OAEP recipient, AES-256 content, as the
\* OpenSSL of the server may or may not have written it.
CmsContract(d) == Archive(d) # "padded"

\* The decrypted plaintext has the challenge's HMAC, and _read_ca_archive
\* finds exactly the four members in the producer's canonical form.
ArchiveReadable(d) == Archive(d) # "garbled"

\* _exercise_ca: both key pairs match and are strong enough, the chain
\* verifies, root and intermediate each sign a certificate that verifies,
\* and the two negative checks fail as they must.
CaWorks(d) == Archive(d) # "broken"

\* The archive is bound, opened and exercised, in memory only.
DrillExercises(d) ==
    /\ drill[d].pc = "exercise"
    /\ Goto(d, IF /\ CmsBound(d) /\ RecipientContract(d) /\ CmsContract(d)
                  /\ ArchiveReadable(d) /\ CaWorks(d)
               THEN "sign" ELSE "refused")
    /\ UNCHANGED <<media, trail, io>>

\* tested_at is taken after the exercise and must still lie in the
\* challenge's window; then _sign_and_self_verify.
DrillSigns(d) ==
    /\ drill[d].pc = "sign"
    /\ Goto(d, IF media[drill[d].run].expired THEN "refused" ELSE "lock")
    /\ UNCHANGED <<media, trail, io>>

-----------------------------------------------------------------------------
(* _write_output_pair                                                      *)

\* The lock is created exclusively; a lock that exists ends the process, and
\* the rollback it falls into owns nothing.
DrillLocks(d) ==
    /\ drill[d].pc = "lock"
    /\ IF Directory(drill[d].run).lock = NoDrill
       THEN Enter(d, "lock", d) /\ Goto(d, "write")
       ELSE UNCHANGED trail /\ Goto(d, "refused")
    /\ UNCHANGED <<media, io>>

\* Both temporaries are written and synced (their names are random).
DrillWrites(d) ==
    /\ drill[d].pc = "write"
    /\ Goto(d, "linkSig")
    /\ UNCHANGED <<media, trail, io>>

\* _publish_without_overwrite: a hard link, refused if the name exists.
Publish(d, field, next) ==
    IF Directory(drill[d].run)[field] = NoDrill
    THEN Enter(d, field, d) /\ Goto(d, next)
    ELSE UNCHANGED trail /\ Goto(d, "unAtt")

\* Mutant of DrillLinksSignature and DrillLinksAttestation, swapped.
SlipAttestationFirst(d) ==
    /\ drill[d].pc = "linkSig"
    /\ Publish(d, "att", "linkAtt")
    /\ UNCHANGED <<media, io>>

DrillLinksSignature(d) ==
    /\ drill[d].pc = "linkSig"
    /\ Publish(d, "sig", "linkAtt")
    /\ UNCHANGED <<media, io>>

DrillLinksAttestation(d) ==
    /\ drill[d].pc = "linkAtt"
    /\ Publish(d, "att", "tidy")
    /\ UNCHANGED <<media, io>>

\* The temporaries go and the directory is synced: the pair is committed.
DrillTidies(d) ==
    /\ drill[d].pc = "tidy"
    /\ FsyncDirectory(drill[d].run)
    /\ Goto(d, "release")
    /\ UNCHANGED <<media, io>>

\* A directory without the lock of d.
Unlocked(entries, d) ==
    IF entries.lock = d THEN [entries EXCEPT !.lock = NoDrill] ELSE entries

\* The lock is unlinked and the directory synced.
DrillReleases(d) ==
    /\ drill[d].pc = "release"
    /\ trail' = [trail EXCEPT ![drill[d].run] = <<Unlocked(Last(@), d)>>]
    /\ Goto(d, "done")
    /\ UNCHANGED <<media, io>>

\* The rollback: attestation first, then signature.
DrillUnlinks(d) ==
    /\ drill[d].pc \in {"unAtt", "unSig"}
    /\ UnlinkSameFile(d, IF drill[d].pc = "unAtt" THEN "att" ELSE "sig")
    /\ Goto(d, IF drill[d].pc = "unAtt" THEN "unSig" ELSE "unSync")
    /\ UNCHANGED <<media, io>>

\* The rollback is synced before the lock may go.
DrillUnsyncs(d) ==
    /\ drill[d].pc = "unSync"
    /\ FsyncDirectory(drill[d].run)
    /\ Goto(d, "unLock")
    /\ UNCHANGED <<media, io>>

DrillUnlocks(d) ==
    /\ drill[d].pc = "unLock"
    /\ trail' = [trail EXCEPT ![drill[d].run] = <<Unlocked(Last(@), d)>>]
    /\ Goto(d, "refused")
    /\ UNCHANGED <<media, io>>

\* A call of _write_output_pair fails.  Before the pair is committed the
\* process rolls back; in the rollback, or on the way out, it stops where it
\* is and the lock stays.
DrillIOFails(d) ==
    /\ io < MaxIO /\ io' = io + 1
    /\ \/ drill[d].pc \in {"write", "linkSig", "linkAtt", "tidy"} /\ Goto(d, "unAtt")
       \/ drill[d].pc \in {"unAtt", "unSig", "unSync", "unLock", "release"}
          /\ Goto(d, "stuck")
    /\ UNCHANGED <<media, trail>>

\* An OpenSSL command fails, times out or says too much before anything was
\* written.
DrillOpensslFails(d) ==
    /\ io < MaxIO /\ io' = io + 1
    /\ drill[d].pc \in {"exercise", "sign"} /\ Goto(d, "refused")
    /\ UNCHANGED <<media, trail>>

Running(d) == drill[d].pc \notin {"idle", "done", "refused", "stuck"}

\* The most states a trail holds: the empty directory, three entries, two
\* unlinks.
LongestTrail == 6

\* The host loses power: every process dies, and each directory is what it
\* was at some moment since its last fsync.
DrillPowerLoss ==
    /\ io < MaxIO /\ io' = io + 1
    /\ \E d \in Drills : Running(d)
    /\ \E cut \in [Runs -> 1 .. LongestTrail] :
           /\ \A r \in Runs : cut[r] \in DOMAIN trail[r]
           /\ trail' = [r \in Runs |-> <<trail[r][cut[r]]>>]
    /\ drill' = [d \in Drills |->
                   IF Running(d) THEN [drill[d] EXCEPT !.pc = "stuck"] ELSE drill[d]]
    /\ UNCHANGED media

DrillStep(d) ==
    \/ DrillExercises(d) \/ DrillSigns(d) \/ DrillLocks(d) \/ DrillWrites(d)
    \/ DrillLinksSignature(d) \/ DrillLinksAttestation(d) \/ DrillTidies(d)
    \/ DrillReleases(d) \/ DrillUnlinks(d) \/ DrillUnsyncs(d) \/ DrillUnlocks(d)

DrillNext ==
    \/ \E d \in Drills : DrillStep(d) \/ DrillIOFails(d) \/ DrillOpensslFails(d)
    \/ \E d \in Drills, r, cms \in Runs : DrillBegins(d, r, cms)
    \/ DrillPowerLoss

\* The pair of run r is there: both files, of one drill.
Attested(r) ==
    Directory(r).att # NoDrill /\ Directory(r).sig = Directory(r).att

\* The operator carries a pair to the server once no drill holds the lock.
Carried(r) == Attested(r) /\ Directory(r).lock = NoDrill

-----------------------------------------------------------------------------
(* Properties                                                              *)

\* _write_output_pair never shows an attestation without the signature that
\* belongs to it: not to a reader at any moment, and not after a power loss
\* at any moment, whichever drills raced for the directory and failed.
AttestationNeverAlone ==
    \A r \in Runs : \A i \in DOMAIN trail[r] :
        trail[r][i].att # NoDrill => trail[r][i].sig = trail[r][i].att

\* An attestation exists only for an escrow that was decrypted and whose CA
\* signed: the archive the operator put in was this run's, and a good one.
AttestedEscrowWorks ==
    \A r \in Runs : Attested(r) => media[r].archive = "good"

\* What offline_ca_restore_drill.py publishes can be relied on: a whole pair,
\* at any moment and after any power loss, and only for an escrow that works.
AttestationSound == AttestationNeverAlone /\ AttestedEscrowWorks

\* A committed pair stays: the rollback of a drill that lost the race, or
\* failed later, never removes what another drill published.
CommittedPairStays ==
    [][\A r \in Runs : \A d \in Drills :
          drill[d].pc = "done" /\ drill[d].run = r
             => Directory(r)'.att = d /\ Directory(r)'.sig = d]_drillVars
=============================================================================
