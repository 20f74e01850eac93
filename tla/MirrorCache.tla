----------------------------- MODULE MirrorCache -----------------------------
(***************************************************************************)
(* What looks after the files of the mirror, in a process of its own and   *)
(* possibly beside a run of mirror sync: the clean and verify commands of  *)
(* the CLI and the integrity scan of the storage engine's start-up.  Each  *)
(* reads the directory and the database at different moments and acts on   *)
(* what it has read.  .part files are no part of `disk': clean leaves them *)
(* out of its listing, and the integrity scan finds no row for them.       *)
(***************************************************************************)
EXTENDS MirrorRun

CONSTANT MaxDamage     \* bound on changes to files from outside

ASSUME DamageAssumption == MaxDamage \in Nat

VARIABLES
  command,    \* the command that runs: "none", "clean", "verify", "initialize"
  phase,      \* where it is
  listed,     \* files it has listed and not dealt with
  expected,   \* verify: [Files -> digest of the row it has read]
  digest,     \* initialize: the digest computed last, for a file of `listed'
  bad,        \* verify: mismatches; initialize: files it has removed
  verdict,    \* verify: the status line printed last
  cacheValid, \* cache.db: the entries are marked valid
  damage,     \* changes made from outside so far
  touched     \* history: files whose contents or row changed since the command read them

commands == <<command, phase, listed, expected, digest, bad, verdict, cacheValid, damage,
              touched>>
cache == <<mirror, commands>>

NoDigest == [file |-> "none", sha256 |-> Absent]

CacheTypeOK ==
  /\ MirrorTypeOK
  /\ command \in {"none", "clean", "verify", "initialize"}
  /\ phase \in {"idle", "query", "confirm", "remove", "check", "list", "hash", "lookup",
                "invalidate"}
  /\ listed \subseteq Files
  /\ expected \in [Files -> Digests \union {Absent}]
  /\ digest \in {NoDigest} \union [file : Files, sha256 : Digests]
  /\ bad \subseteq Files
  /\ verdict \in {"none", "pass", "fail"}
  /\ cacheValid \in BOOLEAN
  /\ damage \in 0..MaxDamage
  /\ touched \subseteq Files

CacheInit ==
  /\ MirrorInit
  /\ command = "none" /\ phase = "idle"
  /\ listed = {} /\ bad = {}
  /\ expected = [f \in Files |-> Absent]
  /\ digest = NoDigest
  /\ verdict = "none"
  /\ cacheValid = TRUE
  /\ damage = 0
  /\ touched = {}

-----------------------------------------------------------------------------
OnDisk == {f \in Files : disk[f] # Absent}

Touch ==
  touched' = IF command = "none" THEN {}
               ELSE touched \union {f \in Files : disk'[f] # disk[f] \/ row'[f] # row[f]}

(* A step of the sync, seen by the command that runs. *)
Sync ==
  /\ MirrorNext
  /\ Touch
  /\ UNCHANGED <<command, phase, listed, expected, digest, bad, verdict, cacheValid, damage>>

(* Something outside the program changes or removes a file. *)
Damage(f) ==
  /\ damage < MaxDamage /\ disk[f] # Absent
  /\ \E d \in (Digests \union {Absent}) \ {disk[f]} : disk' = [disk EXCEPT ![f] = d]
  /\ damage' = damage + 1
  /\ UNCHANGED <<upstream, row, running, command, phase, listed, expected, digest, bad,
                 verdict, cacheValid>>
  /\ Touch

(* The command returns, or is killed. *)
Leave ==
  /\ command' = "none" /\ phase' = "idle"
  /\ listed' = {} /\ bad' = {}
  /\ expected' = [f \in Files |-> Absent]
  /\ digest' = NoDigest /\ verdict' = "none"
  /\ touched' = {}

KillCommand ==
  /\ command # "none"
  /\ Leave
  /\ UNCHANGED <<mirror, cacheValid, damage>>

-----------------------------------------------------------------------------
(* mirror clean: the directory is listed first. *)
Scan ==
  /\ command = "none"
  /\ command' = "clean" /\ phase' = "query"
  /\ listed' = OnDisk
  /\ touched' = {}
  /\ UNCHANGED <<mirror, expected, digest, bad, verdict, cacheValid, damage>>

(* Mutant of Unreferenced: the directory is listed after the rows are queried. *)
UnreferencedOfNow == {f \in OnDisk : f \in touched \/ ~Vouched(f)}

Unreferenced == {f \in listed : ~Vouched(f)}

QueryReferenced ==
  /\ command = "clean" /\ phase = "query"
  /\ IF Unreferenced = {}
       THEN Leave
       ELSE /\ phase' = "confirm"
            /\ listed' = Unreferenced
            /\ touched' = {}
            /\ UNCHANGED <<command, expected, digest, bad, verdict>>
  /\ UNCHANGED <<mirror, cacheValid, damage>>

(* The prompt, or --yes. *)
Confirm ==
  /\ command = "clean" /\ phase = "confirm"
  /\ \/ phase' = "remove" /\ UNCHANGED <<command, listed, expected, digest, bad, verdict, touched>>
     \/ Leave
  /\ UNCHANGED <<mirror, cacheValid, damage>>

(* A file that cannot be removed is passed over. *)
RemoveListed(f) ==
  /\ command = "clean" /\ phase = "remove" /\ f \in listed
  /\ \E removable \in BOOLEAN :
       disk' = IF removable THEN [disk EXCEPT ![f] = Absent] ELSE disk
  /\ IF listed = {f}
       THEN Leave
       ELSE listed' = listed \ {f} /\ UNCHANGED <<command, phase, expected, digest,
                                           bad, verdict, touched>>
  /\ UNCHANGED <<upstream, row, running, cacheValid, damage>>

-----------------------------------------------------------------------------
(* mirror verify: rows and their digests are read in one query. *)
QueryVerified ==
  /\ command = "none" /\ \E f \in Files : Vouched(f)
  /\ command' = "verify" /\ phase' = "check"
  /\ listed' = {f \in Files : Vouched(f)}
  /\ expected' = [f \in Files |-> IF Vouched(f) THEN row[f].sha256 ELSE Absent]
  /\ touched' = {} /\ verdict' = "none"
  /\ UNCHANGED <<mirror, digest, bad, cacheValid, damage>>

Mismatches(f) == disk[f] # Absent /\ disk[f] # expected[f]

(* Mutant of Collect: only the last file decides. *)
CollectLast(f) == IF Mismatches(f) THEN {f} ELSE {}

Collect(f) == IF Mismatches(f) THEN bad \union {f} ELSE bad

(* A missing file is counted apart and mismatches nothing. *)
CheckListed(f) ==
  /\ command = "verify" /\ f \in listed
  /\ listed' = listed \ {f}
  /\ bad' = Collect(f)
  /\ UNCHANGED <<mirror, command, phase, expected, digest, verdict, cacheValid, damage,
                 touched>>

(* _display_verification_results *)
Verdict == IF bad # {} THEN "fail" ELSE "pass"

Report ==
  /\ command = "verify" /\ phase = "check" /\ listed = {}
  /\ verdict' = Verdict
  /\ phase' = "idle"
  /\ UNCHANGED <<mirror, command, listed, expected, digest, bad, cacheValid, damage,
                 touched>>

EndVerify ==
  /\ command = "verify" /\ phase = "idle"
  /\ Leave
  /\ UNCHANGED <<mirror, cacheValid, damage>>

-----------------------------------------------------------------------------
(* _verify_cache_integrity: the files are listed, *)
ListFiles ==
  /\ command = "none" /\ OnDisk # {}
  /\ command' = "initialize" /\ phase' = "hash"
  /\ listed' = OnDisk
  /\ touched' = {}
  /\ UNCHANGED <<mirror, expected, digest, bad, verdict, cacheValid, damage>>

(* each is read (one that is gone is skipped), *)
ComputeSha256(f) ==
  /\ command = "initialize" /\ phase = "hash" /\ f \in listed
  /\ listed' = listed \ {f}
  /\ IF disk[f] = Absent
       THEN UNCHANGED <<phase, digest>>
       ELSE phase' = "lookup" /\ digest' = [file |-> f, sha256 |-> disk[f]]
  /\ touched' = touched \ {f}
  /\ UNCHANGED <<mirror, command, expected, bad, verdict, cacheValid, damage>>

(* Mutant of Conflicts: only a row that vouches for the file is compared. *)
ConflictsIfVouched(f) == Vouched(f) /\ row[f].sha256 # digest.sha256

Conflicts(f) == row[f] # NoRow /\ row[f].sha256 # digest.sha256

(* and its row is looked up: on a mismatch whatever is there now is removed. *)
Lookup(f) ==
  /\ command = "initialize" /\ phase = "lookup" /\ digest.file = f
  /\ IF Conflicts(f)
       THEN disk' = [disk EXCEPT ![f] = Absent] /\ bad' = bad \union {f}
       ELSE UNCHANGED <<disk, bad>>
  /\ phase' = "hash" /\ digest' = NoDigest
  /\ UNCHANGED <<upstream, row, running, command, listed, expected, verdict, cacheValid,
                 damage, touched>>

(* After the last file the entries of cache.db are invalidated if any file went. *)
EndScan ==
  /\ command = "initialize" /\ phase = "hash" /\ listed = {}
  /\ phase' = "invalidate"
  /\ cacheValid' = IF bad # {} THEN FALSE ELSE cacheValid
  /\ UNCHANGED <<mirror, command, listed, expected, digest, bad, verdict, damage, touched>>

EndInitialize ==
  /\ command = "initialize" /\ phase = "invalidate"
  /\ Leave
  /\ UNCHANGED <<mirror, cacheValid, damage>>

(* Whoever needs the entries of cache.db computes them again. *)
Recompute ==
  /\ ~cacheValid /\ command = "none"
  /\ cacheValid' = TRUE
  /\ UNCHANGED <<mirror, command, phase, listed, expected, digest, bad, verdict, damage,
                 touched>>

Command ==
  \/ KillCommand \/ Scan \/ QueryReferenced \/ Confirm \/ QueryVerified \/ Report
  \/ EndVerify \/ ListFiles \/ EndScan \/ EndInitialize \/ Recompute
  \/ \E f \in Files : RemoveListed(f) \/ CheckListed(f) \/ ComputeSha256(f) \/ Lookup(f)

CacheNext == Sync \/ Command \/ \E f \in Files : Damage(f)

CacheSpec == CacheInit /\ [][CacheNext]_cache

-----------------------------------------------------------------------------
(* No command takes away a file that its row vouches for, unless the sync     *)
(* renamed it or marked its row after the command had read both.              *)
RemovesOnlyUnvouched ==
  [][\A f \in OnDisk : disk'[f] = Absent /\ command # "none" /\ damage' = damage =>
       (Vouched(f) /\ row[f].sha256 = disk[f] => f \in touched)]_cache

(* What verify prints is true of the files that neither a sync nor anything   *)
(* else changed since it read their rows: a pass means that none of them      *)
(* differs from its row, a failure that one of them or a changed one does.    *)
VerifyIsHonest ==
  command = "verify" /\ phase = "idle" =>
    LET Differing == {f \in Files : expected[f] # Absent /\ disk[f] \notin {Absent, expected[f]}}
    IN /\ verdict = "pass" => Differing \subseteq touched
       /\ verdict = "fail" => (Differing \union touched) # {}

(* When the integrity scan is over, every file that did not change since it   *)
(* was read has the digest of its row, whatever state the row is in, and if   *)
(* any file was removed no derived entry is taken for valid.                  *)
IntegrityRestored ==
  command = "initialize" /\ phase = "invalidate" =>
    /\ \A f \in OnDisk \ touched : row[f] # NoRow => disk[f] = row[f].sha256
    /\ bad # {} => ~cacheValid
=============================================================================
