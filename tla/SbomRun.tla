------------------------------- MODULE SbomRun -------------------------------
(***************************************************************************)
(* The SBOM workflow run after run into one output directory: scan,        *)
(* enrich, assemble, write the requested formats one after the other,      *)
(* record what was written, and tell the caller.  The sbom command runs it *)
(* by itself and tidies up after a failure; the workflow engine runs it    *)
(* with a token that others cancel and a scan session to record it in.     *)
(***************************************************************************)
EXTENDS Naturals, Sequences, FiniteSets, SequencesExt

CONSTANTS
  Formats,    \* output formats: one file of the directory each
  MaxRuns,    \* bound: runs of the workflow
  MaxRequest  \* bound: formats one run asks for (-f may name one twice)

ASSUME SbomAssumption == MaxRuns \in Nat /\ MaxRequest \in Nat

VARIABLES
  run,        \* number of the current run
  host,       \* who runs it: "cli" or "engine"
  request,    \* config.formats
  stage,      \* where execute, or its caller, is
  next,       \* index in request of the next format to write
  results,    \* formats whose writer returned
  failures,   \* formats whose writer raised
  token,      \* the run's cancellation token
  files,      \* [Formats -> [by: the run that wrote the file, 0 without file; whole]]
  touched,    \* history: [Formats -> the last run that changed the file]
  kept,       \* history: files the command could not remove after a failure
  records,    \* rows of sbom_documents: <<run, format>>
  events,     \* the terminal events published by the current run, in order
  outcome     \* of the last run: "none", "completed", "failed", "interrupted"

sbom == <<run, host, request, stage, next, results, failures, token, files, touched,
          kept, records, events, outcome>>

Hosts == {"cli", "engine"}
WorkflowSteps == <<"scan", "enrich", "assemble", "write", "persist">>
Stages == ToSet(WorkflowSteps) \union {"idle", "resolve", "writing", "written", "publish", "collect", "tidy"}
NoFile == [by |-> 0, whole |-> TRUE]

SbomTypeOK ==
  /\ run \in 0..MaxRuns /\ host \in Hosts /\ stage \in Stages
  /\ request \in BoundedSeq(Formats, MaxRequest) /\ next \in 1..MaxRequest + 1
  /\ results \in SUBSET Formats /\ failures \in SUBSET Formats /\ token \in BOOLEAN
  /\ files \in [Formats -> [by : 0..MaxRuns, whole : BOOLEAN]]
  /\ touched \in [Formats -> 0..MaxRuns] /\ kept \in SUBSET Formats
  /\ records \in SUBSET ((1..MaxRuns) \X Formats)
  /\ events \in BoundedSeq({"completed", "failed", "cancelled"}, 2)
  /\ outcome \in {"none", "completed", "failed", "interrupted"}

SbomInit ==
  /\ run = 0 /\ host = "cli" /\ request = <<>> /\ stage = "idle" /\ next = 1
  /\ results = {} /\ failures = {} /\ token = FALSE
  /\ files = [f \in Formats |-> NoFile] /\ touched = [f \in Formats |-> 0] /\ kept = {}
  /\ records = {} /\ events = <<>> /\ outcome = "none"

-----------------------------------------------------------------------------
Idle == stage = "idle"
ThisRun == <<run, host, request>>
Disk == <<files, touched, kept, records>>
Wanted == ToSet(request)

(* A run is asked for: on the command line with any list of formats.  The     *)
(* engine is given a list that names each format once.                        *)
Start ==
  /\ Idle /\ run < MaxRuns
  /\ run' = run + 1 /\ host' \in Hosts
  /\ request' \in BoundedSeq(Formats, MaxRequest) \ {<<>>}
  /\ host' = "engine" => IsInjective(request')
  /\ stage' = "resolve" /\ next' = 1 /\ results' = {} /\ failures' = {}
  /\ token' = FALSE /\ kept' = {} /\ events' = <<>> /\ outcome' = "none"
  /\ UNCHANGED <<files, touched, records>>

(* Only the engine keeps a reference to the token it passes. *)
CancelRun ==
  /\ ~Idle /\ host = "engine" /\ ~token
  /\ token' = TRUE
  /\ UNCHANGED <<ThisRun, stage, next, results, failures, Disk, events, outcome>>

(* execute raises: the command goes on to remove the files, the engine is told. *)
Raise(published) ==
  /\ events' = events \o published
  /\ IF host = "cli" THEN stage' = "tidy" /\ UNCHANGED outcome
                     ELSE stage' = "idle" /\ outcome' = "failed"

(* The databases are opened and the services resolved outside the try. *)
ResolveServices ==
  /\ stage = "resolve"
  /\ \/ stage' = "scan" /\ UNCHANGED <<events, outcome>>
     \/ Raise(<<>>)
  /\ UNCHANGED <<ThisRun, next, results, failures, token, Disk>>

(* The check before each step.  _WorkflowCancelled is itself an Exception, so *)
(* the cancelled run publishes that it failed as well.                        *)
Cancel ==
  /\ stage \in ToSet(WorkflowSteps) /\ token
  /\ Raise(<<"cancelled", "failed">>)
  /\ UNCHANGED <<ThisRun, next, results, failures, token, Disk>>

(* Scanner, enricher, assembler: they return, or raise into except Exception. *)
Before ==
  /\ stage \in {"scan", "enrich", "assemble"} /\ ~token
  /\ \/ /\ \E i \in 1..3 : stage = WorkflowSteps[i] /\ stage' = WorkflowSteps[i + 1]
        /\ UNCHANGED <<events, outcome>>
     \/ Raise(<<"failed">>)
  /\ UNCHANGED <<ThisRun, next, results, failures, token, Disk>>

-----------------------------------------------------------------------------
EnterWrite ==
  /\ stage = "write" /\ ~token /\ stage' = "writing"
  /\ UNCHANGED <<ThisRun, next, results, failures, token, Disk, events, outcome>>

Format == request[next]
Writing == stage = "writing" /\ next <= Len(request)

Change(f, file) ==
  /\ files' = [files EXCEPT ![f] = file] /\ touched' = [touched EXCEPT ![f] = run]

FormatFails ==
  /\ failures' = failures \union {Format} /\ next' = next + 1 /\ stage' = "writing"
  /\ UNCHANGED <<ThisRun, results, token, kept, records, events, outcome>>

(* No writer for the format, an invalid document, the check before the write, *)
(* a directory that cannot be made: the file is left as an earlier run left it. *)
WriterRefuses == Writing /\ FormatFails /\ UNCHANGED <<files, touched>>

(* write_bytes has truncated the file when it fails: what is there is removed, *)
(* whichever run wrote it, and the removal may fail too.                       *)
WriteBytesFails ==
  /\ Writing /\ FormatFails
  /\ Change(Format, NoFile) \/ Change(Format, [by |-> run, whole |-> FALSE])

WriteBytes ==
  /\ Writing /\ Change(Format, [by |-> run, whole |-> TRUE]) /\ stage' = "written"
  /\ UNCHANGED <<ThisRun, next, results, failures, token, kept, records, events, outcome>>

(* The check after the write: a cancelled run removes the file, if it can. *)
AfterWrite ==
  /\ stage = "written"
  /\ IF token
       THEN FormatFails /\ (Change(Format, NoFile) \/ UNCHANGED <<files, touched>>)
       ELSE /\ results' = results \union {Format} /\ next' = next + 1 /\ stage' = "writing"
            /\ UNCHANGED <<ThisRun, failures, token, Disk, events, outcome>>

EndWrite ==
  /\ stage = "writing" /\ next > Len(request) /\ stage' = "persist"
  /\ UNCHANGED <<ThisRun, next, results, failures, token, Disk, events, outcome>>

-----------------------------------------------------------------------------
(* Mutant of Persisted: a row for every format of the configuration. *)
PersistedAsRequested == Wanted

(* One row per result; none on the command line, which has no scan session. *)
Persisted == IF host = "engine" THEN results ELSE {}

(* _persist: one transaction, committed or rolled back. *)
Persist ==
  /\ stage = "persist" /\ ~token
  /\ \/ /\ records' = records \union ({run} \X Persisted)
        /\ stage' = "publish" /\ UNCHANGED <<events, outcome>>
     \/ Persisted # {} /\ Raise(<<"failed">>) /\ UNCHANGED records
  /\ UNCHANGED <<ThisRun, next, results, failures, token, files, touched, kept>>

(* Mutant of Partial: the run only fails when nothing was written. *)
PartialIfEmpty == results = {}

(* _check_write_failures *)
Partial == failures # {}

(* The partial failure is published once: it is re-raised as it is. *)
Publish ==
  /\ stage = "publish"
  /\ IF Partial THEN Raise(<<"failed">>)
     ELSE /\ events' = Append(events, "completed")
          /\ IF host = "cli" THEN stage' = "collect" /\ UNCHANGED outcome
                             ELSE stage' = "idle" /\ outcome' = "completed"
  /\ UNCHANGED <<ThisRun, next, results, failures, token, Disk>>

(* The command reads the files again to print their digests, which may fail. *)
Collect ==
  /\ stage = "collect"
  /\ \/ stage' = "idle" /\ outcome' = "completed"
     \/ stage' = "tidy" /\ UNCHANGED outcome
  /\ UNCHANGED <<ThisRun, next, results, failures, token, Disk, events>>

(* The command's except Exception: each requested file is removed, whoever    *)
(* wrote it; a removal that fails is passed over.  Then it exits with 1.      *)
Tidy ==
  /\ stage = "tidy"
  /\ kept' \in SUBSET {f \in Wanted : files[f] # NoFile}
  /\ files' = [f \in Formats |-> IF f \in Wanted \ kept' THEN NoFile ELSE files[f]]
  /\ touched' = [f \in Formats |-> IF f \in Wanted \ kept' THEN run ELSE touched[f]]
  /\ stage' = "idle" /\ outcome' = "failed"
  /\ UNCHANGED <<ThisRun, next, results, failures, token, records, events>>

(* Ctrl-C, the engine's timeout or its shutdown raise what except Exception   *)
(* does not catch, and a kill asks nobody; one that strikes inside            *)
(* write_bytes leaves a torn file.                                            *)
Interrupt ==
  /\ ~Idle /\ stage' = "idle" /\ outcome' = "interrupted"
  /\ \/ UNCHANGED <<files, touched>>
     \/ Writing /\ Change(Format, [by |-> run, whole |-> FALSE])
  /\ UNCHANGED <<ThisRun, next, results, failures, token, kept, records, events>>

SbomNext ==
  \/ Start \/ CancelRun \/ ResolveServices \/ Cancel \/ Before \/ EnterWrite
  \/ WriterRefuses \/ WriteBytesFails \/ WriteBytes \/ AfterWrite \/ EndWrite
  \/ Persist \/ Publish \/ Collect \/ Tidy \/ Interrupt

SbomSpec == SbomInit /\ [][SbomNext]_sbom

-----------------------------------------------------------------------------
OfThisRun(f) == files[f] = [by |-> run, whole |-> TRUE]

(* The outcome tells what is in the directory: a run reported as completed has *)
(* left every format it was asked for, whole and its own, and published this   *)
(* once and nothing else; one that began and failed under the engine has       *)
(* published this last; after a failed command none of the files it was asked  *)
(* for is there, but those it could not remove (execute with                   *)
(* _check_write_failures, and the except clause of sbom).                      *)
ExitTellsFiles ==
  /\ outcome = "completed" => (\A f \in Wanted : OfThisRun(f)) /\ events = <<"completed">>
  /\ outcome = "failed" /\ host = "engine" /\ events # <<>> => Last(events) = "failed"
  /\ outcome = "failed" /\ host = "cli" => \A f \in Wanted \ kept : files[f] = NoFile

(* A row of sbom_documents stands for a file its run wrote whole, which is     *)
(* still there unless a later run has written or removed it (_persist).        *)
RecordsAreWritten ==
  \A r \in records : files[r[2]] = [by |-> r[1], whole |-> TRUE] \/ touched[r[2]] > r[1]
=============================================================================
