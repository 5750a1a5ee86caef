----------------------------- MODULE Migrations -----------------------------
(***************************************************************************)
(* `quickmock migrate`: repository.RunMigrations over the files of         *)
(* src/migrations, run by processes that may start together, crash or time *)
(* out at any point and be started again; and the server, which compose    *)
(* starts once one of them has exited with 0. Every file is one            *)
(* transaction that records its own version.                               *)
(***************************************************************************)
EXTENDS Naturals

CONSTANTS
    Process,        \* the migrate processes
    Files,          \* the number of files, in lexical order
    MaxFailures     \* bound: crashes and failed calls

ASSUME MigrationsConstants == Files \in Nat \ {0} /\ MaxFailures \in Nat

VARIABLES
    step,       \* where each process is
    file,       \* the file it is at
    applied,    \* the files whose changes the schema has
    recorded,   \* schema_migrations
    failures,
    served,     \* the server runs
    ran,        \* history: the files each process executed, before or after a restart
    twice       \* history: the files a process executed again

migrationVars == <<step, file, applied, recorded, failures, served, ran, twice>>

File == 1 .. Files
Running == {"check", "exec", "record"}

MigrationsInit ==
    /\ step = [p \in Process |-> "new"]
    /\ file = [p \in Process |-> 1]
    /\ applied = {} /\ recorded = {}
    /\ failures = 0
    /\ served = FALSE
    /\ ran = [p \in Process |-> {}] /\ twice = {}

At(p, from, to) == step[p] = from /\ step' = [step EXCEPT ![p] = to]

\* Slip: CREATE TABLE without IF NOT EXISTS, which fails from the second time on.
BootstrapOnce(p) ==
    /\ step[p] \in {"new", "failed"}
    /\ step' = [step EXCEPT ![p] = IF \A q \in Process : step[q] = "new" THEN "check" ELSE "failed"]
    /\ file' = [file EXCEPT ![p] = 1]
    /\ UNCHANGED <<applied, recorded, failures, served, ran, twice>>

\* The process starts, or is started again; schema_migrations exists from here on.
Bootstrap(p) ==
    /\ step[p] \in {"new", "failed"}
    /\ step' = [step EXCEPT ![p] = "check"]
    /\ file' = [file EXCEPT ![p] = 1]
    /\ UNCHANGED <<applied, recorded, failures, served, ran, twice>>

\* Slip: the loop runs over the end of the list.
AdvancePast(p) == step' = [step EXCEPT ![p] = "check"] /\ file' = [file EXCEPT ![p] = @ + 1]

\* On to the next file, or exit 0.
Advance(p) ==
    IF file[p] = Files
    THEN step' = [step EXCEPT ![p] = "exited"] /\ UNCHANGED file
    ELSE /\ step' = [step EXCEPT ![p] = "check"]
         /\ file' = [file EXCEPT ![p] = @ + 1]

Check(p) ==
    /\ step[p] = "check"
    /\ IF file[p] \in recorded THEN Advance(p) ELSE At(p, "check", "exec") /\ UNCHANGED file
    /\ UNCHANGED <<applied, recorded, failures, served, ran, twice>>

\* Slip: the file leaves the record to RunMigrations.
CommitUnrecorded(f) == applied' = applied \cup {f} /\ UNCHANGED recorded

Commit(f) == applied' = applied \cup {f} /\ recorded' = recorded \cup {f}

Exec(p) ==
    /\ At(p, "exec", "record")
    /\ Commit(file[p])
    /\ ran' = [ran EXCEPT ![p] = @ \cup {file[p]}]
    /\ twice' = twice \cup (ran[p] \cap {file[p]})
    /\ UNCHANGED <<file, failures, served>>

\* Slip: a failed file is skipped and the loop goes on.
ExecFailsSkips(p) ==
    /\ failures < MaxFailures
    /\ step[p] = "exec"
    /\ failures' = failures + 1
    /\ Advance(p)
    /\ UNCHANGED <<applied, recorded, served, ran, twice>>

\* The transaction is rolled back, and the process exits with 1.
ExecFails(p) ==
    /\ failures < MaxFailures
    /\ At(p, "exec", "failed")
    /\ failures' = failures + 1
    /\ UNCHANGED <<file, applied, recorded, served, ran, twice>>

\* The record is there already: ON CONFLICT DO NOTHING.
Record(p) ==
    /\ step[p] = "record"
    /\ recorded' = recorded \cup {file[p]}
    /\ Advance(p)
    /\ UNCHANGED <<applied, failures, served, ran, twice>>

\* Killed, or the 60 seconds are over; also between a commit and its answer.
Crash(p) ==
    /\ failures < MaxFailures
    /\ step[p] \in Running
    /\ step' = [step EXCEPT ![p] = "failed"]
    /\ failures' = failures + 1
    /\ UNCHANGED <<file, applied, recorded, served, ran, twice>>

\* depends_on: migrate, service_completed_successfully
Serve ==
    /\ ~served
    /\ \E p \in Process : step[p] = "exited"
    /\ served' = TRUE
    /\ UNCHANGED <<step, file, applied, recorded, failures, ran, twice>>

MigrationsNext ==
    \/ \E p \in Process : \/ Bootstrap(p) \/ Check(p) \/ Exec(p) \/ ExecFails(p)
                          \/ Record(p) \/ Crash(p)
    \/ Serve

MigrationsSpec == MigrationsInit /\ [][MigrationsNext]_migrationVars

(***************************************************************************)
(* A process that is there runs, and compose starts the server. A failed   *)
(* process is started again by whoever deploys: an assumption, since       *)
(* compose itself does not (restart: "no").                                *)
(***************************************************************************)
MigrationsFairness ==
    /\ \A p \in Process :
          WF_migrationVars(Bootstrap(p) \/ Check(p) \/ Exec(p) \/ Record(p))
    /\ WF_migrationVars(Serve)

-----------------------------------------------------------------------------
\* Type correctness.
MigrationsTypeOK ==
    /\ step \in [Process -> Running \cup {"new", "failed", "exited"}]
    /\ file \in [Process -> File]
    /\ applied \subseteq File /\ recorded \subseteq File
    /\ ran \in [Process -> SUBSET File] /\ twice \subseteq File
    /\ failures \in 0 .. MaxFailures
    /\ served \in BOOLEAN

\* A crash anywhere, or two processes at once, leave the files applied in
\* order with none left out, each recorded exactly if it is applied; and the
\* server never meets a schema that lacks a file.
AppliedInOrder ==
    /\ recorded = applied
    /\ \A f \in applied : 1 .. f \subseteq applied
    /\ served => applied = File

\* A file runs again only when another process looked before it was recorded:
\* the process that executed it never does, wherever it was killed and however
\* often it was started again.
NeverRepeats == twice = {}

\* Nothing that a failed or killed run leaves behind is in the way of the next:
\* a deployment that is tried again gets to serve.
EventuallyServed == <>served

=============================================================================
