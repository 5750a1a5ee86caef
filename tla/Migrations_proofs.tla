-------------------------- MODULE Migrations_proofs --------------------------
(***************************************************************************)
(* Theorems about Migrations, for any number of processes, files and       *)
(* failures. InStep says how far the schema is when a process is where it  *)
(* is; a process that fails keeps nothing, so the next start relies on     *)
(* schema_migrations alone.                                                *)
(***************************************************************************)
EXTENDS Migrations, TLAPS

-----------------------------------------------------------------------------
(* Type correctness *)

\* The file a process is at after Advance is one there is.
LEMMA AdvanceFile ==
    ASSUME MigrationsTypeOK, NEW p \in Process, Advance(p)
    PROVE  file' \in [Process -> File]
<1>1. file[p] \in Nat /\ Files \in Nat /\ 1 =< file[p] /\ file[p] =< Files
    BY MigrationsConstants DEF MigrationsTypeOK, File
<1>2. CASE file[p] = Files
    BY <1>2 DEF Advance, MigrationsTypeOK
<1>3. CASE file[p] # Files
    <2>1. file[p] + 1 \in File
        BY <1>1, <1>3 DEF File
    <2> QED
        BY <1>3, <2>1 DEF Advance, MigrationsTypeOK
<1> QED
    BY <1>2, <1>3

\* Every step keeps the types.
LEMMA MigrationsTypeStep ==
    MigrationsTypeOK /\ [MigrationsNext]_migrationVars => MigrationsTypeOK'
<1> SUFFICES ASSUME MigrationsTypeOK, [MigrationsNext]_migrationVars PROVE MigrationsTypeOK'
    OBVIOUS
<1>0. 1 \in File /\ MaxFailures \in Nat
    BY MigrationsConstants DEF File
<1>1. ASSUME NEW p \in Process, Bootstrap(p) PROVE MigrationsTypeOK'
    BY <1>0, <1>1 DEF Bootstrap, MigrationsTypeOK, Running
<1>2. ASSUME NEW p \in Process, Check(p) PROVE MigrationsTypeOK'
    <2>1. file' \in [Process -> File]
        BY <1>2, AdvanceFile DEF Check, MigrationsTypeOK
    <2>2. step' \in [Process -> Running \cup {"new", "failed", "exited"}]
        BY <1>2 DEF Check, Advance, At, MigrationsTypeOK, Running
    <2> QED
        BY <1>2, <2>1, <2>2 DEF Check, MigrationsTypeOK
<1>3. ASSUME NEW p \in Process, Exec(p) PROVE MigrationsTypeOK'
    <2>1. file[p] \in File
        BY <1>3 DEF MigrationsTypeOK
    <2> QED
        BY <1>3, <2>1 DEF Exec, Commit, At, MigrationsTypeOK, Running
<1>4. ASSUME NEW p \in Process, ExecFails(p) \/ Crash(p) PROVE MigrationsTypeOK'
    <2>1. failures' \in 0 .. MaxFailures
        BY <1>0, <1>4 DEF ExecFails, Crash, MigrationsTypeOK
    <2> QED
        BY <1>4, <2>1 DEF ExecFails, Crash, At, MigrationsTypeOK
<1>5. ASSUME NEW p \in Process, Record(p) PROVE MigrationsTypeOK'
    <2>1. file' \in [Process -> File]
        BY <1>5, AdvanceFile DEF Record
    <2>2. step' \in [Process -> Running \cup {"new", "failed", "exited"}]
        BY <1>5 DEF Record, Advance, MigrationsTypeOK, Running
    <2>3. recorded' \subseteq File
        BY <1>5 DEF Record, MigrationsTypeOK
    <2> QED
        BY <1>5, <2>1, <2>2, <2>3 DEF Record, MigrationsTypeOK
<1>6. CASE Serve
    BY <1>6 DEF Serve, MigrationsTypeOK
<1>7. CASE UNCHANGED migrationVars
    BY <1>7 DEF migrationVars, MigrationsTypeOK
<1> QED
    BY <1>1, <1>2, <1>3, <1>4, <1>5, <1>6, <1>7 DEF MigrationsNext

\* Runs start well typed.
LEMMA MigrationsTypeInit == MigrationsInit => MigrationsTypeOK
<1>1. 1 \in File /\ 0 \in 0 .. MaxFailures
    BY MigrationsConstants DEF File
<1> QED
    BY <1>1 DEF MigrationsInit, MigrationsTypeOK, Running

\* The types hold in every state.
THEOREM MigrationsTypeCorrect == MigrationsSpec => []MigrationsTypeOK
BY MigrationsTypeInit, MigrationsTypeStep, PTL DEF MigrationsSpec

-----------------------------------------------------------------------------
(* The order of the files *)

\* A process has passed applied files only, the one it has just executed
\* included; one that exits has passed them all.
Place(p) ==
    /\ step[p] \in Running => \A f \in 1 .. (file[p] - 1) : f \in applied
    /\ step[p] = "record" => file[p] \in applied
    /\ step[p] = "exited" => applied = File

InStep ==
    /\ recorded = applied
    /\ \A f \in applied : \A g \in 1 .. f : g \in applied
    /\ \A p \in Process : Place(p)
    /\ served => applied = File

\* What a process does to its own place.
ProcessStep(p) == Bootstrap(p) \/ Check(p) \/ Exec(p) \/ ExecFails(p) \/ Record(p) \/ Crash(p)

\* ... leaves the others where they are, and takes nothing from the schema.
LEMMA OthersStay ==
    ASSUME MigrationsTypeOK, NEW p \in Process, ProcessStep(p)
    PROVE  /\ \A q \in Process \ {p} : step'[q] = step[q] /\ file'[q] = file[q]
           /\ applied \subseteq applied' /\ UNCHANGED served
BY DEF ProcessStep, Bootstrap, Check, Exec, ExecFails, Record, Crash, Advance, At, Commit,
       MigrationsTypeOK

\* A process whose file is applied may go on.
LEMMA AdvancePlace ==
    ASSUME MigrationsTypeOK, NEW p \in Process, Advance(p), Place(p), step[p] \in Running,
           file[p] \in applied, applied' = applied
    PROVE  Place(p)'
<1>1. /\ file[p] \in Nat /\ Files \in Nat /\ 1 =< file[p] /\ file[p] =< Files
      /\ applied \subseteq 1 .. Files
    BY MigrationsConstants DEF MigrationsTypeOK, File
<1>2. \A f \in 1 .. file[p] : f \in applied
    <2> SUFFICES ASSUME NEW f \in 1 .. file[p] PROVE f \in applied
        OBVIOUS
    <2>1. f = file[p] \/ f \in 1 .. (file[p] - 1)
        BY <1>1
    <2> QED
        BY <2>1 DEF Place
<1>3. CASE file[p] = Files
    <2>1. applied = File
        BY <1>1, <1>2, <1>3 DEF File
    <2>2. step'[p] = "exited"
        BY <1>3 DEF Advance, MigrationsTypeOK
    <2> QED
        BY <2>1, <2>2 DEF Place, Running
<1>4. CASE file[p] # Files
    <2>1. step'[p] = "check" /\ file'[p] = file[p] + 1
        BY <1>4 DEF Advance, MigrationsTypeOK
    <2>2. file'[p] - 1 = file[p]
        BY <1>1, <2>1
    <2> QED
        BY <1>2, <2>1, <2>2 DEF Place
<1> QED
    BY <1>3, <1>4

\* The process that moves is in its place again.
LEMMA PlaceStep ==
    ASSUME MigrationsTypeOK, InStep, NEW p \in Process, ProcessStep(p)
    PROVE  Place(p)'
<1>0. Place(p) /\ recorded = applied
    BY DEF InStep
<1>1. CASE Bootstrap(p)
    <2>1. step'[p] = "check" /\ file'[p] = 1
        BY <1>1 DEF Bootstrap, MigrationsTypeOK
    <2> QED
        BY <2>1 DEF Place
<1>2. CASE Check(p)
    <2>1. CASE file[p] \in recorded
        BY <1>0, <1>2, <2>1, AdvancePlace DEF Check, Running
    <2>2. CASE file[p] \notin recorded
        <3>1. step'[p] = "exec" /\ file' = file /\ applied' = applied /\ step[p] = "check"
            BY <1>2, <2>2 DEF Check, At, MigrationsTypeOK
        <3> QED
            BY <1>0, <3>1 DEF Place, Running
    <2> QED
        BY <2>1, <2>2
<1>3. CASE Exec(p)
    <2>1. /\ step[p] = "exec" /\ step'[p] = "record" /\ file' = file
          /\ applied' = applied \cup {file[p]}
        BY <1>3 DEF Exec, At, Commit, MigrationsTypeOK
    <2> QED
        BY <1>0, <2>1 DEF Place, Running
<1>4. CASE ExecFails(p) \/ Crash(p)
    <2>1. step'[p] = "failed"
        BY <1>4 DEF ExecFails, Crash, At, MigrationsTypeOK
    <2> QED
        BY <2>1 DEF Place, Running
<1>5. CASE Record(p)
    BY <1>0, <1>5, AdvancePlace DEF Record, Place, Running
<1> QED
    BY <1>1, <1>2, <1>3, <1>4, <1>5 DEF ProcessStep

\* Only the next file is ever applied, with its record.
LEMMA TablesStep ==
    ASSUME MigrationsTypeOK, InStep, NEW p \in Process, ProcessStep(p)
    PROVE  /\ recorded' = applied'
           /\ \A f \in applied' : \A g \in 1 .. f : g \in applied'
<1>1. CASE Exec(p)
    <2>1. /\ step[p] = "exec" /\ recorded' = recorded \cup {file[p]}
          /\ applied' = applied \cup {file[p]}
        BY <1>1 DEF Exec, At, Commit
    <2>2. \A g \in 1 .. (file[p] - 1) : g \in applied
        BY <2>1 DEF InStep, Place, Running
    <2>3. file[p] \in Nat
        BY DEF MigrationsTypeOK, File
    <2>4. \A g \in 1 .. file[p] : g = file[p] \/ g \in 1 .. (file[p] - 1)
        BY <2>3
    <2> QED
        BY <2>1, <2>2, <2>4 DEF InStep
<1>2. CASE Record(p)
    <2>1. recorded' = recorded \cup {file[p]} /\ applied' = applied /\ file[p] \in applied
        BY <1>2 DEF Record, InStep, Place
    <2> QED
        BY <2>1 DEF InStep
<1>3. CASE Bootstrap(p) \/ Check(p) \/ ExecFails(p) \/ Crash(p)
    <2>1. UNCHANGED <<applied, recorded>>
        BY <1>3 DEF Bootstrap, Check, ExecFails, Crash
    <2> QED
        BY <2>1 DEF InStep
<1> QED
    BY <1>1, <1>2, <1>3 DEF ProcessStep

\* The order of the files, over every step.
LEMMA InStepStep ==
    MigrationsTypeOK /\ InStep /\ [MigrationsNext]_migrationVars => InStep'
<1> SUFFICES ASSUME MigrationsTypeOK, InStep, [MigrationsNext]_migrationVars PROVE InStep'
    OBVIOUS
<1>1. ASSUME NEW p \in Process, ProcessStep(p) PROVE InStep'
    <2>1. applied' \subseteq File
        BY MigrationsTypeStep DEF MigrationsTypeOK
    <2>2. /\ \A q \in Process \ {p} : step'[q] = step[q] /\ file'[q] = file[q]
          /\ applied \subseteq applied' /\ UNCHANGED served
        BY <1>1, OthersStay
    <2>3. \A q \in Process : Place(q)'
        <3> SUFFICES ASSUME NEW q \in Process PROVE Place(q)'
            OBVIOUS
        <3>1. CASE q = p
            BY <1>1, <3>1, PlaceStep
        <3>2. CASE q # p
            <4>1. Place(q)
                BY DEF InStep
            <4> QED
                BY <2>1, <2>2, <3>2, <4>1 DEF Place
        <3> QED
            BY <3>1, <3>2
    <2>4. served' => applied' = File
        BY <2>1, <2>2 DEF InStep
    <2> QED
        BY <1>1, <2>3, <2>4, TablesStep DEF InStep
<1>2. CASE Serve
    BY <1>2 DEF Serve, InStep, Place
<1>3. CASE UNCHANGED migrationVars
    BY <1>3 DEF migrationVars, InStep, Place
<1> QED
    BY <1>1, <1>2, <1>3 DEF MigrationsNext, ProcessStep

\* Crashes and processes that run together leave the files applied in order,
\* each with its record; the server never meets a schema that lacks one.
THEOREM FilesInOrder == MigrationsSpec => []AppliedInOrder
<1>1. MigrationsInit => InStep
    BY DEF MigrationsInit, InStep, Place, Running
<1>2. InStep => AppliedInOrder
    BY DEF InStep, AppliedInOrder
<1> QED
    BY <1>1, <1>2, MigrationsTypeInit, MigrationsTypeStep, InStepStep, PTL DEF MigrationsSpec

-----------------------------------------------------------------------------
(* No repetition *)

\* What a process has executed is recorded, so it does not come to it again.
Remembered ==
    /\ \A p \in Process : ran[p] \subseteq recorded
    /\ \A p \in Process : step[p] = "exec" => file[p] \notin ran[p]
    /\ NeverRepeats

\* Every step keeps it: only Check leads to Exec, and it has looked.
LEMMA RememberedStep ==
    MigrationsTypeOK /\ Remembered /\ [MigrationsNext]_migrationVars => Remembered'
<1> SUFFICES ASSUME MigrationsTypeOK, Remembered, [MigrationsNext]_migrationVars
             PROVE  Remembered'
    OBVIOUS
<1> USE DEF Remembered, NeverRepeats
<1>1. ASSUME NEW p \in Process, Exec(p) PROVE Remembered'
    <2>1. /\ step[p] = "exec" /\ step'[p] = "record" /\ file' = file
          /\ \A q \in Process \ {p} : step'[q] = step[q] /\ ran'[q] = ran[q]
          /\ ran'[p] = ran[p] \cup {file[p]} /\ recorded' = recorded \cup {file[p]}
          /\ twice' = twice \cup (ran[p] \cap {file[p]})
        BY <1>1 DEF Exec, At, Commit, MigrationsTypeOK
    <2>2. twice' = {}
        BY <2>1
    <2>3. \A q \in Process : ran'[q] \subseteq recorded'
        BY <2>1
    <2>4. \A q \in Process : step'[q] = "exec" => file'[q] \notin ran'[q]
        BY <2>1
    <2> QED
        BY <2>2, <2>3, <2>4
<1>2. ASSUME NEW p \in Process, Check(p) PROVE Remembered'
    <2>1. UNCHANGED <<recorded, ran, twice>>
        BY <1>2 DEF Check
    <2>2. \A q \in Process \ {p} : step'[q] = step[q] /\ file'[q] = file[q]
        BY <1>2, OthersStay DEF ProcessStep
    <2>3. step'[p] = "exec" => file'[p] = file[p] /\ file[p] \notin recorded
        BY <1>2 DEF Check, Advance, At, MigrationsTypeOK
    <2> QED
        BY <2>1, <2>2, <2>3
<1>3. ASSUME NEW p \in Process, Bootstrap(p) \/ ExecFails(p) \/ Record(p) \/ Crash(p)
      PROVE  Remembered'
    <2>1. UNCHANGED <<ran, twice>> /\ recorded \subseteq recorded'
        BY <1>3 DEF Bootstrap, ExecFails, Record, Crash
    <2>2. \A q \in Process \ {p} : step'[q] = step[q] /\ file'[q] = file[q]
        BY <1>3, OthersStay DEF ProcessStep
    <2>3. step'[p] # "exec"
        BY <1>3 DEF Bootstrap, ExecFails, Record, Crash, Advance, At, MigrationsTypeOK
    <2> QED
        BY <2>1, <2>2, <2>3
<1>4. CASE Serve
    BY <1>4 DEF Serve
<1>5. CASE UNCHANGED migrationVars
    BY <1>5 DEF migrationVars
<1> QED
    BY <1>1, <1>2, <1>3, <1>4, <1>5 DEF MigrationsNext

\* No process executes a file twice, wherever it was killed and however often
\* it was started again.
THEOREM NoFileTwice == MigrationsSpec => []NeverRepeats
<1>1. MigrationsInit => Remembered
    BY DEF MigrationsInit, Remembered, NeverRepeats
<1>2. Remembered => NeverRepeats
    BY DEF Remembered
<1> QED
    BY <1>1, <1>2, MigrationsTypeInit, MigrationsTypeStep, RememberedStep, PTL
    DEF MigrationsSpec

=============================================================================
