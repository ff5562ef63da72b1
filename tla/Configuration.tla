----------------------------- MODULE Configuration -----------------------------
(***************************************************************************)
(* The settings file and what the process makes of it: the boot, the       *)
(* unauthenticated setup of a fresh volume, and the Settings page, which   *)
(* saves first and reconnects after.  _load_database replaces the stores,  *)
(* the wiring and the devices step by step, and any step may fail.         *)
(* Settings are a Postgres DSN and the service addresses, by version.      *)
(***************************************************************************)
EXTENDS Naturals, Sequences

CONSTANTS
  Admins,       \* requests to /api/setup and /api/settings
  Dsns,         \* databases
  NoDsn,        \* no DSN: DATABASE_URL is not set
  EnvDsn,       \* DATABASE_URL
  Legacy,       \* devices in the file of an older version
  MaxSaves,     \* bound: requests
  MaxFaults     \* bound: steps that fail
ConfigurationAssumption == EnvDsn \in Dsns \cup {NoDsn} /\ Legacy \in Nat /\ "boot" \notin Admins

VARIABLES
  file,         \* settings.json
  tmp,          \* settings.tmp
  proc,         \* the process: its globals
  job,          \* per admin, and for the boot: where its request is
  rows,         \* per database: the legacy devices in its table
  answered,     \* a setup or a save of the settings has been answered 200
  reopened,     \* a setup was accepted after that
  crowded,      \* two requests have been at work at once
  versions,     \* versions of the service addresses so far
  faults
settingsVars == <<file, tmp, proc, job, rows, answered, reopened, crowded, versions, faults>>

Threads == Admins \cup {"boot"}
Absent == [dsn |-> NoDsn, svc |-> 0, is |-> "absent"]
Torn == [dsn |-> NoDsn, svc |-> 0, is |-> "torn"]
Whole(dsn, svc) == [dsn |-> dsn, svc |-> svc, is |-> "whole"]

\* db: DB and the stores on it; devices: the database DEVICES came from; svc: the
\* service addresses in use.
Blank == [configured |-> FALSE, db |-> NoDsn, devices |-> NoDsn, dsn |-> NoDsn, svc |-> 0]
Idle == [at |-> "idle", kind |-> "none", new |-> Absent]

Init ==
  /\ file = Absent /\ tmp = Absent /\ proc = Blank
  /\ job = [c \in Threads |-> IF c = "boot" THEN [Idle EXCEPT !.at = "boot", !.kind = "boot"] ELSE Idle]
  /\ rows = [d \in Dsns |-> 0]
  /\ answered = FALSE /\ reopened = FALSE /\ crowded = FALSE /\ versions = 0 /\ faults = 0

-----------------------------------------------------------------------------

UnchangedHistory == UNCHANGED <<answered, reopened, crowded, versions>>
Goto(c, at) == job' = [job EXCEPT ![c].at = at]
At(c, at) == job[c].at = at
Fault == faults < MaxFaults /\ faults' = faults + 1
Booted == At("boot", "idle")

\* load(): a file that cannot be read or parsed counts as none.
Stored == file.is = "whole"

Boot ==
  /\ At("boot", "boot")
  /\ LET seeded == Whole(EnvDsn, 0)
     IN job' = [job EXCEPT !["boot"] =
          CASE Stored -> [@ EXCEPT !.at = "connect", !.new = file]
            [] ~Stored /\ EnvDsn # NoDsn -> [@ EXCEPT !.at = "truncate", !.new = seeded]
            [] OTHER -> Idle]
  /\ UNCHANGED <<file, tmp, proc, rows, faults>> /\ UnchangedHistory

\* save(): the temporary file is opened, written, and put in place.  Whoever has
\* it open when another request puts it in place goes on writing into that.
Truncate(c) ==
  /\ At(c, "truncate") /\ tmp' = Torn /\ Goto(c, "write")
  /\ UNCHANGED <<file, proc, rows, faults>> /\ UnchangedHistory

Write(c) ==
  /\ At(c, "write") /\ tmp' = job[c].new /\ Goto(c, "replace")
  /\ UNCHANGED <<file, proc, rows, faults>> /\ UnchangedHistory

WriteInPlace(c) ==
  /\ At(c, "writeInPlace") /\ file' = job[c].new /\ Goto(c, "replace")
  /\ UNCHANGED <<tmp, proc, rows, faults>> /\ UnchangedHistory

AfterSave(c) == IF job[c].kind = "setup" THEN "ok" ELSE "connect"

Replace(c) ==
  /\ At(c, "replace") /\ tmp # Absent
  /\ file' = tmp /\ tmp' = Absent
  /\ job' = [d \in Threads |-> IF d = c THEN [job[c] EXCEPT !.at = AfterSave(c)]
                               ELSE IF At(d, "write") THEN [job[d] EXCEPT !.at = "writeInPlace"] ELSE job[d]]
  /\ UNCHANGED <<proc, rows, faults>> /\ UnchangedHistory

ReplaceFails(c) ==
  /\ At(c, "replace") /\ tmp = Absent /\ job' = [job EXCEPT ![c] = Idle]
  /\ UNCHANGED <<file, tmp, proc, rows, faults>> /\ UnchangedHistory

-----------------------------------------------------------------------------
(* _apply_settings: _load_database, the addresses, and only then the rest. *)

Connect(c) ==
  /\ At(c, "connect")
  /\ proc' = [proc EXCEPT !.db = job[c].new.dsn]
  /\ Goto(c, "orphans")
  /\ UNCHANGED <<file, tmp, rows, faults>> /\ UnchangedHistory

\* The rows of sessions that died, the caches, the hooks and the bus.
CloseOrphans(c) ==
  /\ At(c, "orphans") /\ Goto(c, "migrate")
  /\ UNCHANGED <<file, tmp, proc, rows, faults>> /\ UnchangedHistory

\* The devices of the file of an older version, unless the table has some.
Migrate(c) ==
  /\ At(c, "migrate")
  /\ Goto(c, IF Legacy > 0 /\ rows[proc.db] = 0 THEN "import" ELSE "devices")
  /\ UNCHANGED <<file, tmp, proc, rows, faults>> /\ UnchangedHistory

Import(c) ==
  /\ At(c, "import")
  /\ rows' = [rows EXCEPT ![proc.db] = IF @ < Legacy THEN @ + 1 ELSE @]
  /\ IF rows'[proc.db] = Legacy THEN Goto(c, "devices") ELSE UNCHANGED job
  /\ UNCHANGED <<file, tmp, proc, faults>> /\ UnchangedHistory

LoadDevices(c) ==
  /\ At(c, "devices")
  /\ proc' = [proc EXCEPT !.devices = proc.db, !.svc = job[c].new.svc,
                          !.dsn = job[c].new.dsn, !.configured = TRUE]
  /\ Goto(c, IF job[c].kind = "setup" THEN "truncate" ELSE "ok")
  /\ UNCHANGED <<file, tmp, rows, faults>> /\ UnchangedHistory

\* A step raises.  The boot goes on without a database, and is configured all
\* the same; a request is answered 400.
LoadingSteps == {"connect", "orphans", "migrate", "import", "devices"}
FailedBootUnconfigured(new) == [proc EXCEPT !.dsn = new.dsn]
FailedBoot(new) == [proc EXCEPT !.configured = TRUE, !.dsn = new.dsn]

StepFails(c) ==
  /\ job[c].at \in LoadingSteps /\ Fault
  /\ proc' = IF c = "boot" THEN FailedBoot(job[c].new) ELSE proc
  /\ job' = [job EXCEPT ![c] = Idle]
  /\ UNCHANGED <<file, tmp, rows>> /\ UnchangedHistory

Ok(c) ==
  /\ At(c, "ok")
  /\ job' = [job EXCEPT ![c] = Idle]
  /\ answered' = (answered \/ c # "boot")
  /\ UNCHANGED <<file, tmp, proc, rows, reopened, crowded, versions, faults>>

-----------------------------------------------------------------------------

NewRequest ==
  /\ versions < MaxSaves /\ versions' = versions + 1
  /\ crowded' = (crowded \/ \E c \in Admins : ~At(c, "idle"))

Setup(c) ==
  /\ Booted /\ At(c, "idle") /\ ~proc.configured /\ NewRequest
  /\ \E d \in Dsns : job' = [job EXCEPT ![c] = [at |-> "connect", kind |-> "setup", new |-> Whole(d, versions')]]
  /\ reopened' = (reopened \/ answered)
  /\ UNCHANGED <<file, tmp, proc, rows, answered, faults>>

\* What is not submitted stays as the file has it, or as it is by default.
\* The addresses are in use before anything is saved or connected.
Update(c) ==
  /\ Booted /\ At(c, "idle") /\ proc.configured /\ NewRequest
  /\ \E d \in Dsns \cup {proc.dsn}, svc \in {versions', IF Stored THEN file.svc ELSE 0} :
       /\ job' = [job EXCEPT ![c] = [at |-> "truncate", kind |-> "update", new |-> Whole(d, svc)]]
       /\ proc' = [proc EXCEPT !.svc = svc]
  /\ UNCHANGED <<file, tmp, rows, answered, reopened, faults>>

\* The process dies and comes back; the volume and the databases keep what they have.
Restart ==
  /\ Fault
  /\ proc' = Blank
  /\ job' = [c \in Threads |-> IF c = "boot" THEN [Idle EXCEPT !.at = "boot", !.kind = "boot"] ELSE Idle]
  /\ UNCHANGED <<file, tmp, rows>> /\ UnchangedHistory

Loading(c) == Connect(c) \/ CloseOrphans(c) \/ Migrate(c) \/ Import(c) \/ LoadDevices(c) \/ StepFails(c)
Saving(c) == Truncate(c) \/ Write(c) \/ WriteInPlace(c) \/ Replace(c) \/ ReplaceFails(c)

Rest == (\A c \in Threads : At(c, "idle")) /\ UNCHANGED settingsVars

Next ==
  \/ Boot \/ Restart
  \/ \E c \in Threads : Loading(c) \/ Saving(c) \/ Ok(c)
  \/ \E c \in Admins : Setup(c) \/ Update(c)
  \/ Rest

Spec == Init /\ [][Next]_settingsVars

-----------------------------------------------------------------------------
(* Properties.                                                             *)

TypeOK ==
  /\ {file.is, tmp.is} \subseteq {"absent", "torn", "whole"}
  /\ {proc.db, proc.devices, proc.dsn} \subseteq Dsns \cup {NoDsn}
  /\ \A d \in Dsns : rows[d] <= Legacy

\* "locked out entirely once CONFIGURED": after a setup or a save was answered,
\* no setup is accepted, whatever fails and however often the process restarts;
\* the file that says so can always be read, whenever the process dies.  Requests
\* that overlap are left out: they share one temporary file.
SetupStaysClosed == ~crowded => ~reopened /\ file # Torn
=============================================================================
