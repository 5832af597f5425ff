------------------------------- MODULE License --------------------------------
(***************************************************************************)
(* license/manager.py: what a node may do is decided, at every call of     *)
(* status, from four files: the license, the backup an import leaves, the  *)
(* start of the trial and the mark that it is over.  status writes some of *)
(* them; import_file replaces the license file.  The professional routes   *)
(* ask in a sync dependency (api/deps.py, require_pro_license), which runs *)
(* in a thread of its own: status calls run beside each other and beside   *)
(* an import, one file operation of the one between two of the other, and  *)
(* the process may die between any two.  The professional schedulers are   *)
(* started, or not, once per process (main.py, lifespan).                  *)
(***************************************************************************)
EXTENDS Integers

CONSTANTS
  Licenses,     \* files somebody may import
  Genuine,      \* those signed by the vendor for this machine
  Expiry,       \* the last hour each of them is valid
  Community,    \* is_community_edition
  GraceHours,   \* grace_hours
  LastHour,     \* bound on the clock
  Requests,     \* requests that may ask for the status at once
  Boot,         \* the call of status in lifespan
  Absent, Torn  \* no file; one whose write was cut off

ASSUME LicenseAssumption ==
  /\ Genuine \subseteq Licenses
  /\ Expiry \in [Licenses -> Nat]
  /\ Community \in BOOLEAN
  /\ GraceHours \in Nat \ {0} /\ LastHour \in Nat
  /\ Boot \notin Requests
  /\ Absent \notin Licenses \cup Nat /\ Torn \notin Licenses \cup Nat
  /\ Absent # Torn

VARIABLES
  hour,       \* the clock
  lic, bak,   \* license.lic and license.lic.bak
  start,      \* .grace_start: the hour in it
  over,       \* whether .grace_expired is there
  check,      \* the next operation of each call of status
  importing,  \* the file being imported, or Absent
  importPc,   \* the next operation of import_file
  inForce,    \* history: the last license an import verified
  trialFrom,  \* history: the hour the trial began, since a verified license ended one
  leftover,   \* history: what became of the file of an import that died over it
  answer,     \* the last answer of allow_operation, and when
  serving,    \* whether the process is up
  jobs        \* whether it has started the professional schedulers

licenseFiles == <<lic, bak, start, over>>
importVars == <<importing, importPc, inForce, leftover>>
process == <<serving, jobs>>
vars == <<hour, licenseFiles, check, importVars, trialFrom, answer, process>>

Callers == Requests \cup {Boot}
Contents == Licenses \cup {Absent, Torn}

TypeOK ==
  /\ hour \in 0 .. LastHour
  /\ lic \in Contents /\ bak \in Contents
  /\ start \in 0 .. LastHour \cup {Absent, Torn}
  /\ over \in BOOLEAN
  /\ check \in [Callers -> {"idle", "verify", "unstart", "unmark",
                            "over", "start", "mark", "again", "create", "write"}]
  /\ importing \in Licenses \cup {Absent}
  /\ importPc \in {"idle", "open", "write", "verify", "clear", "unmark", "unback",
                   "refuse", "restore"}
  /\ inForce \in Genuine \cup {Absent}
  /\ trialFrom \in 0 .. LastHour \cup {Absent}
  /\ leftover \in {"none", "there", "moved"}
  /\ answer \in [allowed : BOOLEAN, licensed : BOOLEAN, at : 0 .. LastHour]
  /\ serving \in BOOLEAN /\ jobs \in BOOLEAN

Init ==
  /\ hour = 0
  /\ lic = Absent /\ bak = Absent
  /\ start = Absent /\ over = FALSE
  /\ check = [c \in Callers |-> "idle"]
  /\ importing = Absent /\ importPc = "idle"
  /\ inForce = Absent /\ trialFrom = Absent /\ leftover = "none"
  /\ answer = [allowed |-> FALSE, licensed |-> FALSE, at |-> 0]
  /\ serving = FALSE /\ jobs = FALSE

\* verify_full: signature, fields, fingerprint and expiry.
Verifies(f) == f \in Genuine /\ hour <= Expiry[f]

-----------------------------------------------------------------------------
(* status and allow_operation, one file operation a step *)

CheckAt(c, at) == check[c] = at

CheckGoesOn(c, to) ==
  /\ check' = [check EXCEPT ![c] = to]
  /\ UNCHANGED <<answer, process>>

\* active or grace_period lets the caller through; lifespan starts jobs or does not.
Answers(c, allowed, licensed) ==
  /\ check' = [check EXCEPT ![c] = "idle"]
  /\ answer' = [allowed |-> allowed, licensed |-> licensed, at |-> hour]
  /\ IF c = Boot THEN serving' = TRUE /\ jobs' = allowed ELSE UNCHANGED process

\* Is there a license file?
IsFile(c) ==
  /\ CheckAt(c, "idle")
  /\ serving <=> c # Boot
  /\ IF lic # Absent THEN CheckGoesOn(c, "verify")
     ELSE IF Community THEN Answers(c, FALSE, FALSE)
     ELSE CheckGoesOn(c, "over")
  /\ UNCHANGED <<hour, licenseFiles, importVars, trialFrom>>

\* A file that is gone or does not verify blocks.
Verify(c) ==
  /\ CheckAt(c, "verify")
  /\ IF Verifies(lic) THEN CheckGoesOn(c, "unstart") ELSE Answers(c, FALSE, FALSE)
  /\ UNCHANGED <<hour, licenseFiles, importVars, trialFrom>>

\* An active license ends the trial's files.
Unstart(c) ==
  /\ CheckAt(c, "unstart")
  /\ start' = Absent /\ trialFrom' = Absent
  /\ CheckGoesOn(c, "unmark")
  /\ UNCHANGED <<hour, lic, bak, over, importVars>>

Unmark(c) ==
  /\ CheckAt(c, "unmark")
  /\ over' = FALSE
  /\ Answers(c, TRUE, TRUE)
  /\ UNCHANGED <<hour, lic, bak, start, importVars, trialFrom>>

CheckOver(c) ==
  /\ CheckAt(c, "over")
  /\ IF over THEN Answers(c, FALSE, FALSE) ELSE CheckGoesOn(c, "start")
  /\ UNCHANGED <<hour, licenseFiles, importVars, trialFrom>>

\* Remaining grace, from a .grace_start that can be read.
InGrace == start \in Nat /\ hour - start < GraceHours

\* Mutant: the start is renewed when it has run out.
AfterStart_Renews == IF start \in Nat THEN "create" ELSE "again"

\* What follows when the trial is not running: its mark, or a look for a start once more.
AfterStart == IF start \in Nat THEN "mark" ELSE "again"

ReadStart(c) ==
  /\ CheckAt(c, "start")
  /\ IF InGrace THEN Answers(c, TRUE, FALSE) ELSE CheckGoesOn(c, AfterStart)
  /\ UNCHANGED <<hour, licenseFiles, importVars, trialFrom>>

Mark(c) ==
  /\ CheckAt(c, "mark")
  /\ over' = TRUE
  /\ Answers(c, FALSE, FALSE)
  /\ UNCHANGED <<hour, lic, bak, start, importVars, trialFrom>>

\* A start that is there but cannot be read blocks, and nothing writes it again.
LookAgain(c) ==
  /\ CheckAt(c, "again")
  /\ IF start = Absent THEN CheckGoesOn(c, "create") ELSE Answers(c, FALSE, FALSE)
  /\ UNCHANGED <<hour, licenseFiles, importVars, trialFrom>>

\* The first write of the start: the file is opened, empty, and then filled, unless a
\* verified license has unlinked it in between.
CreateStart(c) ==
  /\ CheckAt(c, "create")
  /\ start' = Torn
  /\ trialFrom' = IF trialFrom = Absent THEN hour ELSE trialFrom
  /\ CheckGoesOn(c, "write")
  /\ UNCHANGED <<hour, lic, bak, over, importVars>>

WriteStart(c) ==
  /\ CheckAt(c, "write")
  /\ start' = IF start = Absent THEN Absent ELSE hour
  /\ Answers(c, TRUE, FALSE)
  /\ UNCHANGED <<hour, lic, bak, over, importVars, trialFrom>>

CheckStep(c) ==
  \/ IsFile(c) \/ Verify(c) \/ Unstart(c) \/ Unmark(c)
  \/ CheckOver(c) \/ ReadStart(c) \/ Mark(c)
  \/ LookAgain(c) \/ CreateStart(c) \/ WriteStart(c)

-----------------------------------------------------------------------------
(* import_file: its route awaits nothing in it, so imports do not overlap *)

ImportGoesOn(from, to) ==
  /\ importPc = from /\ importPc' = to
  /\ UNCHANGED <<hour, check, answer, process>>

\* Mutant: the license in force is overwritten in place.
Backup_None == bak

\* license_file.replace(backup), over an older backup.
Backup == IF lic = Absent THEN bak ELSE lic

ImportBegins(f) ==
  /\ serving
  /\ ImportGoesOn("idle", "open")
  /\ importing' = f
  /\ bak' = Backup
  /\ lic' = Absent
  /\ leftover' = IF leftover = "there" THEN "moved" ELSE leftover
  /\ UNCHANGED <<start, over, inForce, trialFrom>>

\* write_bytes.
ImportOpens ==
  /\ ImportGoesOn("open", "write")
  /\ lic' = Torn
  /\ UNCHANGED <<bak, start, over, importing, inForce, leftover, trialFrom>>

ImportWrites ==
  /\ ImportGoesOn("write", "verify")
  /\ lic' = importing
  /\ UNCHANGED <<bak, start, over, importing, inForce, leftover, trialFrom>>

WriteFails ==
  /\ ImportGoesOn(importPc, "refuse")
  /\ importPc \in {"open", "write"}
  /\ UNCHANGED <<licenseFiles, importing, inForce, leftover, trialFrom>>

ImportVerifies ==
  /\ ImportGoesOn("verify", IF Verifies(lic) THEN "clear" ELSE "refuse")
  /\ inForce' = IF Verifies(lic) THEN lic ELSE inForce
  /\ leftover' = IF Verifies(lic) THEN "none" ELSE leftover
  /\ UNCHANGED <<licenseFiles, importing, trialFrom>>

\* The trial's files and the backup go.
ImportClears ==
  /\ ImportGoesOn("clear", "unmark")
  /\ start' = Absent /\ trialFrom' = Absent
  /\ UNCHANGED <<lic, bak, over, importing, inForce, leftover>>

ImportUnmarks ==
  /\ ImportGoesOn("unmark", "unback")
  /\ over' = FALSE
  /\ UNCHANGED <<lic, bak, start, importing, inForce, leftover, trialFrom>>

ImportEnds ==
  /\ ImportGoesOn("unback", "idle")
  /\ bak' = Absent /\ importing' = Absent
  /\ UNCHANGED <<lic, start, over, inForce, leftover, trialFrom>>

\* The except branch: what was there before comes back.
ImportRefused ==
  /\ ImportGoesOn("refuse", "restore")
  /\ lic' = Absent
  /\ UNCHANGED <<bak, start, over, importing, inForce, leftover, trialFrom>>

ImportRestores ==
  /\ ImportGoesOn("restore", "idle")
  /\ lic' = bak
  /\ bak' = Absent /\ importing' = Absent
  /\ UNCHANGED <<start, over, inForce, leftover, trialFrom>>

ImportStep ==
  \/ \E f \in Licenses : ImportBegins(f)
  \/ ImportOpens \/ ImportWrites \/ WriteFails \/ ImportVerifies
  \/ ImportClears \/ ImportUnmarks \/ ImportEnds
  \/ ImportRefused \/ ImportRestores

-----------------------------------------------------------------------------
(* The process and the clock *)

\* The process dies; an import leaves what it had written and not verified.
Dies ==
  /\ serving \/ check[Boot] # "idle"
  /\ check' = [c \in Callers |-> "idle"]
  /\ importing' = Absent /\ importPc' = "idle"
  /\ leftover' = IF leftover = "none" /\ importPc \in {"write", "verify", "refuse"}
                 THEN "there" ELSE leftover
  /\ serving' = FALSE /\ jobs' = FALSE
  /\ UNCHANGED <<hour, licenseFiles, inForce, trialFrom, answer>>

\* File operations take no noticeable part of an hour.
HourPasses ==
  /\ importPc = "idle" /\ check = [c \in Callers |-> "idle"]
  /\ hour < LastHour
  /\ hour' = hour + 1
  /\ UNCHANGED <<licenseFiles, check, importVars, trialFrom, answer, process>>

Next ==
  \/ \E c \in Callers : CheckStep(c)
  \/ ImportStep
  \/ Dies
  \/ HourPasses

Spec == Init /\ [][Next]_vars

-----------------------------------------------------------------------------
(* Properties *)

\* Without a license a node is let through for grace_hours in all, counted from the
\* hour its trial began, whatever is asked, imported, refused, marked or cut off
\* meanwhile and in whatever order; only a verified license, in status or in an
\* import, ends the count (status, import_file).
TrialIsBounded ==
  answer.allowed /\ ~answer.licensed /\ trialFrom # Absent
    => answer.at - trialFrom < GraceHours

\* The license an import put in force stays in the license file or its backup until
\* another one has verified, whichever operation fails or is cut off, and a refused
\* import puts it back; with one exception: when an import died over a file it had
\* not verified, the next import moves that file over the backup (import_file).
LicenseIsKept ==
  inForce # Absent /\ leftover # "moved" =>
    /\ inForce \in {lic, bak}
    /\ importPc = "restore" => inForce = bak
    /\ importPc = "idle" /\ leftover = "none" /\ lic # Absent => inForce = lic
=============================================================================
