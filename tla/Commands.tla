------------------------------- MODULE Commands -------------------------------
(***************************************************************************)
(* The operator's commands: scripts/admin_setup.py (AdminSetup),           *)
(* seed_exercises.py (ExerciseSeeding), provision_sqli.py with the search  *)
(* that relies on it (SqliIsolation) and prepare_sqli_demo.py (SqliDemo).  *)
(* They share no state in the models; what each promises is stated here.   *)
(***************************************************************************)
EXTENDS AdminSetup

CONSTANTS
    Seeders, SeedLabs, SeedLabOf, MaxFaults,    \* of ExerciseSeeding
    Provisioners, Searches, SqliLabs, SqliLabOf, Sessions, ReaderLimit, MaxChanges   \* of SqliIsolation

VARIABLES
    seedPc, seedLock, seedLabs, flags, secrets, notes, index, missing, built, shown, last, lost, faults,
    demoPc, state, readers, db,
    sqliPc, sqliLock, objects, file, broken, at, always, changes

Seeding == INSTANCE ExerciseSeeding WITH
    Runs <- Seeders, Labs <- SeedLabs, LabOf <- SeedLabOf, pc <- seedPc, lock <- seedLock, labs <- seedLabs

Demo == INSTANCE SqliDemo WITH pc <- demoPc

Isolation == INSTANCE SqliIsolation WITH
    Labs <- SqliLabs, LabOf <- SqliLabOf, pc <- sqliPc, lock <- sqliLock

ASSUME CommandsAssumption == Seeding!SeedingAssumption /\ Isolation!IsolationAssumption

setupVars == vars
seedVars == <<seedPc, seedLock, seedLabs, flags, secrets, notes, index, missing, built, shown, last, lost, faults>>
demoVars == <<demoPc, state, readers, db>>
sqliVars == <<sqliPc, sqliLock, objects, file, broken, at, always, changes>>

-----------------------------------------------------------------------------
(* Properties of the components; LabsWhole and NoSecondSession are those   *)
(* of AdminSetup.                                                          *)

(* Seeding leaves one flag per exercise, known everywhere or nowhere, one  *)
(* document that holds it or an error, and prints each value once          *)
(* (ExerciseSeeding).                                                      *)
FlagsKnown ==
    /\ Seeding!TypeOK /\ Seeding!IndexKnown /\ Seeding!OneFlagEach /\ Seeding!OneDocument
    /\ Seeding!GapReported /\ Seeding!ValuesShown /\ Seeding!ShownOnce

(* A student's query runs as the reader of the student's own lab behind a  *)
(* boundary whose checks all held, and no file of the demo names readers   *)
(* before they are committed (SqliIsolation, SqliDemo).                    *)
ReadersConfined ==
    /\ Isolation!TypeOK /\ Isolation!CheckedThenRun /\ Isolation!OwnReaderOnly
    /\ Demo!TypeOK /\ Demo!NoEarlySuccess

(* What a lab was provisioned with and what the demo saved is never        *)
(* replaced by a repeated run (SqliIsolation, SqliDemo).                   *)
NothingReplaced == [][Isolation!KeepsObjects /\ Demo!KeepsFiles]_<<sqliVars, demoVars>>

=============================================================================
