----------------------------- MODULE MCTestRun -----------------------------
(***************************************************************************)
(* Instances of TestRun: two modules, one tested in each mode, in either    *)
(* order of the modes.  Both use IOC "A", so what one leaves meets the      *)
(* other.                                                                   *)
(***************************************************************************)
EXTENDS TestRun

CONSTANTS e, f, noId  \* emulator ids

Entry(ioc, kind, id) == [ioc |-> ioc, kind |-> kind, id |-> id]

(* Module 1 has a device with an emulator; module 2 an IOC without one and  *)
(* a device with an emulator.                                               *)
TwoModules == << {"recsim"}, {"devsim"} >>
TwoIocs == << << Entry("A", "emulator", e) >>,
              << Entry("B", "none", noId), Entry("A", "emulator", f) >> >>

(* A device with several emulators, as in the hlx503 tests.                  *)
ManyEmulators == << << Entry("A", "emulators", noId) >>,
                    << Entry("A", "emulator", e), Entry("B", "emulators", noId) >> >>

(* The README's module with two "emulators" entries.                        *)
ReadmeExample == << << Entry("A", "emulator", e) >>,
                    << Entry("A", "emulators", noId), Entry("B", "emulators", noId) >> >>

All == 1..2
TestSuites == {TwoIocs, ManyEmulators}
ReadmeSuite == {ReadmeExample}
=============================================================================
