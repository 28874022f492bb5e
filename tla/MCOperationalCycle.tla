--------------------------- MODULE MCOperationalCycle ---------------------------
(* cycle: two cycles, one fire, a geography in its corridor and a quiet    *)
(* one.  cycle_alone: one cycle, a fire near a grid cell and one near a    *)
(* station, in every environment.                                          *)
EXTENDS OperationalCycle

CONSTANTS r1, r2, f1, f2, g1, g2, g3, g4

Fixture == [mode |-> "fixture", grid |-> TRUE, dispersion |-> FALSE,
            strictLag |-> TRUE, fallback |-> TRUE, preset |-> ""]

MCEnvironments == {Fixture, [Fixture EXCEPT !.fallback = FALSE],
                   [Fixture EXCEPT !.grid = FALSE, !.dispersion = TRUE, !.strictLag = FALSE],
                   [Fixture EXCEPT !.mode = "live", !.preset = "v3"]}

AllEnvironments == EnvFields

MCInside == {<< f1, g1 >>}
MCCorridor == {"grid", "station"} \X {f1} \X {g1}
MCDownwind == {"grid", "station"} \X {f1} \X {g1, g2}

\* g1 has a fire, g2 is near the other, g3 is quiet, g4 has measurements.
AloneInside == {<< f1, g1 >>}
AloneNearby == {<< f2, g2 >>}

\* f1 has both winds, of different directions; f2 has a station only.
AloneCorridor == {<< "grid", f1, g1 >>, << "station", f1, g2 >>, << "station", f2, g3 >>}
AloneDownwind == AloneCorridor \cup {<< "grid", f1, g2 >>, << "station", f2, g1 >>}
=============================================================================
