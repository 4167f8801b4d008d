--------------------------- MODULE MCMeasurement ---------------------------
EXTENDS Measurement, TLC

\* The layers are interchangeable.
Symmetry == Permutations(Layers)
=============================================================================
