---------------------------- MODULE MCIRSmkLayout ----------------------------
(***************************************************************************)
(* Three input files in IRSmk's format (kmin kmax jmin jmax imin imax kp  *)
(* jp, with jp = imax+2 and kp = jp*(jmax+2)): one zone per axis as the   *)
(* documented convention gives it ([ijk]min = 2); the same grid started   *)
(* at 1, where readInput's check holds with equality and the stencil      *)
(* reaches x[0]; and kmin = 0, which the check rejects.                   *)
(***************************************************************************)
EXTENDS IRSmkLayout

Grid(k0, k1, j0, j1, i0, i1, kp, jp) ==
    [kmin |-> k0, kmax |-> k1, jmin |-> j0, jmax |-> j1,
     imin |-> i0, imax |-> i1, kp |-> kp, jp |-> jp]

MCInputs == { Grid(2, 3, 2, 3, 2, 3, 25, 5),
              Grid(1, 3, 1, 3, 1, 3, 25, 5),
              Grid(0, 3, 1, 3, 1, 3, 25, 5) }
=============================================================================
