------------------------ MODULE MCResourceScheduler ------------------------
(***************************************************************************)
(* Small instances of ResourceScheduler.                                   *)
(***************************************************************************)
EXTENDS ResourceScheduler

CONSTANTS r1, r2, r3, g1, g2, x, y

Req(g, m, f, res, pol) ==
  [group |-> g, max |-> m, fixed |-> f, res |-> res, policy |-> pol]

\* r1 is a phased run (fixed limit 1) or a run of the same package that needs two
\* resources; r2 needs one of them, for that package or another; r3 is a fifo
\* request that needs the same one, a run of r1's package or a per-group request.
\* r2 and r3 of the other package may take turns past r1 for ever.
MixedOffers ==
  r1 :> {Req(g1, 1, TRUE, {}, "per-group"), Req(g1, 2, FALSE, {x, y}, "per-group")}
  @@ r2 :> {Req(g1, 2, FALSE, {x}, "per-group"), Req(g2, 2, FALSE, {x}, "per-group")}
  @@ r3 :> {Req(g2, 1, FALSE, {x}, "fifo"), Req(g1, 2, FALSE, {}, "per-group"),
            Req(g2, 2, FALSE, {y}, "per-group")}
=============================================================================
